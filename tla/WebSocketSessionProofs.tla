------------------------ MODULE WebSocketSessionProofs ------------------------
(***************************************************************************)
(* Proofs about WebSocketSession for any scripts of the client, actors,    *)
(* subscriptions, failures of the ports and capacities of the channels.    *)
(***************************************************************************)
EXTENDS WebSocketSession, FiniteSetTheorems, SequenceTheorems, TLAPS

(* The awaits of the coordinator's loop, and the stages that follow it.     *)
Looping == {"loop", "resolving", "subscribing", "joining", "complaining"}
PumpsJoined == {"join_reader", "join_actions", "join_queries", "join_writer", "returned"}
Shutting == {"await_writer", "join_pumps"} \cup PumpsJoined

(* Every action of the loop.                                                *)
LoopAction ==
  \/ HandleGarbage \/ HandleClose \/ HandleNative \/ InputEnds \/ HandleHello
  \/ HandleAuthenticate \/ Resolve \/ HandlePing \/ HandleAction \/ HandleQuery
  \/ HandleSubscribe \/ Subscribed \/ HandleUnsubscribe \/ Joined
  \/ ReportComplaint \/ OnActionCompleted \/ OnQueryCompleted
  \/ OnSubscriptionFinished \/ OnEventSourceFailed \/ OnSlowConsumer
  \/ OnTaskFailed \/ Heartbeat

(* What the reader may hand over, and the jobs that may come of it.         *)
Frames ==
  {Frame("Closed", NotJson)} \cup (UNION {{s[i] : i \in DOMAIN s} : s \in Scripts})

JobOf(frame) ==
  LET payload == DecodeInbound(frame.text).payload
  IN  Job(payload.message_id.id, payload.payload.fields.actor_id.id)

Jobs ==
  {JobOf(frame) : frame \in {f \in Frames : DecodeInbound(f.text).kind = "action"}}

InputInv ==
  /\ script \in Seq(Frames)
  /\ DOMAIN reader = {"at", "frame"} /\ reader.frame \in Frames
  /\ inbound \in Seq(Frames)

(* A connection is bound to an actor when it is ready, and never again.     *)
ConnectionInv ==
  /\ connection \in [state : {"Negotiating", "Authenticating", "Ready", "Closed"},
                     identity : Actors \cup {NoActor}]
  /\ connection.state \in {"Negotiating", "Authenticating"} =>
       connection.identity = NoActor
  /\ connection.state = "Closed" <=> coordinator \in Shutting
  /\ coordinator = "resolving" => connection.state = "Authenticating"
  /\ coordinator \in Looping \cup {"final_error", "send_close"} \cup Shutting

Bound(job) == connection.identity # NoActor /\ job.actor = connection.identity

(* The jobs that wait or are being executed are those of the bound actor.   *)
WorkInv ==
  /\ actionQueue \in Seq(Jobs)
  /\ executed \in Seq(Jobs)
  /\ DOMAIN actionWorker = {"at", "job", "result"}
  /\ \A i \in 1..Len(actionQueue) : Bound(actionQueue[i])
  /\ actionWorker.at = "executing" => actionWorker.job \in Jobs /\ Bound(actionWorker.job)

(* A pump that runs has a handle, or the coordinator is waiting for it.     *)
PumpInv ==
  /\ DOMAIN pump = Subscriptions
  /\ \A s \in Subscriptions : pump[s] \notin {"none", "done"} =>
       s \in subscriptions \/ (coordinator = "joining" /\ joining.subscription = s)
  /\ coordinator \in PumpsJoined => subscriptions = {}

(* What was joined has ended.                                               *)
JoinInv ==
  /\ DOMAIN writer = {"at", "command"}
  /\ DOMAIN queryWorker = {"at", "request", "result"}
  /\ coordinator \in PumpsJoined \ {"join_reader"} => reader.at = "done"
  /\ coordinator \in {"join_queries", "join_writer", "returned"} =>
       actionWorker.at = "done"
  /\ coordinator \in {"join_writer", "returned"} => queryWorker.at = "done"
  /\ coordinator = "returned" => writer.at = "done"

SessionInv == InputInv /\ ConnectionInv /\ WorkInv /\ PumpInv /\ JoinInv

---------------------------------------------------------------------------
(* What the steps leave alone.                                              *)

(* A branch of the loop that changes neither the connection nor the pumps   *)
(* nor the queue of actions, and that returns to the loop or ends it.       *)
Plain ==
  /\ coordinator \in {"loop", "complaining"}
  /\ coordinator' \in {"loop", "complaining", "final_error"}
  /\ UNCHANGED <<connection, actionQueue, pump, subscriptions, joining>>

PlainAction ==
  \/ HandleGarbage \/ HandleClose \/ HandleNative \/ InputEnds \/ HandlePing
  \/ HandleQuery \/ ReportComplaint \/ OnActionCompleted \/ OnQueryCompleted
  \/ OnSlowConsumer \/ OnTaskFailed \/ Heartbeat

(* The plain branches are plain.                                            *)
LEMMA PlainActionIsPlain == PlainAction => Plain
<1> USE DEF TakeMessage, TakeFrame, TakeEvent, Stay, Leave, Complain, Deliver, Reply,
            LeaveTelling, ControlElse, handshake, pumpVars, Plain
<1>1. HandleGarbage => Plain
  BY DEF HandleGarbage
<1>2. HandleClose => Plain
  BY DEF HandleClose
<1>3. HandleNative => Plain
  BY DEF HandleNative
<1>4. InputEnds => Plain
  BY DEF InputEnds
<1>5. HandlePing => Plain
  BY DEF HandlePing
<1>6. HandleQuery => Plain
  BY DEF HandleQuery
<1>7. ReportComplaint => Plain
  BY DEF ReportComplaint
<1>8. OnActionCompleted => Plain
  BY DEF OnActionCompleted
<1>9. OnQueryCompleted => Plain
  BY DEF OnQueryCompleted, QueueQueryResponse
<1>10. OnSlowConsumer => Plain
  BY DEF OnSlowConsumer
<1>11. OnTaskFailed => Plain
  BY DEF OnTaskFailed
<1>12. Heartbeat => Plain
  BY DEF Heartbeat
<1>13. QED
  BY <1>1, <1>2, <1>3, <1>4, <1>5, <1>6, <1>7, <1>8, <1>9, <1>10, <1>11, <1>12
  DEF PlainAction

(* The other tasks keep what they hold while the loop runs, and a frame is  *)
(* taken whole.                                                             *)
LoopFrame ==
  /\ UNCHANGED TaskVars
  /\ UNCHANGED inbound \/ (inbound # <<>> /\ inbound' = Tail(inbound))

(* No branch of the loop touches the other tasks.                           *)
LEMMA LoopActionFrame == LoopAction => LoopFrame
<1> USE DEF TakeMessage, TakeFrame, TakeEvent, LoopFrame
<1>1. HandleGarbage \/ HandleClose \/ HandleNative \/ InputEnds => LoopFrame
  BY DEF HandleGarbage, HandleClose, HandleNative, InputEnds
<1>2. HandleHello \/ HandleAuthenticate \/ Resolve \/ HandlePing => LoopFrame
  BY DEF HandleHello, HandleAuthenticate, Resolve, HandlePing
<1>3. HandleAction \/ HandleQuery \/ HandleSubscribe \/ Subscribed => LoopFrame
  BY DEF HandleAction, HandleQuery, HandleSubscribe, Subscribed
<1>4. HandleUnsubscribe \/ Joined \/ ReportComplaint => LoopFrame
  BY DEF HandleUnsubscribe, Joined, ReportComplaint
<1>5. OnActionCompleted \/ OnQueryCompleted \/ OnSubscriptionFinished => LoopFrame
  BY DEF OnActionCompleted, OnQueryCompleted, OnSubscriptionFinished
<1>6. OnEventSourceFailed \/ OnSlowConsumer \/ OnTaskFailed \/ Heartbeat => LoopFrame
  BY DEF OnEventSourceFailed, OnSlowConsumer, OnTaskFailed, Heartbeat
<1>7. QED
  BY <1>1, <1>2, <1>3, <1>4, <1>5, <1>6 DEF LoopAction

(* How the connection, the queue of actions and the pumps change in the     *)
(* other branches.                                                          *)
LEMMA HelloBegins ==
  HandleHello =>
    /\ coordinator = "loop" /\ coordinator' \in {"loop", "complaining"}
    /\ UNCHANGED <<actionQueue, pump, subscriptions, joining>>
    /\ \/ UNCHANGED connection
       \/ /\ connection.state = "Negotiating"
          /\ connection' = [connection EXCEPT !.state = "Authenticating"]
<1> SUFFICES ASSUME HandleHello
             PROVE  /\ coordinator = "loop" /\ coordinator' \in {"loop", "complaining"}
                    /\ UNCHANGED <<actionQueue, pump, subscriptions, joining>>
                    /\ \/ UNCHANGED connection
                       \/ /\ connection.state = "Negotiating"
                          /\ connection' = [connection EXCEPT !.state = "Authenticating"]
  OBVIOUS
<1>1. coordinator = "loop" /\ UNCHANGED <<actionQueue, pump, subscriptions, joining>>
  BY DEF HandleHello, TakeMessage, TakeFrame, ControlElse, pumpVars
<1>2. coordinator' \in {"loop", "complaining"}
  BY DEF HandleHello, Complain, Stay
<1>3. \A hello : HelloError(hello) = NoError => connection.state = "Negotiating"
  BY DEF HelloError, NoError, Internal, Error
<1>4. \/ UNCHANGED connection
      \/ /\ connection.state = "Negotiating"
         /\ connection' = [connection EXCEPT !.state = "Authenticating"]
  BY <1>3 DEF HandleHello, handshake, Select
<1>5. QED
  BY <1>1, <1>2, <1>4

(* Only an action of the bound actor is queued.                             *)
LEMMA ActionIsBound ==
  ASSUME InputInv, HandleAction
  PROVE  /\ coordinator = "loop" /\ coordinator' \in {"loop", "complaining"}
         /\ UNCHANGED <<connection, pump, subscriptions, joining>>
         /\ \/ UNCHANGED actionQueue
            \/ \E job \in Jobs : Bound(job) /\ actionQueue' = Append(actionQueue, job)
<1>1. /\ coordinator = "loop" /\ UNCHANGED <<connection, pump, subscriptions, joining>>
      /\ inbound # <<>> /\ Decoded.kind = "action"
  BY DEF HandleAction, TakeMessage, TakeFrame, handshake, pumpVars
<1>2. coordinator' \in {"loop", "complaining"}
  BY DEF HandleAction, Complain, Stay
<1> DEFINE actor == Payload.payload.fields.actor_id.id
           job == Job(Payload.message_id.id, actor)
           unbound == ValidateActionBinding(connection.identity, actor)
           refused == IF ~Ready THEN NotReady
                      ELSE IF unbound # NoError THEN unbound
                      ELSE IF ~ActionRoom THEN Error("Execution", "Unavailable")
                      ELSE NoError
<1>3. \/ refused = NoError /\ actionQueue' = Append(actionQueue, job)
      \/ UNCHANGED actionQueue
  BY DEF HandleAction
<1>4. NotReady # NoError
  BY DEF NotReady, NoError, Error
<1>5. refused = NoError => unbound = NoError
  BY <1>4
<1>6. unbound = NoError => connection.identity # NoActor /\ connection.identity = actor
  BY DEF ValidateActionBinding, NoError, Error
<1>7. refused = NoError => Bound(job)
  BY <1>5, <1>6 DEF Bound, Job
<1>8. job \in Jobs
  <2>1. Head(inbound) \in Frames
    BY <1>1, HeadTailProperties DEF InputInv
  <2>2. job = JobOf(Head(inbound))
    BY DEF JobOf, Payload, Decoded
  <2>3. DecodeInbound(Head(inbound).text).kind = "action"
    BY <1>1 DEF Decoded
  <2>4. QED
    BY <2>1, <2>2, <2>3 DEF Jobs
<1> HIDE DEF job, refused
<1>9. QED
  BY <1>1, <1>2, <1>3, <1>7, <1>8

(* The branches that change which pumps have a handle.                      *)
PumpMove ==
  \/ /\ coordinator = "loop" /\ coordinator' \in {"loop", "complaining", "subscribing"}
     /\ UNCHANGED <<pump, subscriptions>>
  \/ /\ coordinator = "loop" /\ coordinator' = "final_error"
     /\ UNCHANGED <<pump, subscriptions>>
  \/ /\ coordinator = "subscribing" /\ coordinator' \in {"loop", "complaining"}
     /\ \/ UNCHANGED <<pump, subscriptions>>
        \/ \E s \in Subscriptions : /\ pump' = [pump EXCEPT ![s] = "running"]
                                    /\ subscriptions' = subscriptions \cup {s}
        \/ \E s \in Subscriptions : /\ pump' = [pump EXCEPT ![s] = "done"]
                                    /\ UNCHANGED subscriptions
  \/ /\ coordinator = "loop" /\ coordinator' = "joining"
     /\ subscriptions' = subscriptions \ {joining'.subscription}
     /\ UNCHANGED pump
  \/ /\ coordinator = "joining"
     /\ coordinator' \in {"loop", "complaining", "final_error"}
     /\ pump[joining.subscription] = "done"
     /\ UNCHANGED <<pump, subscriptions>>

PumpAction ==
  \/ HandleSubscribe \/ Subscribed \/ HandleUnsubscribe \/ Joined
  \/ OnSubscriptionFinished \/ OnEventSourceFailed

(* They change nothing else.                                                *)
LEMMA PumpActionMoves ==
  PumpAction => PumpMove /\ UNCHANGED <<connection, actionQueue>>
<1> USE DEF TakeMessage, TakeFrame, TakeEvent, Stay, Leave, Complain, Deliver, Reply,
            handshake, pumpVars, Join, Goto, PumpMove
<1>1. HandleSubscribe => PumpMove /\ UNCHANGED <<connection, actionQueue>>
  BY DEF HandleSubscribe
<1>2. Subscribed => PumpMove /\ UNCHANGED <<connection, actionQueue>>
  BY DEF Subscribed
<1>3. HandleUnsubscribe => PumpMove /\ UNCHANGED <<connection, actionQueue>>
  BY DEF HandleUnsubscribe
<1>4. Joined => PumpMove /\ UNCHANGED <<connection, actionQueue>>
  BY DEF Joined
<1>5. OnSubscriptionFinished => PumpMove /\ UNCHANGED <<connection, actionQueue>>
  BY DEF OnSubscriptionFinished
<1>6. OnEventSourceFailed => PumpMove /\ UNCHANGED <<connection, actionQueue>>
  BY DEF OnEventSourceFailed
<1>7. QED
  BY <1>1, <1>2, <1>3, <1>4, <1>5, <1>6 DEF PumpAction

(* The branches of the loop, once more: plain, about pumps, or one of four. *)
LEMMA LoopCases ==
  LoopAction => \/ PlainAction \/ PumpAction
                \/ HandleHello \/ HandleAuthenticate \/ Resolve \/ HandleAction
BY DEF LoopAction, PlainAction, PumpAction

---------------------------------------------------------------------------
(* The invariant, for the steps of the coordinator's loop.                  *)

(* What was read.                                                           *)
LEMMA LoopKeepsInput == InputInv /\ LoopFrame => InputInv'
<1> SUFFICES ASSUME InputInv, LoopFrame PROVE InputInv'
  OBVIOUS
<1>1. UNCHANGED <<script, reader>>
  BY DEF LoopFrame, TaskVars, inputVars
<1>2. inbound' \in Seq(Frames)
  BY HeadTailProperties DEF InputInv, LoopFrame
<1>3. QED
  BY <1>1, <1>2 DEF InputInv

(* The branches that leave the connection and the actions alone.            *)
LEMMA LoopKeepsBinding ==
  ASSUME ConnectionInv, WorkInv, UNCHANGED <<connection, actionQueue, actionVars>>,
         coordinator \in Looping,
         coordinator' \in (Looping \ {"resolving"}) \cup {"final_error"}
  PROVE  ConnectionInv' /\ WorkInv'
<1>1. ConnectionInv'
  BY DEF ConnectionInv, Looping, Shutting, PumpsJoined
<1>2. WorkInv'
  BY DEF WorkInv, Bound, actionVars
<1>3. QED
  BY <1>1, <1>2

(* Pumps and handles.                                                       *)
LEMMA LoopKeepsPumps == PumpInv /\ PumpMove => PumpInv'
<1> SUFFICES ASSUME PumpInv, PumpMove PROVE PumpInv'
  OBVIOUS
<1> USE DEF PumpInv, PumpsJoined
<1>1. CASE /\ coordinator = "loop" /\ coordinator' \in {"loop", "complaining", "subscribing"}
           /\ UNCHANGED <<pump, subscriptions>>
  BY <1>1
<1>2. CASE /\ coordinator = "loop" /\ coordinator' = "final_error"
           /\ UNCHANGED <<pump, subscriptions>>
  BY <1>2
<1>3. CASE coordinator = "subscribing" /\ coordinator' \in {"loop", "complaining"}
  <2>1. CASE UNCHANGED <<pump, subscriptions>>
    BY <1>3, <2>1
  <2>2. ASSUME NEW s \in Subscriptions, pump' = [pump EXCEPT ![s] = "running"],
               subscriptions' = subscriptions \cup {s}
        PROVE  PumpInv'
    BY <1>3, <2>2
  <2>3. ASSUME NEW s \in Subscriptions, pump' = [pump EXCEPT ![s] = "done"],
               UNCHANGED subscriptions
        PROVE  PumpInv'
    BY <1>3, <2>3
  <2>4. QED
    BY <1>3, <2>1, <2>2, <2>3 DEF PumpMove
<1>4. CASE /\ coordinator = "loop" /\ coordinator' = "joining"
           /\ subscriptions' = subscriptions \ {joining'.subscription}
           /\ UNCHANGED pump
  BY <1>4
<1>5. CASE /\ coordinator = "joining"
           /\ coordinator' \in {"loop", "complaining", "final_error"}
           /\ pump[joining.subscription] = "done"
           /\ UNCHANGED <<pump, subscriptions>>
  BY <1>5
<1>6. QED
  BY <1>1, <1>2, <1>3, <1>4, <1>5 DEF PumpMove

(* The coordinator's loop keeps the invariant.                              *)
LEMMA LoopKeeps == SessionInv /\ LoopAction => SessionInv'
<1> SUFFICES ASSUME SessionInv, LoopAction PROVE SessionInv'
  OBVIOUS
<1>1. LoopFrame
  BY LoopActionFrame
<1>2. UNCHANGED <<actionVars, script, reader, writer, queryWorker>>
  BY <1>1 DEF LoopFrame, TaskVars, inputVars, writerVars, queryVars
<1>3. InputInv'
  BY <1>1, LoopKeepsInput DEF SessionInv
<1>4. ASSUME coordinator' \in Looping \cup {"final_error"}
      PROVE  JoinInv'
  BY <1>2, <1>4 DEF SessionInv, JoinInv, Looping, PumpsJoined
<1>5. CASE PlainAction
  <2>1. Plain
    BY <1>5, PlainActionIsPlain
  <2>2. ConnectionInv' /\ WorkInv'
    BY <1>2, <2>1, LoopKeepsBinding DEF Plain, Looping, SessionInv
  <2>3. PumpInv'
    BY <2>1 DEF Plain, SessionInv, PumpInv, PumpsJoined
  <2>4. JoinInv'
    BY <1>4, <2>1 DEF Plain, Looping
  <2>5. QED
    BY <1>3, <2>2, <2>3, <2>4 DEF SessionInv
<1>6. CASE PumpAction
  <2>1. PumpMove /\ UNCHANGED <<connection, actionQueue>>
    BY <1>6, PumpActionMoves
  <2>2. ConnectionInv' /\ WorkInv'
    BY <1>2, <2>1, LoopKeepsBinding DEF PumpMove, Looping, SessionInv
  <2>3. PumpInv'
    BY <2>1, LoopKeepsPumps DEF SessionInv
  <2>4. JoinInv'
    BY <1>4, <2>1 DEF PumpMove, Looping
  <2>5. QED
    BY <1>3, <2>2, <2>3, <2>4 DEF SessionInv
<1>7. CASE HandleHello
  <2>1. /\ coordinator = "loop" /\ coordinator' \in {"loop", "complaining"}
        /\ UNCHANGED <<actionQueue, pump, subscriptions, joining>>
        /\ \/ UNCHANGED connection
           \/ /\ connection.state = "Negotiating"
              /\ connection' = [connection EXCEPT !.state = "Authenticating"]
    BY <1>7, HelloBegins
  <2>2. ConnectionInv' /\ connection'.identity = connection.identity
    BY <2>1 DEF SessionInv, ConnectionInv, Looping, Shutting, PumpsJoined
  <2>3. WorkInv'
    BY <1>2, <2>1, <2>2 DEF SessionInv, WorkInv, Bound, actionVars
  <2>4. PumpInv'
    BY <2>1 DEF SessionInv, PumpInv, PumpsJoined
  <2>5. JoinInv'
    BY <1>4, <2>1 DEF Looping
  <2>6. QED
    BY <1>3, <2>2, <2>3, <2>4, <2>5 DEF SessionInv
<1>8. CASE HandleAuthenticate
  <2>1. /\ coordinator = "loop" /\ coordinator' \in {"complaining", "resolving"}
        /\ coordinator' = "resolving" => connection.state = "Authenticating"
        /\ UNCHANGED <<connection, actionQueue, pump, subscriptions, joining>>
    BY <1>8 DEF HandleAuthenticate, TakeMessage, TakeFrame, Complain, ControlElse,
                handshake, pumpVars
  <2>2. ConnectionInv'
    BY <2>1 DEF SessionInv, ConnectionInv, Looping, Shutting, PumpsJoined
  <2>3. WorkInv'
    BY <1>2, <2>1 DEF SessionInv, WorkInv, Bound, actionVars
  <2>4. PumpInv'
    BY <2>1 DEF SessionInv, PumpInv, PumpsJoined
  <2>5. JoinInv'
    BY <1>4, <2>1 DEF Looping
  <2>6. QED
    BY <1>3, <2>2, <2>3, <2>4, <2>5 DEF SessionInv
<1>9. CASE Resolve
  <2>1. /\ coordinator = "resolving" /\ coordinator' \in {"loop", "complaining"}
        /\ UNCHANGED <<actionQueue, pump, subscriptions, joining>>
        /\ \/ UNCHANGED connection
           \/ \E actor \in Actors : connection' = [state |-> "Ready", identity |-> actor]
    BY <1>9 DEF Resolve, Stay, Complain, ControlElse, pumpVars
  <2>2. connection.state = "Authenticating" /\ connection.identity = NoActor
    BY <2>1 DEF SessionInv, ConnectionInv
  <2>3. ConnectionInv'
    BY <2>1, <2>2 DEF SessionInv, ConnectionInv, Looping, Shutting, PumpsJoined
  <2>4. WorkInv'
    <3>1. actionWorker.at # "executing" /\ \A i \in 1..Len(actionQueue) : FALSE
      BY <2>2 DEF SessionInv, WorkInv, Bound
    <3>2. QED
      BY <1>2, <2>1, <3>1 DEF SessionInv, WorkInv, actionVars
  <2>5. PumpInv'
    BY <2>1 DEF SessionInv, PumpInv, PumpsJoined
  <2>6. JoinInv'
    BY <1>4, <2>1 DEF Looping
  <2>7. QED
    BY <1>3, <2>3, <2>4, <2>5, <2>6 DEF SessionInv
<1>10. CASE HandleAction
  <2>1. /\ coordinator = "loop" /\ coordinator' \in {"loop", "complaining"}
        /\ UNCHANGED <<connection, pump, subscriptions, joining>>
        /\ \/ UNCHANGED actionQueue
           \/ \E job \in Jobs : Bound(job) /\ actionQueue' = Append(actionQueue, job)
    BY <1>10, ActionIsBound DEF SessionInv
  <2>2. ConnectionInv'
    BY <2>1 DEF SessionInv, ConnectionInv, Looping, Shutting, PumpsJoined
  <2>3. WorkInv'
    <3>1. CASE UNCHANGED actionQueue
      BY <1>2, <2>1, <3>1 DEF SessionInv, WorkInv, Bound, actionVars
    <3>2. ASSUME NEW job \in Jobs, Bound(job), actionQueue' = Append(actionQueue, job)
          PROVE  WorkInv'
      <4>1. /\ actionQueue' \in Seq(Jobs) /\ Len(actionQueue) \in Nat
            /\ Len(actionQueue') = Len(actionQueue) + 1
            /\ \A i \in 1..Len(actionQueue) : actionQueue'[i] = actionQueue[i]
            /\ actionQueue'[Len(actionQueue) + 1] = job
        BY <3>2, AppendProperties, LenProperties DEF SessionInv, WorkInv
      <4>2. ASSUME NEW i \in 1..Len(actionQueue')
            PROVE  Bound(actionQueue'[i])
        <5>1. i \in 1..Len(actionQueue) \/ i = Len(actionQueue) + 1
          BY <4>1
        <5>2. QED
          BY <3>2, <4>1, <5>1 DEF SessionInv, WorkInv
      <4>3. QED
        BY <1>2, <2>1, <4>1, <4>2 DEF SessionInv, WorkInv, Bound, actionVars
    <3>3. QED
      BY <2>1, <3>1, <3>2
  <2>4. PumpInv'
    BY <2>1 DEF SessionInv, PumpInv, PumpsJoined
  <2>5. JoinInv'
    BY <1>4, <2>1 DEF Looping
  <2>6. QED
    BY <1>3, <2>2, <2>3, <2>4, <2>5 DEF SessionInv
<1>11. QED
  BY <1>5, <1>6, <1>7, <1>8, <1>9, <1>10, LoopCases

---------------------------------------------------------------------------
(* The invariant, for the close procedure.                                  *)

(* One stage after the other, each with what it waited for.                 *)
CloseMove ==
  \/ /\ coordinator = "final_error" /\ coordinator' = "send_close"
     /\ UNCHANGED <<connection, subscriptions>>
  \/ /\ coordinator = "send_close" /\ coordinator' \in {"await_writer", "join_pumps"}
     /\ connection' = [connection EXCEPT !.state = "Closed"]
     /\ UNCHANGED subscriptions
  \/ /\ coordinator = "await_writer" /\ coordinator' = "join_pumps"
     /\ UNCHANGED <<connection, subscriptions>>
  \/ /\ coordinator = "join_pumps" /\ coordinator' = "join_reader"
     /\ \A s \in subscriptions : pump[s] = "done"
     /\ subscriptions' = {} /\ UNCHANGED connection
  \/ /\ \/ /\ coordinator = "join_reader" /\ coordinator' = "join_actions"
           /\ reader.at = "done"
        \/ /\ coordinator = "join_actions" /\ coordinator' = "join_queries"
           /\ actionWorker.at = "done"
        \/ /\ coordinator = "join_queries" /\ coordinator' = "join_writer"
           /\ queryWorker.at = "done"
        \/ /\ coordinator = "join_writer" /\ coordinator' = "returned"
           /\ writer.at = "done"
     /\ UNCHANGED <<connection, subscriptions>>

(* The close procedure touches nothing of the other tasks.                  *)
LEMMA CloseMoves ==
  CloseStep => /\ CloseMove
               /\ UNCHANGED <<script, reader, inbound, writer, actionQueue, actionWorker,
                              executed, queryWorker, pump, joining>>
<1> USE DEF CloseElse, TaskVars, inputVars, writerVars, actionVars, queryVars, pumpVars,
            Advance, CloseMove
<1>1. FinalError => /\ CloseMove
                    /\ UNCHANGED <<script, reader, inbound, writer, actionQueue,
                                   actionWorker, executed, queryWorker, pump, joining>>
  BY DEF FinalError
<1>2. SendClose => /\ CloseMove
                   /\ UNCHANGED <<script, reader, inbound, writer, actionQueue,
                                  actionWorker, executed, queryWorker, pump, joining>>
  BY DEF SendClose
<1>3. AwaitWriter => /\ CloseMove
                     /\ UNCHANGED <<script, reader, inbound, writer, actionQueue,
                                    actionWorker, executed, queryWorker, pump, joining>>
  BY DEF AwaitWriter
<1>4. JoinPumps => /\ CloseMove
                   /\ UNCHANGED <<script, reader, inbound, writer, actionQueue,
                                  actionWorker, executed, queryWorker, pump, joining>>
  BY DEF JoinPumps
<1>5. JoinTasks => /\ CloseMove
                   /\ UNCHANGED <<script, reader, inbound, writer, actionQueue,
                                  actionWorker, executed, queryWorker, pump, joining>>
  BY DEF JoinTasks, JoinReader, JoinActions, JoinQueries, JoinWriter
<1>6. QED
  BY <1>1, <1>2, <1>3, <1>4, <1>5 DEF CloseStep

(* The close procedure keeps the invariant.                                 *)
LEMMA CloseKeeps == SessionInv /\ CloseStep => SessionInv'
<1> SUFFICES ASSUME SessionInv, CloseStep PROVE SessionInv'
  OBVIOUS
<1>1. /\ CloseMove
      /\ UNCHANGED <<script, reader, inbound, writer, actionQueue, actionWorker,
                     executed, queryWorker, pump, joining>>
  BY CloseMoves
<1>2. InputInv'
  BY <1>1 DEF SessionInv, InputInv
<1>3. ConnectionInv' /\ connection'.identity = connection.identity
  BY <1>1 DEF CloseMove, SessionInv, ConnectionInv, Looping, Shutting, PumpsJoined
<1>4. WorkInv'
  BY <1>1, <1>3 DEF SessionInv, WorkInv, Bound
<1>5. PumpInv'
  BY <1>1 DEF CloseMove, SessionInv, PumpInv, PumpsJoined
<1>6. JoinInv'
  BY <1>1 DEF CloseMove, SessionInv, JoinInv, PumpsJoined
<1>7. QED
  BY <1>2, <1>3, <1>4, <1>5, <1>6 DEF SessionInv

---------------------------------------------------------------------------
(* The invariant, for the other tasks.                                      *)

(* The end of the stream is read as a frame.                                *)
LEMMA EndIsFrame == Frame("Closed", NotJson) \in Frames
BY DEF Frames

(* The reader hands over frames of the script.                              *)
LEMMA ReaderKeeps == SessionInv /\ Reader => SessionInv'
<1> SUFFICES ASSUME SessionInv, Reader PROVE SessionInv'
  OBVIOUS
<1>1. UNCHANGED ReaderElse
  BY DEF Reader, ReadFrame, ReadError, ReaderSends, ReaderReports, ReaderStops
<1>2. UNCHANGED <<connection, coordinator, joining, subscriptions, writer, actionQueue,
                  actionWorker, executed, queryWorker, pump>>
  BY <1>1 DEF ReaderElse, loopVars, handshake, writerVars, actionVars, queryVars, pumpVars
<1>3. InputInv'
  <2>1. CASE ReadFrame
    <3>1. UNCHANGED inbound /\ Frame("Closed", NotJson) \in Frames
      BY <2>1, EndIsFrame DEF ReadFrame
    <3>2. CASE /\ script # <<>>
               /\ reader' = [at |-> "sending", frame |-> Head(script)]
               /\ script' = Tail(script)
      <4>1. Head(script) \in Frames /\ Tail(script) \in Seq(Frames)
        BY <3>2, HeadTailProperties DEF SessionInv, InputInv
      <4>2. QED
        BY <3>1, <3>2, <4>1 DEF SessionInv, InputInv
    <3>3. CASE /\ reader' = [at |-> "sending", frame |-> Frame("Closed", NotJson)]
               /\ script' = <<>>
      BY <3>1, <3>3 DEF SessionInv, InputInv
    <3>4. QED
      BY <2>1, <3>2, <3>3 DEF ReadFrame
  <2>2. CASE ReaderSends
    BY <2>2, AppendProperties DEF ReaderSends, SessionInv, InputInv
  <2>3. CASE ReadError \/ ReaderReports \/ ReaderStops
    BY <2>3 DEF ReadError, ReaderReports, ReaderStops, SessionInv, InputInv
  <2>4. QED
    BY <2>1, <2>2, <2>3 DEF Reader
<1>4. ConnectionInv' /\ WorkInv' /\ PumpInv'
  BY <1>2 DEF SessionInv, ConnectionInv, WorkInv, Bound, PumpInv
<1>5. reader.at # "done"
  BY DEF Reader, ReadFrame, ReadError, ReaderSends, ReaderReports, ReaderStops
<1>6. JoinInv'
  BY <1>2, <1>5 DEF SessionInv, JoinInv
<1>7. QED
  BY <1>3, <1>4, <1>6 DEF SessionInv

(* The writer.                                                              *)
LEMMA WriterKeeps == SessionInv /\ Writer => SessionInv'
<1> SUFFICES ASSUME SessionInv, Writer PROVE SessionInv'
  OBVIOUS
<1>1. UNCHANGED WriterElse
  BY DEF Writer, WriterTakes, WriterWrites, WriterFails, WriterReports,
     WriterCancels, WriterStops
<1>2. UNCHANGED <<script, reader, inbound, connection, coordinator, joining,
                  subscriptions, actionQueue, actionWorker, executed, queryWorker, pump>>
  BY <1>1 DEF WriterElse, inputVars, loopVars, handshake, actionVars, queryVars, pumpVars
<1>3. writer.at # "done"
  BY DEF Writer, WriterTakes, WriterWrites, WriterFails, WriterReports,
     WriterCancels, WriterStops
<1>4. DOMAIN writer' = {"at", "command"}
  BY DEF Writer, WriterTakes, WriterWrites, WriterFails, WriterReports,
     WriterCancels, WriterStops,
         SessionInv, JoinInv
<1>5. InputInv' /\ ConnectionInv' /\ WorkInv' /\ PumpInv'
  BY <1>2 DEF SessionInv, InputInv, ConnectionInv, WorkInv, Bound, PumpInv
<1>6. JoinInv'
  BY <1>2, <1>3, <1>4 DEF SessionInv, JoinInv
<1>7. QED
  BY <1>5, <1>6 DEF SessionInv

(* The action worker executes what is queued.                               *)
LEMMA ActionWorkerKeeps == SessionInv /\ ActionWorker => SessionInv'
<1> SUFFICES ASSUME SessionInv, ActionWorker PROVE SessionInv'
  OBVIOUS
<1>1. UNCHANGED ActionElse
  BY DEF ActionWorker, TakeAction, ExecuteAction, ReportAction, StopActions
<1>2. UNCHANGED <<script, reader, inbound, connection, coordinator, joining,
                  subscriptions, writer, queryWorker, pump>>
  BY <1>1 DEF ActionElse, inputVars, loopVars, handshake, writerVars, queryVars, pumpVars
<1>3. actionWorker.at # "done"
  BY DEF ActionWorker, TakeAction, ExecuteAction, ReportAction, StopActions
<1>4. InputInv' /\ ConnectionInv' /\ PumpInv'
  BY <1>2 DEF SessionInv, InputInv, ConnectionInv, PumpInv
<1>5. WorkInv'
  <2>1. CASE TakeAction
    <3>1. /\ actionQueue # <<>> /\ actionQueue' = Tail(actionQueue)
          /\ actionWorker' = [actionWorker EXCEPT !.at = "executing",
                                                  !.job = Head(actionQueue)]
          /\ UNCHANGED executed
      BY <2>1 DEF TakeAction
    <3> DEFINE n == Len(actionQueue)
    <3>2. /\ n \in Nat /\ n # 0
          /\ Head(actionQueue) \in Jobs /\ Head(actionQueue) = actionQueue[1]
          /\ actionQueue' \in Seq(Jobs) /\ Len(actionQueue') = n - 1
          /\ \A i \in 1..(n - 1) : actionQueue'[i] = actionQueue[i + 1]
      BY <3>1, HeadTailProperties, LenProperties, EmptySeq DEF SessionInv, WorkInv
    <3>3. \A i \in 1..n : Bound(actionQueue[i])
      BY DEF SessionInv, WorkInv
    <3> HIDE DEF n
    <3>4. 1 \in 1..n /\ \A i \in 1..(n - 1) : i + 1 \in 1..n
      BY <3>2
    <3>5. Bound(Head(actionQueue)) /\ \A i \in 1..Len(actionQueue') : Bound(actionQueue'[i])
      BY <3>2, <3>3, <3>4
    <3>6. QED
      BY <1>2, <3>1, <3>2, <3>5 DEF SessionInv, WorkInv, Bound
  <2>2. CASE ExecuteAction
    <3>1. /\ actionWorker.at = "executing" /\ UNCHANGED actionQueue
          /\ executed' = Append(executed, actionWorker.job)
          /\ actionWorker'.at = "reporting"
          /\ DOMAIN actionWorker' = {"at", "job", "result"}
      BY <2>2 DEF ExecuteAction, SessionInv, WorkInv
    <3>2. executed' \in Seq(Jobs)
      BY <3>1, AppendProperties DEF SessionInv, WorkInv
    <3>3. QED
      BY <1>2, <3>1, <3>2 DEF SessionInv, WorkInv, Bound
  <2>3. CASE ReportAction
    BY <1>2, <2>3 DEF ReportAction, SessionInv, WorkInv, Bound
  <2>4. CASE StopActions
    BY <1>2, <2>4 DEF StopActions, SessionInv, WorkInv, Bound
  <2>5. QED
    BY <2>1, <2>2, <2>3, <2>4 DEF ActionWorker
<1>6. JoinInv'
  BY <1>2, <1>3 DEF SessionInv, JoinInv
<1>7. QED
  BY <1>4, <1>5, <1>6 DEF SessionInv

(* The query worker.                                                        *)
LEMMA QueryWorkerKeeps == SessionInv /\ QueryWorker => SessionInv'
<1> SUFFICES ASSUME SessionInv, QueryWorker PROVE SessionInv'
  OBVIOUS
<1>1. UNCHANGED QueryElse
  BY DEF QueryWorker, TakeQuery, ExecuteQuery, ReportQuery, StopQueries
<1>2. UNCHANGED <<script, reader, inbound, connection, coordinator, joining,
                  subscriptions, writer, actionQueue, actionWorker, executed, pump>>
  BY <1>1 DEF QueryElse, inputVars, loopVars, handshake, writerVars, actionVars, pumpVars
<1>3. queryWorker.at # "done"
  BY DEF QueryWorker, TakeQuery, ExecuteQuery, ReportQuery, StopQueries
<1>4. DOMAIN queryWorker' = {"at", "request", "result"}
  BY DEF QueryWorker, TakeQuery, ExecuteQuery, ReportQuery, StopQueries,
         SessionInv, JoinInv
<1>5. InputInv' /\ ConnectionInv' /\ WorkInv' /\ PumpInv'
  BY <1>2 DEF SessionInv, InputInv, ConnectionInv, WorkInv, Bound, PumpInv
<1>6. JoinInv'
  BY <1>2, <1>3, <1>4 DEF SessionInv, JoinInv
<1>7. QED
  BY <1>5, <1>6 DEF SessionInv

(* The pumps.                                                               *)
LEMMA PumpKeeps ==
  ASSUME SessionInv, NEW s \in Subscriptions, Pump(s)
  PROVE  SessionInv'
<1>1. UNCHANGED PumpElse
  BY DEF Pump, PumpEvent, PumpSourceEnds, PumpSourceFails, PumpReports, PumpStops
<1>2. UNCHANGED <<script, reader, inbound, connection, coordinator, joining,
                  subscriptions, writer, actionQueue, actionWorker, executed, queryWorker>>
  BY <1>1 DEF PumpElse, inputVars, loopVars, handshake, writerVars, actionVars, queryVars
<1>3. pump[s] \notin {"none", "done"}
  BY DEF Pump, PumpEvent, PumpSourceEnds, PumpSourceFails, PumpReports, PumpStops
<1>4. UNCHANGED pump \/ \E at : pump' = [pump EXCEPT ![s] = at]
  BY DEF Pump, PumpEvent, PumpSourceEnds, PumpSourceFails, PumpReports, PumpStops, Goto
<1>5. InputInv' /\ ConnectionInv' /\ WorkInv'
  BY <1>2 DEF SessionInv, InputInv, ConnectionInv, WorkInv, Bound
<1>6. PumpInv'
  BY <1>2, <1>3, <1>4 DEF SessionInv, PumpInv
<1>7. JoinInv'
  BY <1>2 DEF SessionInv, JoinInv
<1>8. QED
  BY <1>5, <1>6, <1>7 DEF SessionInv

---------------------------------------------------------------------------
(* The invariant holds.                                                     *)

(* Of every step.                                                           *)
LEMMA NextCases ==
  [Next]_vars => \/ Reader \/ Writer \/ ActionWorker \/ QueryWorker
                 \/ LoopAction \/ CloseStep \/ UNCHANGED vars
                 \/ \E s \in Subscriptions : Pump(s)
BY DEF Next, Coordinator, LoopAction, Terminated

(* In the beginning.                                                        *)
LEMMA SessionInit == Init => SessionInv
<1> SUFFICES ASSUME Init PROVE SessionInv
  OBVIOUS
<1>1. script \in Seq(Frames)
  <2> DEFINE T == {script[i] : i \in DOMAIN script}
             n == Len(script)
  <2>1. script \in Scripts /\ script \in Seq(T)
    BY SessionAssumption DEF Init
  <2>2. T \subseteq Frames
    BY <2>1 DEF Frames
  <2> HIDE DEF T
  <2>3. n \in Nat /\ script \in [1..n -> T]
    BY <2>1, LenProperties
  <2>4. script \in [1..n -> Frames]
    BY <2>2, <2>3
  <2> HIDE DEF n
  <2>5. QED
    BY <2>3, <2>4, IsASeq
<1>2. InputInv
  BY <1>1, EndIsFrame DEF Init, InputInv
<1>3. ConnectionInv
  BY DEF Init, ConnectionInv, Looping, Shutting, PumpsJoined
<1>4. WorkInv
  BY DEF Init, WorkInv
<1>5. PumpInv
  BY DEF Init, PumpInv, PumpsJoined
<1>6. JoinInv
  BY DEF Init, JoinInv, PumpsJoined
<1>7. QED
  BY <1>2, <1>3, <1>4, <1>5, <1>6 DEF SessionInv

(* In every step.                                                           *)
LEMMA SessionStep == SessionInv /\ [Next]_vars => SessionInv'
<1>1. ASSUME SessionInv, UNCHANGED vars PROVE SessionInv'
  <2>1. UNCHANGED <<script, reader, inbound, connection, coordinator, joining,
                    subscriptions, writer, actionQueue, actionWorker, executed,
                    queryWorker, pump>>
    BY <1>1 DEF vars, inputVars, loopVars, handshake, writerVars, actionVars, queryVars,
                pumpVars
  <2>2. QED
    BY <1>1, <2>1 DEF SessionInv, InputInv, ConnectionInv, WorkInv, Bound, PumpInv, JoinInv
<1>2. QED
  BY <1>1, NextCases, ReaderKeeps, WriterKeeps, ActionWorkerKeeps, QueryWorkerKeeps,
     LoopKeeps, CloseKeeps, PumpKeeps

(* And always.                                                              *)
LEMMA SessionAlways == Spec => []SessionInv
BY SessionInit, SessionStep, PTL DEF Spec

---------------------------------------------------------------------------
(* Theorems.                                                                *)

(* When run returns, no task of the session is left behind: not the reader, *)
(* the writer or a worker, and no pump, also not one whose handle was given *)
(* up while the session was closing.                                        *)
THEOREM NoTaskIsLeftBehind == Spec => []NoTaskOutlivesSession
<1>1. SessionInv => NoTaskOutlivesSession
  BY DEF SessionInv, PumpInv, JoinInv, PumpsJoined, NoTaskOutlivesSession
<1>2. QED
  BY <1>1, SessionAlways, PTL

(* The session implements the connection it promises, whatever its client   *)
(* sends and its ports answer.                                              *)
THEOREM SessionImplementsConnection == Spec => ImplementsConnection
<1> DEFINE View == <<connection.state, connection.identity, executed>>
<1>1. Init => Promised!New
  BY DEF Init, Promised!New
<1>2. ASSUME SessionInv, [Next]_vars
      PROVE  [Promised!Lifecycle]_View
  <2> USE DEF Promised!Lifecycle, Promised!CanTransitionTo
  <2>1. CASE Reader \/ Writer \/ QueryWorker \/ UNCHANGED vars \/ PlainAction
             \/ PumpAction \/ HandleAuthenticate \/ HandleAction
             \/ \E s \in Subscriptions : Pump(s)
    <3>1. Reader => UNCHANGED <<connection, executed>>
      BY DEF Reader, ReadFrame, ReadError, ReaderSends, ReaderReports, ReaderStops,
             ReaderElse, loopVars, handshake, actionVars
    <3>2. Writer => UNCHANGED <<connection, executed>>
      BY DEF Writer, WriterTakes, WriterWrites, WriterFails, WriterReports,
         WriterCancels, WriterStops,
             WriterElse, loopVars, handshake, actionVars
    <3>3. QueryWorker => UNCHANGED <<connection, executed>>
      BY DEF QueryWorker, TakeQuery, ExecuteQuery, ReportQuery, StopQueries,
             QueryElse, loopVars, handshake, actionVars
    <3>4. \A s : Pump(s) => UNCHANGED <<connection, executed>>
      BY DEF Pump, PumpEvent, PumpSourceEnds, PumpSourceFails, PumpReports, PumpStops,
             PumpElse, loopVars, handshake, actionVars
    <3>5. LoopAction => UNCHANGED executed
      BY LoopActionFrame DEF LoopFrame, TaskVars, actionVars
    <3>6. PlainAction \/ PumpAction => UNCHANGED connection
      BY PlainActionIsPlain, PumpActionMoves DEF Plain
    <3>7. HandleAuthenticate \/ HandleAction => UNCHANGED connection
      BY DEF HandleAuthenticate, HandleAction, handshake
    <3>8. PlainAction \/ PumpAction \/ HandleAuthenticate \/ HandleAction => LoopAction
      BY DEF PlainAction, PumpAction, LoopAction
    <3>9. UNCHANGED vars => UNCHANGED <<connection, executed>>
      BY DEF vars, loopVars, handshake, actionVars
    <3>10. UNCHANGED <<connection, executed>>
      BY <2>1, <3>1, <3>2, <3>3, <3>4, <3>5, <3>6, <3>7, <3>8, <3>9
    <3>11. QED
      BY <3>10
  <2>2. CASE HandleHello
    <3>1. \/ UNCHANGED connection
          \/ /\ connection.state = "Negotiating"
             /\ connection' = [connection EXCEPT !.state = "Authenticating"]
      BY <2>2, HelloBegins
    <3>2. UNCHANGED executed
      BY <2>2, LoopActionFrame DEF LoopAction, LoopFrame, TaskVars, actionVars
    <3>3. QED
      BY <1>2, <3>1, <3>2 DEF Promised!BeginAuthentication, SessionInv, ConnectionInv
  <2>3. CASE Resolve
    <3>1. \/ UNCHANGED connection
          \/ \E actor \in Actors : connection' = [state |-> "Ready", identity |-> actor]
      BY <2>3 DEF Resolve
    <3>2. UNCHANGED executed
      BY <2>3, LoopActionFrame DEF LoopAction, LoopFrame, TaskVars, actionVars
    <3>3. connection.state = "Authenticating"
      BY <1>2, <2>3 DEF Resolve, SessionInv, ConnectionInv
    <3>4. QED
      BY <3>1, <3>2, <3>3, SessionAssumption DEF Promised!BecomeReady
  <2>4. CASE CloseStep
    <3>1. CloseMove /\ UNCHANGED executed
      BY <2>4, CloseMoves
    <3>2. UNCHANGED connection \/ /\ coordinator = "send_close"
                                  /\ connection' = [connection EXCEPT !.state = "Closed"]
      BY <3>1 DEF CloseMove
    <3>3. QED
      BY <1>2, <3>1, <3>2
      DEF Promised!Shut, SessionInv, ConnectionInv, Shutting, PumpsJoined
  <2>5. CASE ActionWorker
    <3>1. UNCHANGED connection
      BY <2>5 DEF ActionWorker, TakeAction, ExecuteAction, ReportAction, StopActions,
                  ActionElse, loopVars, handshake
    <3>2. \/ UNCHANGED executed
          \/ /\ actionWorker.at = "executing"
             /\ executed' = Append(executed, actionWorker.job)
      BY <2>5 DEF ActionWorker, TakeAction, ExecuteAction, ReportAction, StopActions
    <3>3. CASE UNCHANGED executed
      BY <3>1, <3>3
    <3>4. CASE /\ actionWorker.at = "executing"
               /\ executed' = Append(executed, actionWorker.job)
      <4> DEFINE n == Len(executed)
                 job == actionWorker.job
      <4>1. executed \in Seq(Jobs) /\ job \in Jobs /\ Bound(job)
        BY <1>2, <3>4 DEF SessionInv, WorkInv
      <4>2. /\ n \in Nat /\ Len(executed') = n + 1 /\ executed'[n + 1] = job
            /\ SubSeq(executed', 1, n) = executed
        <5> DEFINE e == executed
        <5>1. e \in Seq(Jobs) /\ executed' = Append(e, job)
          BY <3>4, <4>1
        <5> HIDE DEF e, job
        <5>2. /\ Append(e, job) \in Seq(Jobs) /\ Len(Append(e, job)) = Len(e) + 1
              /\ Append(e, job)[Len(e) + 1] = job
              /\ Len(e) \in Nat
          BY <4>1, <5>1, AppendProperties, LenProperties
        <5>3. SubSeq(Append(e, job), 1, Len(e)) = e
          BY <4>1, <5>1
        <5>4. QED
          BY <5>1, <5>2, <5>3 DEF e
      <4>3. Promised!Serve
        BY <3>1, <4>1, <4>2 DEF Promised!Serve, Bound
      <4>4. QED
        BY <4>3
    <3>5. QED
      BY <3>2, <3>3, <3>4
  <2>6. QED
    BY <1>2, <2>1, <2>2, <2>3, <2>4, <2>5, NextCases, LoopCases
<1>3. QED
  BY <1>1, <1>2, SessionAlways, PTL
  DEF Spec, ImplementsConnection, Promised!ConnectionSpec
=============================================================================
