--------------------------- MODULE WebSocketSession ---------------------------
(***************************************************************************)
(* One WebSocket session of crates/orbitrelay-transport: the coordinator,  *)
(* the reader, the writer, the action worker, the query worker and one     *)
(* event pump per subscription, each a task of its own, joined by bounded  *)
(* channels and stopped by a cancellation token.  try_send answers at      *)
(* once; send waits for room and, as in the code, does not look at the     *)
(* token while it waits.  The socket, the identity resolver, the           *)
(* subscription authorizer, the executors and the event sources are ports: *)
(* they answer or fail as they like.                                       *)
(***************************************************************************)
EXTENDS WireProtocol, FiniteSets

CONSTANTS
  Scripts,           (* sequences of frames a client may send              *)
  Subscriptions,     (* TransportSubscriptionIds of the event sources      *)
  Actors,            (* whom the identity resolver may bind                *)
  Failures,          (* the errors the ports may return                    *)
  Policy,            (* the version policy                                 *)
  InboundCapacity,   (* of the reader's and of the coordinator's channel   *)
  OutboundCapacity,
  ActionCapacity,
  QueryCapacity,
  MaxInFlight,       (* max_in_flight_queries                              *)
  QueryService,      (* whether the session has a query executor           *)
  MaxEvents          (* bound on the events of one source                  *)

ReaderEvents == {"Text", "NativePing", "NativePong", "Closed", "Binary", "Oversized"}

Config ==
  [outbound_capacity |-> OutboundCapacity, inbound_capacity |-> InboundCapacity,
   action_queue_capacity |-> ActionCapacity, query_queue_capacity |-> QueryCapacity,
   max_in_flight_queries |-> MaxInFlight]

(* The session starts with a valid configuration.                           *)
ASSUME SessionAssumption ==
  /\ NoSubscription \notin Subscriptions
  /\ NoActor \notin Actors
  /\ Failures \subseteq TransportErrors
  /\ \A s \in Scripts : /\ s \in Seq({s[i] : i \in DOMAIN s})
                         /\ \A i \in DOMAIN s : s[i].event \in ReaderEvents
  /\ \A limit \in DOMAIN Config : Config[limit] \in Nat
  /\ ValidConfig(Config)
  /\ QueryService \in BOOLEAN
  /\ MaxEvents \in Nat

VARIABLES
  script,         (* the frames the client has yet to send                 *)
  reader,         (* [at, frame]: where the reader is, the frame it holds  *)
  inbound,        (* the reader's channel                                  *)
  connection,     (* [state, identity]                                     *)
  version,        (* negotiated_version                                    *)
  codec,          (* active_codec: bootstrap or session                    *)
  coordinator,    (* the await the coordinator is in                       *)
  complaint,      (* the error handle_inbound returned                     *)
  joining,        (* the pump the coordinator waits for, why and for whom  *)
  fatal,          (* fatal_error                                           *)
  told,           (* fatal_error_queued                                    *)
  subscriptions,  (* the map of subscription handles                       *)
  stopped,        (* subscriptions whose own token is cancelled            *)
  cancelled,      (* the token of the connection                           *)
  events,         (* the coordinator's event channel                       *)
  outbound,       (* the writer's channel                                  *)
  writer,         (* [at, command]                                         *)
  sent,           (* application messages written to the socket            *)
  actionQueue,
  actionWorker,   (* [at, job, result]                                     *)
  executed,       (* the jobs executed: [request, actor]                   *)
  queryQueue,
  queryWorker,    (* [at, request, result]                                 *)
  inFlight,       (* the requests whose query is executing                 *)
  pump,           (* where the pump of each subscription is                *)
  produced,       (* events each source has yielded                        *)
  cause           (* how the coordinator's loop ended                      *)

inputVars == <<script, reader>>
handshake == <<connection, version, codec>>
loopVars == <<handshake, complaint, joining, subscriptions, stopped>>
endVars == <<fatal, told, cause>>
writerVars == <<writer, sent>>
actionVars == <<actionWorker, executed>>
queryVars == <<queryWorker, inFlight>>
pumpVars == <<pump, produced>>
vars == <<inputVars, inbound, loopVars, coordinator, endVars, cancelled, events,
          outbound, writerVars, actionQueue, actionVars, queryQueue, queryVars,
          pumpVars>>

---------------------------------------------------------------------------
(* Messages.                                                                *)

Frame(event, text) == [event |-> event, text |-> text]

(* A command for the writer that is not an application message.             *)
Command(type) == Outbound(type, 0, NoSubscription, <<>>)

Job(request, actor) == [request |-> request, actor |-> actor]

(* WebSocketAdapterError, and what the client is told of it.                *)
Failure(adapter, error) == [adapter |-> adapter, error |-> error]
NoFailure == Failure("none", NoError)
Transport(error) == Failure("Transport", error)
ClientError(failure) ==
  IF failure.adapter = "Transport" THEN failure.error ELSE Internal

Event(type, request, subscription, result) ==
  [type |-> type, request |-> request, subscription |-> subscription,
   result |-> result]

Native == {"NativePing", "NativePong", "Close"}

NoJoin == [subscription |-> NoSubscription, reason |-> "none", request |-> 0]

CloseStages == <<"final_error", "send_close", "await_writer", "join_pumps",
                 "join_reader", "join_actions", "join_queries", "join_writer",
                 "returned">>

Closing == {CloseStages[i] : i \in DOMAIN CloseStages}

Init ==
  /\ script \in Scripts
  /\ reader = [at |-> "reading", frame |-> Frame("Closed", NotJson)]
  /\ inbound = <<>>
  /\ connection = [state |-> "Negotiating", identity |-> NoActor]
  /\ version = NoVersion
  /\ codec = "bootstrap"
  /\ coordinator = "loop"
  /\ complaint = NoError
  /\ joining = NoJoin
  /\ fatal = NoFailure
  /\ told = FALSE
  /\ subscriptions = {}
  /\ stopped = {}
  /\ cancelled = FALSE
  /\ events = <<>>
  /\ outbound = <<>>
  /\ writer = [at |-> "waiting", command |-> Command("Close")]
  /\ sent = <<>>
  /\ actionQueue = <<>>
  /\ actionWorker = [at |-> "waiting", job |-> Job(0, NoActor), result |-> NoError]
  /\ executed = <<>>
  /\ queryQueue = <<>>
  /\ queryWorker = [at |-> IF QueryService THEN "running" ELSE "done",
                    request |-> 0, result |-> "fits"]
  /\ inFlight = {}
  /\ pump = [s \in Subscriptions |-> "none"]
  /\ produced = [s \in Subscriptions |-> 0]
  /\ cause = "none"

---------------------------------------------------------------------------
(* try_send to the writer succeeds while its channel is open and has room.  *)

Room == writer.at # "done" /\ Len(outbound) < OutboundCapacity

QueueWith(message, c) ==
  Room /\ outbound' = Append(outbound, [message EXCEPT !.codec = c])

(* With the active codec.                                                   *)
Queue(message) == QueueWith(message, codec)

EventRoom == Len(events) < InboundCapacity

Post(event) == EventRoom /\ events' = Append(events, event)

---------------------------------------------------------------------------
(* The reader.                                                              *)

ReaderElse == <<loopVars, coordinator, endVars, cancelled, outbound, writerVars,
                actionQueue, actionVars, queryQueue, queryVars, pumpVars>>

(* A frame arrives; the peer may close, or the stream end, at any time.     *)
ReadFrame ==
  /\ reader.at = "reading"
  /\ \/ /\ script # <<>>
        /\ reader' = [at |-> "sending", frame |-> Head(script)]
        /\ script' = Tail(script)
     \/ /\ reader' = [at |-> "sending",
                      frame |-> Frame("Closed", NotJson)]
        /\ script' = <<>>
  /\ UNCHANGED <<inbound, events, ReaderElse>>

ReadError ==
  /\ reader.at = "reading"
  /\ reader' = [reader EXCEPT !.at = "failing"]
  /\ UNCHANGED <<script, inbound, events, ReaderElse>>

ReaderSends ==
  /\ reader.at = "sending"
  /\ Len(inbound) < InboundCapacity
  /\ inbound' = Append(inbound, reader.frame)
  /\ reader' = [reader EXCEPT
                  !.at = IF reader.frame.event \in {"Binary", "Oversized", "Closed"}
                         THEN "done" ELSE "reading"]
  /\ UNCHANGED <<script, events, ReaderElse>>

(* run_reader has returned its error, and dropped its channel with it,      *)
(* before the task tells the coordinator.                                   *)
ReaderReports ==
  /\ reader.at = "failing"
  /\ Post(Event("ReaderFailed", 0, NoSubscription, "Err"))
  /\ reader' = [reader EXCEPT !.at = "done"]
  /\ UNCHANGED <<script, inbound, ReaderElse>>

ReaderStops ==
  /\ reader.at = "reading"
  /\ cancelled
  /\ reader' = [reader EXCEPT !.at = "done"]
  /\ UNCHANGED <<script, inbound, events, ReaderElse>>

Reader == ReadFrame \/ ReadError \/ ReaderSends \/ ReaderReports \/ ReaderStops

---------------------------------------------------------------------------
(* The writer.  Its channel closes when the task ends.                      *)

WriterElse == <<inputVars, inbound, loopVars, coordinator, endVars, actionQueue,
                actionVars, queryQueue, queryVars, pumpVars>>

WriterTakes ==
  /\ writer.at = "waiting"
  /\ ~cancelled
  /\ outbound # <<>>
  /\ writer' = [at |-> "writing", command |-> Head(outbound)]
  /\ outbound' = Tail(outbound)
  /\ UNCHANGED <<sent, cancelled, events, WriterElse>>

(* The frame is written, perhaps while the token is being cancelled; after a *)
(* close frame the sink is closed as well.                                  *)
WriterWrites ==
  /\ writer.at = "writing"
  /\ LET closes == writer.command.type = "Close"
     IN  /\ writer' = [writer EXCEPT !.at = IF closes THEN "done" ELSE "waiting"]
         /\ outbound' = IF closes THEN <<>> ELSE outbound
  /\ sent' = IF writer.command.type \in Native THEN sent
                                               ELSE Append(sent, writer.command)
  /\ UNCHANGED <<cancelled, events, WriterElse>>

(* Encoding or writing fails, or takes longer than the write timeout.       *)
WriterFails ==
  /\ writer.at = "writing"
  /\ writer' = [writer EXCEPT !.at = "failing"]
  /\ UNCHANGED <<outbound, sent, cancelled, events, WriterElse>>

(* The failure is told before the connection is cancelled: the coordinator  *)
(* may take it in between.                                                  *)
WriterReports ==
  /\ writer.at = "failing"
  /\ Post(Event("WriterFailed", 0, NoSubscription, "Err"))
  /\ writer' = [writer EXCEPT !.at = "cancelling"]
  /\ UNCHANGED <<outbound, sent, cancelled, WriterElse>>

WriterCancels ==
  /\ writer.at = "cancelling"
  /\ cancelled' = TRUE
  /\ writer' = [writer EXCEPT !.at = "done"]
  /\ outbound' = <<>>
  /\ UNCHANGED <<sent, events, WriterElse>>

WriterStops ==
  /\ writer.at \in {"waiting", "writing"}
  /\ cancelled
  /\ writer' = [writer EXCEPT !.at = "done"]
  /\ outbound' = <<>>
  /\ UNCHANGED <<sent, cancelled, events, WriterElse>>

Writer ==
  \/ WriterTakes \/ WriterWrites \/ WriterFails \/ WriterReports \/ WriterCancels
  \/ WriterStops

---------------------------------------------------------------------------
(* The action worker executes one action at a time.                         *)

ActionElse == <<inputVars, inbound, loopVars, coordinator, endVars, cancelled,
                outbound, writerVars, queryQueue, queryVars, pumpVars>>

TakeAction ==
  /\ actionWorker.at = "waiting"
  /\ actionQueue # <<>>
  /\ actionWorker' = [actionWorker EXCEPT !.at = "executing",
                                          !.job = Head(actionQueue)]
  /\ actionQueue' = Tail(actionQueue)
  /\ UNCHANGED <<executed, events, ActionElse>>

ExecuteAction ==
  /\ actionWorker.at = "executing"
  /\ \E result \in {NoError} \cup (Failures \cap ExecutionErrors) :
       actionWorker' = [actionWorker EXCEPT !.at = "reporting", !.result = result]
  /\ executed' = Append(executed, actionWorker.job)
  /\ UNCHANGED <<actionQueue, events, ActionElse>>

ReportAction ==
  /\ actionWorker.at = "reporting"
  /\ Post(Event("ActionCompleted", actionWorker.job.request, NoSubscription,
                actionWorker.result))
  /\ actionWorker' = [actionWorker EXCEPT !.at = "waiting"]
  /\ UNCHANGED <<actionQueue, executed, ActionElse>>

(* An action that is executing is dropped.                                  *)
StopActions ==
  /\ actionWorker.at \in {"waiting", "executing"}
  /\ cancelled
  /\ actionWorker' = [actionWorker EXCEPT !.at = "done"]
  /\ actionQueue' = <<>>
  /\ UNCHANGED <<executed, events, ActionElse>>

ActionWorker == TakeAction \/ ExecuteAction \/ ReportAction \/ StopActions

---------------------------------------------------------------------------
(* The query worker executes up to MaxInFlight queries at once.             *)

QueryElse == <<inputVars, inbound, loopVars, coordinator, endVars, cancelled,
               outbound, writerVars, actionQueue, actionVars, pumpVars>>

TakeQuery ==
  /\ queryWorker.at = "running"
  /\ ~cancelled
  /\ queryQueue # <<>>
  /\ Cardinality(inFlight) < MaxInFlight
  /\ inFlight' = inFlight \cup {Head(queryQueue)}
  /\ queryQueue' = Tail(queryQueue)
  /\ UNCHANGED <<queryWorker, events, QueryElse>>

(* Mutated form: an answered query stays among those in flight.             *)
ExecuteQueryAgain ==
  /\ queryWorker.at = "running"
  /\ ~cancelled
  /\ \E q \in inFlight, result \in {"fits", "oversized", "unencodable"} :
       queryWorker' = [at |-> "reporting", request |-> q, result |-> result]
  /\ UNCHANGED <<inFlight, queryQueue, events, QueryElse>>

(* A query is answered: the response fits into a frame, is too long for it  *)
(* or cannot be encoded.                                                    *)
ExecuteQuery ==
  /\ queryWorker.at = "running"
  /\ ~cancelled
  /\ \E q \in inFlight, result \in {"fits", "oversized", "unencodable"} :
       /\ queryWorker' = [at |-> "reporting", request |-> q, result |-> result]
       /\ inFlight' = inFlight \ {q}
  /\ UNCHANGED <<queryQueue, events, QueryElse>>

ReportQuery ==
  /\ queryWorker.at = "reporting"
  /\ Post(Event("QueryCompleted", queryWorker.request, NoSubscription,
                queryWorker.result))
  /\ queryWorker' = [queryWorker EXCEPT !.at = "running"]
  /\ UNCHANGED <<queryQueue, inFlight, QueryElse>>

StopQueries ==
  /\ queryWorker.at = "running"
  /\ cancelled
  /\ queryWorker' = [queryWorker EXCEPT !.at = "done"]
  /\ queryQueue' = <<>>
  /\ inFlight' = {}
  /\ UNCHANGED <<events, QueryElse>>

QueryWorker == TakeQuery \/ ExecuteQuery \/ ReportQuery \/ StopQueries

---------------------------------------------------------------------------
(* The event pump of one subscription.                                      *)

PumpElse == <<inputVars, inbound, loopVars, coordinator, endVars, cancelled,
              writerVars, actionQueue, actionVars, queryQueue, queryVars>>

Goto(s, at) == pump' = [pump EXCEPT ![s] = at]

PumpEvent(s) ==
  /\ pump[s] = "running"
  /\ produced[s] < MaxEvents
  /\ produced' = [produced EXCEPT ![s] = @ + 1]
  /\ \/ Queue(EventMessage(s, version)) /\ UNCHANGED pump
     \/ ~Room /\ Goto(s, "slow") /\ UNCHANGED outbound
  /\ UNCHANGED <<events, PumpElse>>

PumpSourceEnds(s) ==
  /\ pump[s] = "running"
  /\ Goto(s, "finishing")
  /\ UNCHANGED <<produced, outbound, events, PumpElse>>

Lagged == Error("EventSource", "SubscriptionLagged")

PumpSourceFails(s) ==
  /\ pump[s] = "running"
  /\ \E e \in Failures \cap EventSourceErrors :
       \/ /\ Queue(ErrorMessage(0, e))
          /\ Goto(s, IF e = Lagged THEN "lagged_told" ELSE "failing")
       \/ /\ ~Room
          /\ Goto(s, IF e = Lagged THEN "lagged" ELSE "failing")
          /\ UNCHANGED outbound
  /\ UNCHANGED <<produced, events, PumpElse>>

(* The pump tells the coordinator, waiting for room, and ends.              *)
PumpReport(s) ==
  CASE pump[s] = "slow"        -> Event("SlowConsumer", 0, s, "Err")
    [] pump[s] = "finishing"   -> Event("SubscriptionFinished", 0, s, "Ok")
    [] pump[s] = "failing"     -> Event("EventSourceFailed", 0, s, "Err")
    [] pump[s] = "lagged"      -> Event("EventSourceFailed", 0, s, "Lag")
    [] pump[s] = "lagged_told" -> Event("EventSourceFailed", 0, s, "LagTold")

PumpReports(s) ==
  /\ pump[s] \in {"slow", "finishing", "failing", "lagged", "lagged_told"}
  /\ Post(PumpReport(s))
  /\ Goto(s, "done")
  /\ UNCHANGED <<produced, outbound, PumpElse>>

PumpStops(s) ==
  /\ pump[s] = "running"
  /\ cancelled \/ s \in stopped
  /\ Goto(s, "done")
  /\ UNCHANGED <<produced, outbound, events, PumpElse>>

Pump(s) ==
  \/ PumpEvent(s) \/ PumpSourceEnds(s) \/ PumpSourceFails(s)
  \/ PumpReports(s) \/ PumpStops(s)

---------------------------------------------------------------------------
(* The coordinator: what its branches have in common.                       *)

TaskVars == <<inputVars, writerVars, actionVars, queryVars>>

Stay == coordinator' = "loop" /\ UNCHANGED <<complaint, endVars>>

(* handle_inbound returns an error; the loop deals with it next.            *)
Complain(error) ==
  /\ coordinator' = "complaining"
  /\ complaint' = error
  /\ UNCHANGED <<outbound, endVars>>

Reply(message) ==
  \/ Queue(message) /\ Stay
  \/ ~Room /\ Complain(SlowConsumer)

(* The loop ends.                                                           *)
Leave(failure, queued, why) ==
  /\ coordinator' = "final_error"
  /\ fatal' = failure
  /\ told' = queued
  /\ cause' = why
  /\ UNCHANGED complaint

(* The loop ends when the writer's channel does not take the message.       *)
Deliver(message) ==
  \/ Queue(message) /\ Stay
  \/ ~Room /\ UNCHANGED outbound /\ Leave(Transport(SlowConsumer), FALSE, "slow")

(* The loop ends with an error that the client is told if there is room.    *)
LeaveTelling(error, failure, why) ==
  \/ Queue(ErrorMessage(0, error)) /\ Leave(failure, TRUE, why)
  \/ ~Room /\ UNCHANGED outbound /\ Leave(failure, FALSE, why)

(* What the active codec makes of the text at the head of the channel.      *)
Decoded == DecodeInbound(Head(inbound).text)
Payload == Decoded.payload

TakeFrame(kinds) ==
  /\ coordinator = "loop"
  /\ inbound # <<>>
  /\ Head(inbound).event \in kinds
  /\ inbound' = Tail(inbound)
  /\ UNCHANGED <<TaskVars, cancelled, events>>

TakeMessage(kind) == TakeFrame({"Text"}) /\ Decoded.kind = kind

TakeEvent(type) ==
  /\ coordinator = "loop"
  /\ events # <<>>
  /\ Head(events).type = type
  /\ events' = Tail(events)
  /\ UNCHANGED <<TaskVars, cancelled, inbound, actionQueue, queryQueue, pumpVars,
                 handshake>>

---------------------------------------------------------------------------
(* The coordinator: frames and inbound messages.                            *)

ControlElse == <<actionQueue, queryQueue, pumpVars, joining, subscriptions,
                 stopped>>

(* A text that does not decode.                                             *)
HandleGarbage ==
  /\ TakeMessage("none")
  /\ Deliver(ErrorMessage(0, Decoded.error))
  /\ UNCHANGED <<ControlElse, handshake>>

(* A close message, a close frame, the end of the stream.                   *)
HandleClose ==
  /\ TakeMessage("close") \/ TakeFrame({"Closed"})
  /\ Leave(NoFailure, FALSE, "closed")
  /\ UNCHANGED <<outbound, ControlElse, handshake>>

HandleNative ==
  /\ \/ TakeFrame({"NativePing"}) /\ Deliver(Command("NativePong"))
     \/ TakeFrame({"NativePong"}) /\ Stay /\ UNCHANGED outbound
     \/ /\ TakeFrame({"Binary", "Oversized"})
        /\ LeaveTelling(Error("Codec", "InvalidMessageShape"),
                        Failure("Frame", Internal), "frame")
  /\ UNCHANGED <<ControlElse, handshake>>

(* The reader is gone and its channel is empty.                             *)
InputEnds ==
  /\ coordinator = "loop"
  /\ inbound = <<>>
  /\ reader.at \in {"failing", "done"}
  /\ Leave(NoFailure, FALSE, "input_ended")
  /\ UNCHANGED <<TaskVars, cancelled, events, inbound, outbound, ControlElse,
                 handshake>>

(* Why a hello is refused.                                                  *)
HelloError(hello) ==
  IF connection.state # "Negotiating" THEN Internal
  ELSE IF "json" \notin hello.codecs.set THEN Error("Codec", "UnsupportedMessageType")
  ELSE IF Negotiate(Policy, hello.supported_versions.set) = NoVersion
       THEN UnsupportedVersion ELSE NoError

Select(selected) ==
  /\ connection' = [connection EXCEPT !.state = "Authenticating"]
  /\ version' = selected

(* Mutated form: the codec is switched before HelloAccepted is queued.      *)
HandleHelloSwitching ==
  /\ TakeMessage("hello")
  /\ LET error == HelloError(Payload)
         selected == Negotiate(Policy, Payload.supported_versions.set)
     IN  \/ error # NoError /\ Complain(error) /\ UNCHANGED handshake
         \/ /\ error = NoError
            /\ Select(selected)
            /\ codec' = "session"
            /\ \/ QueueWith(HelloAccepted(selected), "bootstrap") /\ Stay
               \/ ~Room /\ Complain(SlowConsumer)
  /\ UNCHANGED ControlElse

(* Mutated form: a HelloAccepted that finds no room is given up.            *)
HandleHelloLossy ==
  /\ TakeMessage("hello")
  /\ LET error == HelloError(Payload)
         selected == Negotiate(Policy, Payload.supported_versions.set)
     IN  \/ error # NoError /\ Complain(error) /\ UNCHANGED handshake
         \/ /\ error = NoError
            /\ Select(selected)
            /\ Stay
            /\ \/ QueueWith(HelloAccepted(selected), "bootstrap") /\ codec' = "session"
               \/ ~Room /\ UNCHANGED <<outbound, codec>>
  /\ UNCHANGED ControlElse

(* The version is selected before the client can be told of it.             *)
HandleHello ==
  /\ TakeMessage("hello")
  /\ LET error == HelloError(Payload)
         selected == Negotiate(Policy, Payload.supported_versions.set)
     IN  \/ error # NoError /\ Complain(error) /\ UNCHANGED handshake
         \/ /\ error = NoError
            /\ Select(selected)
            /\ \/ /\ QueueWith(HelloAccepted(selected), "bootstrap")
                  /\ codec' = "session"
                  /\ Stay
               \/ ~Room /\ Complain(SlowConsumer) /\ UNCHANGED codec
  /\ UNCHANGED ControlElse

HandleAuthenticate ==
  /\ TakeMessage("authenticate")
  /\ \/ /\ connection.state # "Authenticating"
        /\ Complain(Error("ConnectionState", "OperationNotAllowed"))
     \/ /\ connection.state = "Authenticating"
        /\ coordinator' = "resolving"
        /\ UNCHANGED <<outbound, complaint, endVars>>
  /\ UNCHANGED <<ControlElse, handshake>>

(* The identity resolver answers: the actor is bound, or refused.           *)
Resolve ==
  /\ coordinator = "resolving"
  /\ \/ /\ \E actor \in Actors : connection' = [state |-> "Ready", identity |-> actor]
        /\ Stay /\ UNCHANGED outbound
     \/ \E e \in Failures \cap IdentityErrors : Complain(e) /\ UNCHANGED connection
  /\ UNCHANGED <<TaskVars, cancelled, events, inbound, ControlElse, version, codec>>

HandlePing ==
  /\ TakeMessage("ping")
  /\ Reply(Pong(Payload.nonce.number))
  /\ UNCHANGED <<ControlElse, handshake>>

Ready == connection.state = "Ready"

(* ensure_ready.                                                            *)
NotReady ==
  IF connection.state = "Authenticating" THEN Error("Identity", "AuthenticationRequired")
  ELSE Error("ConnectionState", "OperationNotAllowed")

ActionRoom == Len(actionQueue) < ActionCapacity /\ actionWorker.at # "done"

(* Mutated form: the actor of the action is not compared.                   *)
HandleActionUnbound ==
  /\ TakeMessage("action")
  /\ \/ /\ Ready /\ ActionRoom
        /\ actionQueue' = Append(actionQueue,
             Job(Payload.message_id.id, Payload.payload.fields.actor_id.id))
        /\ Stay /\ UNCHANGED outbound
     \/ ~Ready /\ Complain(NotReady) /\ UNCHANGED actionQueue
  /\ UNCHANGED <<queryQueue, pumpVars, joining, subscriptions, stopped, handshake>>

(* The actor of an action is compared with the bound one, and the action    *)
(* worker's channel may be full or closed.                                  *)
HandleAction ==
  /\ TakeMessage("action")
  /\ LET actor == Payload.payload.fields.actor_id.id
         unbound == ValidateActionBinding(connection.identity, actor)
         refused == IF ~Ready THEN NotReady
                    ELSE IF unbound # NoError THEN unbound
                    ELSE IF ~ActionRoom THEN Error("Execution", "Unavailable")
                    ELSE NoError
     IN  \/ /\ refused = NoError
            /\ actionQueue' = Append(actionQueue, Job(Payload.message_id.id, actor))
            /\ Stay /\ UNCHANGED outbound
         \/ refused # NoError /\ Complain(refused) /\ UNCHANGED actionQueue
  /\ UNCHANGED <<queryQueue, pumpVars, joining, subscriptions, stopped, handshake>>

(* The connection and the query itself must be of the version that has      *)
(* queries.  Without an executor or room the query is answered at once; an  *)
(* answer that does not encode or fit counts as one that found no room.     *)
HandleQuery ==
  /\ TakeMessage("query")
  /\ LET request == Payload.message_id.id
         supported == /\ version = QUERY_PROTOCOL_VERSION
                      /\ Payload.version = VersionObject(QUERY_PROTOCOL_VERSION)
         admitted == /\ QueryService
                     /\ Len(queryQueue) < QueryCapacity
                     /\ queryWorker.at # "done"
     IN  \/ ~Ready /\ Complain(NotReady) /\ UNCHANGED queryQueue
         \/ /\ Ready /\ ~supported
            /\ Reply(ErrorMessage(request, UnsupportedVersion))
            /\ UNCHANGED queryQueue
         \/ /\ Ready /\ supported /\ admitted
            /\ queryQueue' = Append(queryQueue, request)
            /\ Stay /\ UNCHANGED outbound
         \/ /\ Ready /\ supported /\ ~admitted
            /\ \/ Reply(QueryResponseMessage(version, request))
               \/ Complain(SlowConsumer)
            /\ UNCHANGED queryQueue
  /\ UNCHANGED <<actionQueue, pumpVars, joining, subscriptions, stopped, handshake>>

HandleSubscribe ==
  /\ TakeMessage("subscribe")
  /\ \/ ~Ready /\ Complain(NotReady) /\ UNCHANGED joining
     \/ /\ Ready
        /\ coordinator' = "subscribing"
        /\ joining' = [NoJoin EXCEPT !.request = Payload.request_id.id]
        /\ UNCHANGED <<outbound, complaint, endVars>>
  /\ UNCHANGED <<actionQueue, queryQueue, pumpVars, subscriptions, stopped, handshake>>

(* The authorizer and the factory of event sources fail, or the source has  *)
(* the identifier of another one.                                           *)
SubscribeErrors ==
  (Failures \cap (AuthorizationErrors \cup EventSourceErrors))
    \cup (IF subscriptions = {} THEN {} ELSE {Internal})

(* The authorizer and the factory answer; the client is told, and then the  *)
(* pump is spawned.                                                         *)
Subscribed ==
  /\ coordinator = "subscribing"
  /\ joining' = NoJoin
  /\ \/ \E e \in SubscribeErrors : Complain(e) /\ UNCHANGED <<pump, subscriptions>>
     \/ \E s \in Subscriptions :
          /\ pump[s] = "none"
          /\ \/ /\ Queue(SubscriptionAccepted(joining.request, s))
                /\ Goto(s, "running")
                /\ subscriptions' = subscriptions \cup {s}
                /\ Stay
             \/ /\ ~Room
                /\ Goto(s, "done")
                /\ UNCHANGED subscriptions
                /\ Complain(SlowConsumer)
  /\ UNCHANGED <<TaskVars, cancelled, events, inbound, actionQueue, queryQueue,
                 produced, stopped, handshake>>

(* The handle of s is removed and its token cancelled; the coordinator      *)
(* waits for the pump to end.                                               *)
Join(s, reason, request) ==
  /\ subscriptions' = subscriptions \ {s}
  /\ stopped' = stopped \cup {s}
  /\ joining' = [subscription |-> s, reason |-> reason, request |-> request]
  /\ coordinator' = "joining"
  /\ UNCHANGED <<outbound, complaint, endVars>>

HandleUnsubscribe ==
  /\ TakeMessage("unsubscribe")
  /\ LET s == Payload.subscription_id.id
         request == Payload.request_id.id
     IN  \/ ~Ready /\ Complain(NotReady) /\ UNCHANGED <<subscriptions, stopped, joining>>
         \/ /\ Ready /\ s \notin subscriptions
            /\ Reply(ErrorMessage(request, Error("SubscriptionAuthorization", "Rejected")))
            /\ UNCHANGED <<subscriptions, stopped, joining>>
         \/ Ready /\ s \in subscriptions /\ Join(s, "unsubscribe", request)
  /\ UNCHANGED <<actionQueue, queryQueue, pumpVars, handshake>>

(* Mutated form: the pump is cancelled but not waited for.                  *)
JoinedEarly ==
  LET s == joining.subscription
      closed == SubscriptionClosed(joining.request, s)
  IN  /\ coordinator = "joining"
      /\ joining' = NoJoin
      /\ \/ joining.reason = "unsubscribe" /\ Reply(closed)
         \/ joining.reason = "finished" /\ Deliver(closed)
         \/ joining.reason = "failed" /\ Stay /\ UNCHANGED outbound
      /\ UNCHANGED <<TaskVars, cancelled, events, inbound, actionQueue, queryQueue,
                     pumpVars, subscriptions, stopped, handshake>>

(* The pump has ended: the client is told of a subscription it gave up or   *)
(* that finished.                                                           *)
Joined ==
  LET s == joining.subscription
      closed == SubscriptionClosed(joining.request, s)
  IN  /\ coordinator = "joining"
      /\ pump[s] = "done"
      /\ joining' = NoJoin
      /\ \/ joining.reason = "unsubscribe" /\ Reply(closed)
         \/ joining.reason = "finished" /\ Deliver(closed)
         \/ joining.reason = "failed" /\ Stay /\ UNCHANGED outbound
      /\ UNCHANGED <<TaskVars, cancelled, events, inbound, actionQueue, queryQueue,
                     pumpVars, subscriptions, stopped, handshake>>

(* An error of handle_inbound is told; a fatal one, or one for which there  *)
(* is no room, ends the loop.                                               *)
ReportComplaint ==
  /\ coordinator = "complaining"
  /\ complaint' = NoError
  /\ \/ /\ Queue(ErrorMessage(0, complaint))
        /\ IF IsFatal(complaint)
           THEN /\ coordinator' = "final_error"
                /\ fatal' = Transport(complaint) /\ told' = TRUE /\ cause' = "error"
           ELSE coordinator' = "loop" /\ UNCHANGED endVars
     \/ /\ ~Room
        /\ coordinator' = "final_error"
        /\ fatal' = Transport(complaint) /\ told' = FALSE /\ cause' = "error"
        /\ UNCHANGED outbound
  /\ UNCHANGED <<TaskVars, cancelled, events, inbound, ControlElse, handshake>>

---------------------------------------------------------------------------
(* The coordinator: events of the other tasks, and the heartbeat.           *)

(* Mutated form: a reply that finds no room is dropped.                     *)
OnActionCompletedLossy ==
  /\ TakeEvent("ActionCompleted")
  /\ \/ Queue(ActionAcknowledgement(Head(events).request))
     \/ ~Room /\ UNCHANGED outbound
  /\ Stay
  /\ UNCHANGED <<joining, subscriptions, stopped>>

OnActionCompleted ==
  /\ TakeEvent("ActionCompleted")
  /\ LET request == Head(events).request
         error == Head(events).result
     IN  Deliver(IF error = NoError THEN ActionAcknowledgement(request)
                                    ELSE ErrorMessage(request, error))
  /\ UNCHANGED <<joining, subscriptions, stopped>>

(* A response that is too long is replaced by a failure; one that cannot be *)
(* encoded counts as one that found no room.                                *)
QueueQueryResponse(request, result) ==
  \/ /\ result \in {"fits", "oversized"}
     /\ Deliver(QueryResponseMessage(version, request))
  \/ /\ result = "unencodable"
     /\ Leave(Transport(SlowConsumer), FALSE, "slow")
     /\ UNCHANGED outbound

OnQueryCompleted ==
  /\ TakeEvent("QueryCompleted")
  /\ QueueQueryResponse(Head(events).request, Head(events).result)
  /\ UNCHANGED <<joining, subscriptions, stopped>>

OnSubscriptionFinished ==
  /\ TakeEvent("SubscriptionFinished")
  /\ LET s == Head(events).subscription
     IN  \/ s \in subscriptions /\ Join(s, "finished", 0)
         \/ /\ s \notin subscriptions
            /\ Stay
            /\ UNCHANGED <<outbound, joining, subscriptions, stopped>>

(* Lag ends the session, other failures the subscription.                   *)
OnEventSourceFailed ==
  /\ TakeEvent("EventSourceFailed")
  /\ LET s == Head(events).subscription
         lag == Head(events).result \in {"Lag", "LagTold"}
     IN  \/ /\ lag
            /\ Leave(Transport(Lagged), Head(events).result = "LagTold", "lag")
            /\ UNCHANGED <<outbound, joining, subscriptions, stopped>>
         \/ ~lag /\ s \in subscriptions /\ Join(s, "failed", 0)
         \/ /\ ~lag /\ s \notin subscriptions
            /\ Stay
            /\ UNCHANGED <<outbound, joining, subscriptions, stopped>>

OnSlowConsumer ==
  /\ TakeEvent("SlowConsumer")
  /\ LeaveTelling(SlowConsumer, Transport(SlowConsumer), "slow")
  /\ UNCHANGED <<joining, subscriptions, stopped>>

OnTaskFailed ==
  /\ \/ TakeEvent("WriterFailed") /\ Leave(Failure("Write", Internal), FALSE, "writer")
     \/ TakeEvent("ReaderFailed") /\ Leave(Failure("Task", Internal), FALSE, "reader")
  /\ UNCHANGED <<outbound, joining, subscriptions, stopped>>

(* A tick: negotiation or the peer took too long, or a ping is due.         *)
Heartbeat ==
  /\ coordinator = "loop"
  /\ \/ Deliver(Command("NativePing"))
     \/ Leave(Failure("Frame", Internal), FALSE, "timeout") /\ UNCHANGED outbound
  /\ UNCHANGED <<TaskVars, cancelled, events, inbound, ControlElse, handshake>>

---------------------------------------------------------------------------
(* The coordinator: the close procedure.                                    *)

CloseElse == <<TaskVars, inbound, events, endVars, complaint, joining, stopped,
               version, codec, pumpVars, actionQueue, queryQueue>>

Advance(from, to) == coordinator = from /\ coordinator' = to

FinalError ==
  /\ Advance("final_error", "send_close")
  /\ \/ fatal # NoFailure /\ ~told /\ Queue(ErrorMessage(0, ClientError(fatal)))
     \/ (fatal = NoFailure \/ told \/ ~Room) /\ UNCHANGED outbound
  /\ UNCHANGED <<CloseElse, connection, subscriptions, cancelled>>

(* writer_sender.send(Close) waits for room, or finds the channel closed.   *)
SendClose ==
  /\ coordinator = "send_close"
  /\ \/ Queue(Command("Close")) /\ coordinator' = "await_writer" /\ UNCHANGED cancelled
     \/ /\ writer.at = "done"
        /\ coordinator' = "join_pumps" /\ cancelled' = TRUE
        /\ UNCHANGED outbound
  /\ connection' = [connection EXCEPT !.state = "Closed"]
  /\ UNCHANGED <<CloseElse, subscriptions>>

(* Mutated form: the token is not cancelled.                                *)
AwaitWriterQuietly ==
  /\ Advance("await_writer", "join_pumps")
  /\ UNCHANGED <<CloseElse, outbound, connection, subscriptions, cancelled>>

(* The writer has ended or one second is over: everything is cancelled.     *)
AwaitWriter ==
  /\ Advance("await_writer", "join_pumps")
  /\ cancelled' = TRUE
  /\ UNCHANGED <<CloseElse, outbound, connection, subscriptions>>

JoinPumps ==
  /\ Advance("join_pumps", "join_reader")
  /\ \A s \in subscriptions : pump[s] = "done"
  /\ subscriptions' = {}
  /\ UNCHANGED <<CloseElse, outbound, connection, cancelled>>

JoinReader == Advance("join_reader", "join_actions") /\ reader.at = "done"

JoinActions == Advance("join_actions", "join_queries") /\ actionWorker.at = "done"

JoinQueries == Advance("join_queries", "join_writer") /\ queryWorker.at = "done"

(* Mutated form: the writer is not waited for after the second is over.     *)
JoinWriterNever == Advance("join_writer", "returned")

JoinWriter == Advance("join_writer", "returned") /\ writer.at = "done"

JoinTasks ==
  /\ JoinReader \/ JoinActions \/ JoinQueries \/ JoinWriter
  /\ UNCHANGED <<CloseElse, outbound, connection, subscriptions, cancelled>>

CloseStep == FinalError \/ SendClose \/ AwaitWriter \/ JoinPumps \/ JoinTasks

Coordinator ==
  \/ HandleGarbage \/ HandleClose \/ HandleNative \/ InputEnds \/ HandleHello
  \/ HandleAuthenticate \/ Resolve \/ HandlePing \/ HandleAction \/ HandleQuery
  \/ HandleSubscribe \/ Subscribed \/ HandleUnsubscribe \/ Joined
  \/ ReportComplaint \/ OnActionCompleted \/ OnQueryCompleted
  \/ OnSubscriptionFinished \/ OnEventSourceFailed \/ OnSlowConsumer
  \/ OnTaskFailed \/ CloseStep

(* The session has returned; the process goes on.                           *)
Terminated == coordinator = "returned" /\ UNCHANGED vars

Next ==
  \/ Reader \/ Writer \/ ActionWorker \/ QueryWorker \/ Coordinator \/ Heartbeat
  \/ \E s \in Subscriptions : Pump(s)
  \/ Terminated

Spec == Init /\ [][Next]_vars

(* tokio polls every task that is ready; timers fire, writes are bounded by *)
(* a timeout and the ports answer.  Nothing is assumed of the peer.         *)
FairSpec ==
  /\ Spec
  /\ WF_vars(ReaderSends) /\ WF_vars(ReaderReports) /\ WF_vars(ReaderStops)
  /\ WF_vars(Writer) /\ WF_vars(ActionWorker) /\ WF_vars(QueryWorker)
  /\ WF_vars(Coordinator)
  /\ \A s \in Subscriptions : WF_vars(PumpReports(s)) /\ WF_vars(PumpStops(s))

---------------------------------------------------------------------------
(* Properties.                                                              *)

(* What the client has seen and what the writer is still to show it.        *)
Stream ==
  LET writing == IF writer.at = "writing" THEN <<writer.command>> ELSE <<>>
      waiting == IF writer.at \in {"waiting", "writing"} THEN outbound ELSE <<>>
  IN  sent \o (writing \o waiting)

Of(type, s) ==
  {i \in DOMAIN Stream : Stream[i].type = type /\ Stream[i].subscription = s}

(* The client sees the events of a subscription between its acceptance and  *)
(* its end: the coordinator accepts before it spawns the pump and waits for *)
(* the pump before it tells the end, although both write to one channel.    *)
EventsWithinSubscription ==
  \A s \in Subscriptions :
    /\ \A i \in Of("Event", s) \cup Of("SubscriptionClosed", s) :
         \E j \in Of("SubscriptionAccepted", s) : j < i
    /\ \A i \in Of("SubscriptionClosed", s) :
         \A j \in Of("Event", s) \cup Of("SubscriptionAccepted", s) : j < i
    /\ Cardinality(Of("SubscriptionClosed", s)) <= 1

(* A reply to an action: the errors of executors, and of nothing else, name *)
(* a request and have one of two codes.                                     *)
IsReply(message) ==
  \/ message.type = "Ack"
  \/ /\ message.type = "Error" /\ message.request # 0
     /\ message.content[1] \in {"execution_rejected", "internal_error"}

Replies == {i \in DOMAIN Stream : IsReply(Stream[i])}

(* Actions are executed in the order in which they arrived, each at most    *)
(* once, and the replies are those of the first executed ones, in order and *)
(* without a gap.                                                           *)
ActionsInOrder ==
  /\ \A i, j \in DOMAIN executed : i < j => executed[i].request < executed[j].request
  /\ \A i, j \in Replies : i < j => Stream[i].request < Stream[j].request
  /\ \A i \in Replies : \E n \in DOMAIN executed :
       /\ Stream[i].request = executed[n].request
       /\ \A k \in 1..(n - 1) :
            \E j \in Replies : Stream[j].request = executed[k].request

(* Every query has at most one response, also when it was refused for want  *)
(* of room, replaced for its length or cut off by the close.                *)
OneResponsePerQuery ==
  \A i, j \in DOMAIN Stream :
    Stream[i].type = "QueryResponse" /\ Stream[j].type = "QueryResponse"
      /\ Stream[i].request = Stream[j].request => i = j

(* What the two properties suppose of the client: a frame is a message of a *)
(* kind, it names its request, and every script numbers its actions in      *)
(* their order and its queries each in another way.  The messages that name *)
(* no request have request 0.                                               *)
IsA(frame, kind) == frame.event = "Text" /\ DecodeInbound(frame.text).kind = kind
RequestOf(frame) == DecodeInbound(frame.text).payload.message_id.id

ActionsAreNumbered ==
  \A s \in Scripts :
    /\ \A i \in DOMAIN s : IsA(s[i], "action") => RequestOf(s[i]) \in Nat \ {0}
    /\ \A i, j \in DOMAIN s :
         i < j /\ IsA(s[i], "action") /\ IsA(s[j], "action") =>
           RequestOf(s[i]) < RequestOf(s[j])

QueriesAreDistinct ==
  \A s \in Scripts : \A i, j \in DOMAIN s :
    IsA(s[i], "query") /\ IsA(s[j], "query") /\ RequestOf(s[i]) = RequestOf(s[j])
      => i = j

(* A client that follows the protocol can decode what it sees: messages are *)
(* encoded with the codec of the session from the one after HelloAccepted   *)
(* on and with the bootstrap codec up to it, and what carries a version     *)
(* carries the one that HelloAccepted told, also when HelloAccepted found   *)
(* no room and the connection went on.                                      *)
ClientCanDecode ==
  LET hellos == {i \in DOMAIN Stream : Stream[i].type = "HelloAccepted"}
  IN  /\ Cardinality(hellos) <= 1
      /\ \A i \in DOMAIN Stream :
           /\ Stream[i].type \notin Native =>
                Stream[i].codec = (IF \E h \in hellos : h < i THEN "session"
                                                              ELSE "bootstrap")
           /\ Stream[i].type \in {"Event", "QueryResponse"} =>
                \A h \in hellos : Stream[i].content = Stream[h].content

(* A client whose hello was taken without the room for HelloAccepted is     *)
(* told that it is slow before anything else is taken from it, or the       *)
(* session ends.                                                            *)
LostHelloIsTold ==
  coordinator = "loop" /\ connection.state # "Negotiating"
    /\ writer.at \in {"waiting", "writing"} =>
      \E i \in DOMAIN Stream :
        \/ Stream[i].type = "HelloAccepted"
        \/ Stream[i].type = "Error" /\ Stream[i].content = <<Code(SlowConsumer), TRUE>>

Promised == INSTANCE Connection
              WITH state <- connection.state, identity <- connection.identity,
                   work <- executed, NoActor <- NoActor

(* The session implements the connection it promises: its states follow the *)
(* lifecycle, and every action that its worker executes, however long it    *)
(* waited in the channel, is one of the actor that the connection is bound  *)
(* to.                                                                      *)
ImplementsConnection == Promised!ConnectionSpec

(* No task outlives the session: when run returns, the reader, the writer,  *)
(* the workers and every pump have ended.                                   *)
NoTaskOutlivesSession ==
  coordinator = "returned" =>
    /\ {reader.at, writer.at, actionWorker.at, queryWorker.at} = {"done"}
    /\ \A s \in Subscriptions : pump[s] \in {"none", "done"}

(* A task that waits in send on a full channel of the coordinator.          *)
BlockedOnCoordinator ==
  \/ reader.at = "sending" /\ Len(inbound) = InboundCapacity
  \/ /\ ~EventRoom
     /\ \/ "failing" \in {reader.at, writer.at}
        \/ "reporting" \in {actionWorker.at, queryWorker.at}
        \/ \E s \in Subscriptions :
             pump[s] \in {"slow", "finishing", "failing", "lagged", "lagged_told"}

(* A close procedure that has begun completes, unless some task waits for   *)
(* ever for room in a channel that the coordinator has stopped reading.     *)
CloseCompletesUnlessBlocked ==
  coordinator \in Closing ~> coordinator = "returned" \/ []BlockedOnCoordinator

(* A close procedure that has begun completes.                              *)
CloseCompletes == coordinator \in Closing ~> coordinator = "returned"

(* A pump whose subscription is cancelled ends.                             *)
CancelledPumpEnds ==
  \A s \in Subscriptions : s \in stopped ~> pump[s] = "done"

(* When the loop ended because its input did, the failure of the reader or  *)
(* of the writer that ended the input is the result of the session.         *)
FailureIsReturned ==
  coordinator = "returned" /\ cause = "input_ended" =>
    \A i \in DOMAIN events : events[i].type \notin {"ReaderFailed", "WriterFailed"}
=============================================================================
