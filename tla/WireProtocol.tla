----------------------------- MODULE WireProtocol -----------------------------
(***************************************************************************)
(* What goes over the wire in crates/orbitrelay-transport: the messages of *)
(* both sides, the strict JSON codec, the errors and the codes a client    *)
(* sees of them, version negotiation, and the binding of actions to the    *)
(* actor of their connection.  A JSON object is its fields; other values   *)
(* are tagged with the type they can be read as.                           *)
(***************************************************************************)
EXTENDS Integers, Sequences

---------------------------------------------------------------------------
(* JSON values.                                                             *)

NotJson == [type |-> "invalid"]
Object(fields) == [type |-> "object", fields |-> fields]
Text(string) == [type |-> "string", string |-> string]
Number(n) == [type |-> "number", number |-> n]
Id(id) == [type |-> "id", id |-> id]
Strings(set) == [type |-> "strings", set |-> set]
Timestamp == [type |-> "timestamp"]

(* Versions: numbers major, minor and patch.                                *)
CURRENT_PROTOCOL_VERSION == <<0, 1, 0>>
QUERY_PROTOCOL_VERSION == <<0, 2, 0>>

VersionObject(v) ==
  Object([major |-> Number(v[1]), minor |-> Number(v[2]), patch |-> Number(v[3])])

Versions(set) == [type |-> "versions", set |-> set]

---------------------------------------------------------------------------
(* Inbound messages, as a client writes them.                               *)

Inbound(kind, payload) == Object([kind |-> Text(kind), payload |-> Object(payload)])

Hello(versions, codecs) ==
  Inbound("hello", [supported_versions |-> Versions(versions),
                    codecs |-> Strings(codecs)])

Authenticate(request) ==
  Inbound("authenticate", [request_id |-> Id(request),
                           credentials |-> [type |-> "credentials"]])

Subscribe(request, session, types) ==
  Inbound("subscribe", [request_id |-> Id(request), session_id |-> Id(session),
                        event_types |-> Strings(types)])

Unsubscribe(request, subscription) ==
  Inbound("unsubscribe", [request_id |-> Id(request),
                          subscription_id |-> Id(subscription)])

Action(request, actor) ==
  Inbound("action",
    [version |-> VersionObject(CURRENT_PROTOCOL_VERSION), message_id |-> Id(request),
     message_type |-> Text("action"),
     payload |-> Object([id |-> Id(request), session_id |-> Id(0),
                         actor_id |-> Id(actor), action_type |-> Text("draw"),
                         requested_at |-> Timestamp, payload |-> Object(<<>>),
                         metadata |-> Object(<<>>)])])

Query(request, version) ==
  Inbound("query", [version |-> VersionObject(version), message_id |-> Id(request),
                    message_type |-> Text("document.list"), payload |-> Object(<<>>)])

Ping(nonce) == Inbound("ping", [nonce |-> Number(nonce)])

Close == Inbound("close", [reason |-> Text("done")])

---------------------------------------------------------------------------
(* Errors.                                                                  *)

Error(class, kind) == [class |-> class, kind |-> kind]

CodecErrors == {Error("Codec", k) : k \in
  {"InvalidJson", "InvalidMessageShape", "MissingField", "UnknownField",
   "UnsupportedMessageType", "UnexpectedEnvelopeType", "DecodeFailed",
   "EncodeFailed"}}

ConnectionStateErrors == {Error("ConnectionState", k) : k \in
  {"InvalidTransition", "OperationNotAllowed"}}

IdentityErrors == {Error("Identity", k) : k \in
  {"AuthenticationRequired", "IdentityMismatch", "CredentialsRejected",
   "ResolverUnavailable", "ResolutionFailed"}}

ExecutionErrors == {Error("Execution", k) : k \in {"Rejected", "Unavailable", "Failed"}}

EventSourceErrors == {Error("EventSource", k) : k \in
  {"SubscriptionLagged", "SubscriptionClosed", "Unavailable", "Failed"}}

AuthorizationErrors == {Error("SubscriptionAuthorization", k) : k \in
  {"Rejected", "Unavailable", "Failed"}}

UnsupportedVersion == Error("Version", "UnsupportedVersion")
SlowConsumer == Error("SlowConsumer", "Full")
Internal == Error("Internal", "Failed")

TransportErrors ==
  CodecErrors \cup ConnectionStateErrors \cup IdentityErrors \cup ExecutionErrors
    \cup EventSourceErrors \cup AuthorizationErrors
    \cup {UnsupportedVersion, SlowConsumer, Internal}

NoError == Error("none", "none")

(* TransportError::code.                                                    *)
Code(e) ==
  CASE e = Error("Codec", "EncodeFailed") -> "codec_error"
    [] e \in CodecErrors \ {Error("Codec", "EncodeFailed")} -> "invalid_message"
    [] e.class = "Version" -> "unsupported_version"
    [] e.class = "ConnectionState" -> "connection_not_ready"
    [] e = Error("Identity", "IdentityMismatch") -> "identity_mismatch"
    [] e.class = "Identity" /\ e.kind \in {"AuthenticationRequired",
         "CredentialsRejected", "ResolverUnavailable"} -> "authentication_required"
    [] e = Error("Execution", "Rejected") -> "execution_rejected"
    [] e = Error("SubscriptionAuthorization", "Rejected") -> "subscription_rejected"
    [] e = Error("EventSource", "SubscriptionLagged") -> "subscription_lagged"
    [] e = SlowConsumer -> "slow_consumer"
    [] OTHER -> "internal_error"

IsRetryable(e) ==
  e \in {SlowConsumer, Error("Identity", "AuthenticationRequired"),
         Error("Identity", "ResolverUnavailable"), Error("Execution", "Unavailable"),
         Error("SubscriptionAuthorization", "Unavailable"),
         Error("EventSource", "SubscriptionLagged"), Error("EventSource", "Unavailable")}

(* The session's loop ends with an error of handle_inbound that is fatal.   *)
IsFatal(e) == e \in {UnsupportedVersion, Error("ConnectionState", "InvalidTransition")}

---------------------------------------------------------------------------
(* Outbound messages.  A message that answers no request has request 0;     *)
(* content is what a client decides on; codec, the one that is to encode    *)
(* the message, is set when the message is queued.                          *)

NoSubscription == "none"

Outbound(type, request, subscription, content) ==
  [type |-> type, request |-> request, subscription |-> subscription,
   content |-> content, codec |-> "none"]

HelloAccepted(version) == Outbound("HelloAccepted", 0, NoSubscription, version)
ActionAcknowledgement(request) == Outbound("Ack", request, NoSubscription, <<>>)
QueryResponseMessage(version, request) ==
  Outbound("QueryResponse", request, NoSubscription, version)
SubscriptionAccepted(request, s) == Outbound("SubscriptionAccepted", request, s, <<>>)
SubscriptionClosed(request, s) == Outbound("SubscriptionClosed", request, s, <<>>)
EventMessage(s, version) == Outbound("Event", 0, s, version)
ErrorMessage(request, e) ==
  Outbound("Error", request, NoSubscription, <<Code(e), IsRetryable(e)>>)
Pong(nonce) == Outbound("Pong", nonce, NoSubscription, <<>>)

---------------------------------------------------------------------------
(* JsonCodec::decode_inbound.                                               *)

(* The first of two checks that fails.                                      *)
OrElse(error, next) == IF error # "none" THEN error ELSE next

RequireObject(value) ==
  IF value.type = "object" THEN "none" ELSE "InvalidMessageShape"

ValidateExactFields(value, expected) ==
  OrElse(RequireObject(value),
         IF ~(expected \subseteq DOMAIN value.fields) THEN "MissingField"
         ELSE IF ~(DOMAIN value.fields \subseteq expected) THEN "UnknownField"
         ELSE "none")

EnvelopeFields == {"version", "message_id", "message_type", "payload"}
ActionFields == {"id", "session_id", "actor_id", "action_type", "requested_at",
                 "payload", "metadata"}

ValidateEnvelope(value) ==
  OrElse(ValidateExactFields(value, EnvelopeFields),
  OrElse(ValidateExactFields(value.fields.version, {"major", "minor", "patch"}),
         IF value.fields.message_type.type = "string" THEN "none"
                                                      ELSE "InvalidMessageShape"))

ValidateActionEnvelope(value) ==
  OrElse(ValidateEnvelope(value),
  OrElse(IF value.fields.message_type.string = "action" THEN "none"
                                                        ELSE "UnexpectedEnvelopeType",
  OrElse(ValidateExactFields(value.fields.payload, ActionFields),
  OrElse(RequireObject(value.fields.payload.fields.payload),
         RequireObject(value.fields.payload.fields.metadata)))))

(* QueryType::new: of the strings of the model, those that name a type.     *)
QueryTypes == {"document.list", "document.get"}

ValidateQueryMessage(value) ==
  OrElse(ValidateEnvelope(value),
  OrElse(IF value.fields.message_type.string \in QueryTypes THEN "none"
                                                            ELSE "InvalidMessageShape",
         RequireObject(value.fields.payload)))

(* The types serde expects of the fields of a payload.                      *)
Schema ==
  [hello |-> [supported_versions |-> "versions", codecs |-> "strings"],
   authenticate |-> [request_id |-> "id", credentials |-> "credentials"],
   subscribe |-> [request_id |-> "id", session_id |-> "id", event_types |-> "strings"],
   unsubscribe |-> [request_id |-> "id", subscription_id |-> "id"],
   action |-> [version |-> "object", message_id |-> "id", message_type |-> "string",
               payload |-> "object"],
   query |-> [version |-> "object", message_id |-> "id", message_type |-> "string",
              payload |-> "object"],
   ping |-> [nonce |-> "number"],
   close |-> [reason |-> "string"]]

(* Unknown fields are refused, and only the reason of a close may be left   *)
(* out.                                                                     *)
Deserializes(kind, payload) ==
  /\ payload.type = "object"
  /\ DOMAIN payload.fields \subseteq DOMAIN Schema[kind]
  /\ DOMAIN Schema[kind] \ {"reason"} \subseteq DOMAIN payload.fields
  /\ \A f \in DOMAIN payload.fields : payload.fields[f].type = Schema[kind][f]
  /\ kind \in {"action", "query"} =>
       \A f \in {"major", "minor", "patch"} :
         payload.fields.version.fields[f].type = "number"
  /\ kind = "action" =>
       LET action == payload.fields.payload.fields
       IN  /\ \A f \in {"id", "session_id", "actor_id"} : action[f].type = "id"
           /\ action.action_type.type = "string"
           /\ action.requested_at.type = "timestamp"

ValidateInbound(value) ==
  OrElse(ValidateExactFields(value, {"kind", "payload"}),
  IF value.fields.kind.type # "string" THEN "InvalidMessageShape"
  ELSE LET kind == value.fields.kind.string
       IN  IF kind \notin DOMAIN Schema THEN "UnsupportedMessageType"
           ELSE IF kind = "action" THEN ValidateActionEnvelope(value.fields.payload)
           ELSE IF kind = "query" THEN ValidateQueryMessage(value.fields.payload)
           ELSE "none")

Undecodable(kind) == [kind |-> "none", error |-> Error("Codec", kind)]

DecodeInbound(value) ==
  LET invalid == ValidateInbound(value)
      kind == value.fields.kind.string
  IN  IF value = NotJson THEN Undecodable("InvalidJson")
      ELSE IF invalid # "none" THEN Undecodable(invalid)
      ELSE IF ~Deserializes(kind, value.fields.payload) THEN Undecodable("DecodeFailed")
      ELSE [kind |-> kind, error |-> NoError, payload |-> value.fields.payload.fields]

---------------------------------------------------------------------------
(* Version policies: <<0, 0, 0>> where no version is compatible.            *)

NoVersion == <<0, 0, 0>>

Negotiate(policy, versions) ==
  LET accepted == CASE policy = "ExactVersionPolicy" -> <<CURRENT_PROTOCOL_VERSION>>
                    [] policy = "ExactQueryVersionPolicy" -> <<QUERY_PROTOCOL_VERSION>>
                    [] policy = "CompatibleVersionPolicy" ->
                         <<QUERY_PROTOCOL_VERSION, CURRENT_PROTOCOL_VERSION>>
      common == SelectSeq(accepted, LAMBDA v : v \in versions)
  IN  IF common = <<>> THEN NoVersion ELSE Head(common)

---------------------------------------------------------------------------
(* Identity.  A connection is bound to no actor or to one.                  *)

NoActor == "nobody"

ValidateActionBinding(bound, actor) ==
  IF bound = NoActor THEN Error("Identity", "AuthenticationRequired")
  ELSE IF bound # actor THEN Error("Identity", "IdentityMismatch") ELSE NoError

(* Every limit of a configuration is positive.                              *)
ValidConfig(config) == \A limit \in DOMAIN config : config[limit] # 0
=============================================================================
