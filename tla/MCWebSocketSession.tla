-------------------------- MODULE MCWebSocketSession --------------------------
(***************************************************************************)
(* Instances of WebSocketSession for TLC.  A script is a list of frames;   *)
(* the request identifier of a frame is its place in the script.  The peer *)
(* may close, and the stream fail, after any prefix of it.                 *)
(***************************************************************************)
EXTENDS WebSocketSession

TextFrame(text) == Frame("Text", text)
ControlFrame(event) == Frame(event, NotJson)

Both == {CURRENT_PROTOCOL_VERSION, QUERY_PROTOCOL_VERSION}

HelloFrame == TextFrame(Hello(Both, {"json"}))
OldHello == TextFrame(Hello({CURRENT_PROTOCOL_VERSION}, {"json"}))
Opening == <<HelloFrame, TextFrame(Authenticate(2))>>

ActionFrame(request) == TextFrame(Action(request, "alice"))
QueryFrame(request) == TextFrame(Query(request, QUERY_PROTOCOL_VERSION))
SubscribeFrame(request) == TextFrame(Subscribe(request, 1, {}))
UnsubscribeFrame(request) == TextFrame(Unsubscribe(request, "s1"))

(* A subscription from its acceptance to its end.                           *)
SubscribeScripts == {Opening \o <<SubscribeFrame(3), UnsubscribeFrame(4)>>}

(* Actions and queries, each more than its channel holds.                   *)
RequestScripts ==
  {Opening \o <<ActionFrame(3), ActionFrame(4)>>,
   Opening \o <<QueryFrame(3), QueryFrame(4)>>}

(* Texts that the codec refuses, one for each of its checks.                *)
Malformed ==
  LET action == Action(1, "alice")
      query == Query(1, QUERY_PROTOCOL_VERSION)
      In(message, field, value) ==
        [message EXCEPT !.fields.payload.fields[field] = value]
  IN  {NotJson, Text("hello"), Object([kind |-> Text("ping")]),
       Object([kind |-> Text("ping"), payload |-> Object(<<>>), more |-> Text("")]),
       Object([kind |-> Number(1), payload |-> Object(<<>>)]),
       Inbound("event", <<>>), Inbound("ping", [nonce |-> Text("one")]),
       Inbound("hello", [codecs |-> Strings({})]), Inbound("action", <<>>),
       In(action, "version", Text("0.1.0")), In(action, "message_type", Text("event")),
       In(action, "payload", Object(<<>>)), In(query, "message_type", Number(1)),
       In(query, "message_type", Text("document")), In(query, "payload", Text("")),
       In(query, "message_id", Text("one"))}

ServiceScripts ==
  SubscribeScripts \cup RequestScripts \cup {<<TextFrame(text)>> : text \in Malformed}

(* One failure of each port.                                                *)
SomeFailures ==
  {Error("Identity", "CredentialsRejected"), Error("Execution", "Rejected"),
   Error("SubscriptionAuthorization", "Rejected"),
   Error("EventSource", "SubscriptionLagged"), Error("EventSource", "Failed")}

(* Everything that is refused, before and after negotiation, and an action  *)
(* that may be executing, or its result waiting for room, at the close.     *)
ClosingScripts ==
  {<<TextFrame(Hello(Both, {"cbor"})), OldHello, OldHello, TextFrame(Authenticate(4)),
     QueryFrame(5)>>,
   <<TextFrame(Hello({<<9, 0, 0>>}, {"json"}))>>,
   <<TextFrame(Ping(7)), ControlFrame("NativePing")>>,
   <<ControlFrame("NativePong"), ControlFrame("Binary")>>, <<ControlFrame("Oversized")>>,
   <<TextFrame(Authenticate(1)), ActionFrame(2), QueryFrame(3), SubscribeFrame(4),
     UnsubscribeFrame(5)>>,
   Opening \o <<QueryFrame(3), UnsubscribeFrame(4)>>,
   Opening \o <<TextFrame(Action(3, "mallory")), TextFrame(Close)>>,
   Opening \o <<ActionFrame(3)>>}

(* A client that goes on sending.                                           *)
FloodScripts == {<<TextFrame(Ping(1)), TextFrame(Ping(2)), TextFrame(Ping(3))>>}

(* The clients of the instances number their requests.                      *)
ASSUME ClientAssumption == ActionsAreNumbered /\ QueriesAreDistinct
=============================================================================
