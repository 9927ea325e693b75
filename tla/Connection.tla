------------------------------ MODULE Connection ------------------------------
(***************************************************************************)
(* What a connection promises: the lifecycle of TransportConnection, and   *)
(* that work is done for its client only in the name of the actor it was   *)
(* bound to.  Between two awaits a session may call several methods, so a  *)
(* step here may make several legal transitions.                           *)
(***************************************************************************)
EXTENDS Integers, Sequences

CONSTANT NoActor

VARIABLES
  state,      (* ConnectionState                                            *)
  identity,   (* the actor of the trusted binding, or NoActor               *)
  work        (* the actions executed: [request, actor]                     *)

CanTransitionTo(from, to) ==
  <<from, to>> \in
    {<<"Negotiating", "Authenticating">>, <<"Authenticating", "Ready">>,
     <<"Ready", "Closing">>, <<"Negotiating", "Closing">>,
     <<"Authenticating", "Closing">>, <<"Closing", "Closed">>}

New == state = "Negotiating" /\ identity = NoActor /\ work = <<>>

BeginAuthentication ==
  /\ CanTransitionTo(state, "Authenticating")
  /\ state' = "Authenticating"
  /\ UNCHANGED <<identity, work>>

(* bind_identity, then mark_ready.                                          *)
BecomeReady ==
  /\ state = "Authenticating"
  /\ identity' # NoActor
  /\ CanTransitionTo(state, "Ready")
  /\ state' = "Ready"
  /\ UNCHANGED work

(* begin_close, then close.                                                 *)
Shut ==
  /\ CanTransitionTo(state, "Closing") /\ CanTransitionTo("Closing", "Closed")
  /\ state' = "Closed"
  /\ UNCHANGED <<identity, work>>

(* An action is executed, perhaps one that was admitted before the close.   *)
Serve ==
  /\ identity # NoActor
  /\ Len(work') = Len(work) + 1
  /\ SubSeq(work', 1, Len(work)) = work
  /\ work'[Len(work')].actor = identity
  /\ UNCHANGED <<state, identity>>

Lifecycle == BeginAuthentication \/ BecomeReady \/ Shut \/ Serve

ConnectionSpec == New /\ [][Lifecycle]_<<state, identity, work>>
=============================================================================
