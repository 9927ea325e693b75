---------------------------- MODULE EventBusProofs ----------------------------
(***************************************************************************)
(* Proofs about EventBus for any finite set of publishers, any             *)
(* subscriptions, events and filters, and any capacity and bounds.         *)
(*                                                                         *)
(* The argument: a publisher that still has a subscriber to come to has a  *)
(* number no event of that subscriber's stream has reached, so what it     *)
(* appends is new; a miss that is not counted yet is a publisher between   *)
(* try_send and the count; a cleanup removes only receivers that were      *)
(* found closed, and a receiver never opens again; and receive_after_lag   *)
(* is false whenever the consumer waits in recv.                           *)
(***************************************************************************)
EXTENDS EventBus, FiniteSetTheorems, SequenceTheorems, TLAPS

(* What a subscription has received, and then what it has queued.           *)
Stream(s) == delivered[s] \o queue[s]

(* A publish call carries its own number, and only meets subscriptions that *)
(* were made.                                                               *)
CallsCarryNumbers ==
  \A p \in Publishers :
    /\ publisher[p] \in {"sending", "missing"} =>
         message[p].from = p /\ message[p].number = calls[p]
    /\ \A s \in todo[p] : consumer[s] # "none"

(* Before it is made a subscription has received nothing.                   *)
FreshIsEmpty ==
  \A s \in Subscriptions :
    consumer[s] = "none" => delivered[s] = <<>> /\ queue[s] = <<>>

(* An event of the stream has the number of an earlier call, or of the      *)
(* current one if that call has come past the subscription.                 *)
NumbersAreOld ==
  \A s \in Subscriptions : \A i \in 1..Len(Stream(s)) :
    LET m == Stream(s)[i]
    IN  /\ m.number <= calls[m.from]
        /\ s \in todo[m.from] => m.number < calls[m.from]

StreamOrder ==
  \A s \in Subscriptions : \A i \in 1..Len(Stream(s)) :
    /\ Matches(filter[s], Stream(s)[i].event)
    /\ \A j \in 1..(i - 1) :
         Stream(s)[j].from = Stream(s)[i].from
           => Stream(s)[j].number < Stream(s)[i].number

OrderInv == CallsCarryNumbers /\ FreshIsEmpty /\ NumbersAreOld /\ StreamOrder

(* The map holds every open subscription as long as the bus exists, and     *)
(* what a publish call is about to remove was closed.                       *)
OpenIsRegistered ==
  \A s \in Subscriptions :
    alive /\ consumer[s] \in {"idle", "receiving"} => s \in subscribers

CleanupTakesClosed == \A p \in Publishers : \A s \in closed[p] : ReceiverClosed(s)

EndInv == OpenIsRegistered /\ CleanupTakesClosed /\ NoneMeansBusEnded

(* A consumer in recv has spent receive_after_lag and owes no report from   *)
(* before; one that was given an event over a counted miss reports next.    *)
LagInv ==
  \A s \in Subscriptions :
    /\ consumer[s] = "receiving" => ~afterLag[s] /\ late[s] = 0
    /\ late[s] = 0 \/ (late[s] = 1 /\ missed[s] > 0 /\ ~afterLag[s])

---------------------------------------------------------------------------
(* The steps of a publisher and of a consumer, one by one.                  *)
LEMMA NextSteps ==
  ASSUME Next
  PROVE  \/ \E s \in Subscriptions, f \in Filters : Subscribe(s, f)
         \/ \E p \in Publishers, e \in Events : Publish(p, e)
         \/ \E p \in Publishers, s \in Subscriptions :
              \/ Skip(p, s) \/ SendClosed(p, s) \/ SendOk(p, s) \/ SendFull(p, s)
         \/ \E p \in Publishers : CountMiss(p) \/ FinishLoop(p) \/ Cleanup(p)
         \/ \E s \in Subscriptions :
              \/ ReportLag(s) \/ AwaitEvent(s) \/ Receive(s) \/ ReceiveNone(s)
              \/ Detach(s) \/ CancelReceive(s) \/ Close(s) \/ DropSubscription(s)
         \/ EndBus
BY DEF Next, PublisherStep, ConsumerStep

(* Types hold initially.                                                    *)
LEMMA TypeInit == Init => TypeOK
BY BusAssumption, EmptySeq DEF Init, TypeOK

(* The types by what they are about: the map and the channels, what the     *)
(* consumers were told, and the publish calls.                              *)
ChannelTypes ==
  /\ alive \in BOOLEAN
  /\ subscribers \in SUBSET Subscriptions
  /\ filter \in [Subscriptions -> Filters \cup {Unset}]
  /\ queue \in [Subscriptions -> Seq(Messages)]
  /\ \A s \in Subscriptions : Len(queue[s]) <= QueueCapacity
  /\ missed \in [Subscriptions -> 0..MaxMissed]
  /\ consumer \in [Subscriptions -> {"none", "idle", "receiving", "closing",
                                     "closed", "dropping", "dropped"}]
  /\ \A s \in Subscriptions : consumer[s] # "none" => filter[s] \in Filters
  /\ subscribers \subseteq {s \in Subscriptions : consumer[s] # "none"}

HistoryTypes ==
  /\ afterLag \in [Subscriptions -> BOOLEAN]
  /\ offered \in [Subscriptions -> Nat]
  /\ delivered \in [Subscriptions -> Seq(Messages)]
  /\ reported \in [Subscriptions -> Nat]
  /\ late \in [Subscriptions -> Nat]
  /\ ended \in [Subscriptions -> BOOLEAN]

CallTypes ==
  /\ publisher \in [Publishers -> {"idle", "sending", "missing", "cleanup"}]
  /\ message \in [Publishers -> Messages \cup {Unset}]
  /\ \A p \in Publishers :
       publisher[p] \in {"sending", "missing"} => message[p] \in Messages
  /\ todo \in [Publishers -> SUBSET Subscriptions]
  /\ full \in [Publishers -> Subscriptions \cup {Unset}]
  /\ \A p \in Publishers : publisher[p] = "missing" => full[p] \in Subscriptions
  /\ closed \in [Publishers -> SUBSET Subscriptions]
  /\ calls \in [Publishers -> 0..MaxPublishes]

(* Types are kept by every step.                                            *)
LEMMA TypeStep == TypeOK /\ [Next]_vars => TypeOK'
<1> SUFFICES ASSUME ChannelTypes, HistoryTypes, CallTypes, [Next]_vars
             PROVE  ChannelTypes' /\ HistoryTypes' /\ CallTypes'
  BY DEF TypeOK, ChannelTypes, HistoryTypes, CallTypes
<1> USE BusAssumption
<1>1. ASSUME NEW s \in Subscriptions, NEW f \in Filters, Subscribe(s, f)
      PROVE  ChannelTypes' /\ HistoryTypes' /\ CallTypes'
  <2>1. ChannelTypes'
    BY <1>1 DEF Subscribe, publisherVars, ChannelTypes
  <2>2. HistoryTypes'
    BY <1>1 DEF Subscribe, publisherVars, HistoryTypes
  <2>3. CallTypes'
    BY <1>1 DEF Subscribe, publisherVars, CallTypes
  <2>4. QED
    BY <2>1, <2>2, <2>3
<1>2. ASSUME NEW p \in Publishers, NEW e \in Events, Publish(p, e)
      PROVE  ChannelTypes' /\ HistoryTypes' /\ CallTypes'
  <2>0. [from |-> p, number |-> calls[p] + 1, event |-> e] \in Messages
    BY <1>2 DEF Publish, CallTypes, Messages
  <2>1. ChannelTypes'
    BY <1>2 DEF Publish, consumerVars, ChannelTypes
  <2>2. HistoryTypes'
    BY <1>2 DEF Publish, consumerVars, HistoryTypes
  <2>3. CallTypes'
    BY <1>2, <2>0 DEF Publish, consumerVars, CallTypes, ChannelTypes
  <2>4. QED
    BY <2>1, <2>2, <2>3
<1>3. ASSUME NEW p \in Publishers, NEW s \in Subscriptions, Skip(p, s)
      PROVE  ChannelTypes' /\ HistoryTypes' /\ CallTypes'
  <2>1. ChannelTypes'
    BY <1>3 DEF Skip, Visit, consumerVars, ChannelTypes
  <2>2. HistoryTypes'
    BY <1>3 DEF Skip, Visit, consumerVars, HistoryTypes
  <2>3. CallTypes'
    BY <1>3 DEF Skip, Visit, consumerVars, CallTypes
  <2>4. QED
    BY <2>1, <2>2, <2>3
<1>4. ASSUME NEW p \in Publishers, NEW s \in Subscriptions, SendClosed(p, s)
      PROVE  ChannelTypes' /\ HistoryTypes' /\ CallTypes'
  <2>1. ChannelTypes'
    BY <1>4 DEF SendClosed, Visit, consumerVars, ChannelTypes
  <2>2. HistoryTypes'
    BY <1>4 DEF SendClosed, Visit, consumerVars, HistoryTypes
  <2>3. CallTypes'
    BY <1>4 DEF SendClosed, Visit, consumerVars, CallTypes
  <2>4. QED
    BY <2>1, <2>2, <2>3
<1>5. ASSUME NEW p \in Publishers, NEW s \in Subscriptions, SendOk(p, s)
      PROVE  ChannelTypes' /\ HistoryTypes' /\ CallTypes'
  <2>0. /\ Append(queue[s], message[p]) \in Seq(Messages)
        /\ Len(Append(queue[s], message[p])) <= QueueCapacity
    <3>1. queue[s] \in Seq(Messages) /\ message[p] \in Messages
      BY <1>5 DEF SendOk, Visit, ChannelTypes, CallTypes
    <3>2. QED
      BY <1>5, <3>1, AppendProperties, LenProperties DEF SendOk
  <2>1. ChannelTypes'
    BY <1>5, <2>0 DEF SendOk, Visit, consumerVars, ChannelTypes
  <2>2. HistoryTypes'
    BY <1>5 DEF SendOk, Visit, consumerVars, HistoryTypes
  <2>3. CallTypes'
    BY <1>5 DEF SendOk, Visit, consumerVars, CallTypes
  <2>4. QED
    BY <2>1, <2>2, <2>3
<1>6. ASSUME NEW p \in Publishers, NEW s \in Subscriptions, SendFull(p, s)
      PROVE  ChannelTypes' /\ HistoryTypes' /\ CallTypes'
  <2>1. ChannelTypes'
    BY <1>6 DEF SendFull, Visit, consumerVars, ChannelTypes
  <2>2. HistoryTypes'
    BY <1>6 DEF SendFull, Visit, consumerVars, HistoryTypes
  <2>3. CallTypes'
    BY <1>6 DEF SendFull, Visit, consumerVars, CallTypes
  <2>4. QED
    BY <2>1, <2>2, <2>3
<1>7. ASSUME NEW p \in Publishers, CountMiss(p)
      PROVE  ChannelTypes' /\ HistoryTypes' /\ CallTypes'
  <2>0. full[p] \in Subscriptions
    BY <1>7 DEF CountMiss, CallTypes
  <2>1. ChannelTypes'
    BY <1>7, <2>0 DEF CountMiss, AddMiss, consumerVars, ChannelTypes
  <2>2. HistoryTypes'
    BY <1>7 DEF CountMiss, AddMiss, consumerVars, HistoryTypes
  <2>3. CallTypes'
    BY <1>7 DEF CountMiss, AddMiss, consumerVars, CallTypes
  <2>4. QED
    BY <2>1, <2>2, <2>3
<1>8. ASSUME NEW p \in Publishers, FinishLoop(p)
      PROVE  ChannelTypes' /\ HistoryTypes' /\ CallTypes'
  <2>1. ChannelTypes'
    BY <1>8 DEF FinishLoop, consumerVars, ChannelTypes
  <2>2. HistoryTypes'
    BY <1>8 DEF FinishLoop, consumerVars, HistoryTypes
  <2>3. CallTypes'
    BY <1>8 DEF FinishLoop, consumerVars, CallTypes
  <2>4. QED
    BY <2>1, <2>2, <2>3
<1>9. ASSUME NEW p \in Publishers, Cleanup(p)
      PROVE  ChannelTypes' /\ HistoryTypes' /\ CallTypes'
  <2>1. ChannelTypes'
    BY <1>9 DEF Cleanup, consumerVars, ChannelTypes
  <2>2. HistoryTypes'
    BY <1>9 DEF Cleanup, consumerVars, HistoryTypes
  <2>3. CallTypes'
    BY <1>9 DEF Cleanup, consumerVars, CallTypes
  <2>4. QED
    BY <2>1, <2>2, <2>3
<1>10. CASE EndBus
  <2>1. ChannelTypes'
    BY <1>10 DEF EndBus, publisherVars, consumerVars, ChannelTypes
  <2>2. HistoryTypes'
    BY <1>10 DEF EndBus, publisherVars, consumerVars, HistoryTypes
  <2>3. CallTypes'
    BY <1>10 DEF EndBus, publisherVars, consumerVars, CallTypes
  <2>4. QED
    BY <2>1, <2>2, <2>3
<1>11. ASSUME NEW s \in Subscriptions, ReportLag(s)
       PROVE  ChannelTypes' /\ HistoryTypes' /\ CallTypes'
  <2>1. ChannelTypes'
    BY <1>11 DEF ReportLag, publisherVars, ChannelTypes
  <2>2. HistoryTypes'
    BY <1>11 DEF ReportLag, publisherVars, HistoryTypes, ChannelTypes
  <2>3. CallTypes'
    BY <1>11 DEF ReportLag, publisherVars, CallTypes
  <2>4. QED
    BY <2>1, <2>2, <2>3
<1>12. ASSUME NEW s \in Subscriptions, AwaitEvent(s)
       PROVE  ChannelTypes' /\ HistoryTypes' /\ CallTypes'
  <2>1. ChannelTypes'
    BY <1>12 DEF AwaitEvent, publisherVars, ChannelTypes
  <2>2. HistoryTypes'
    BY <1>12 DEF AwaitEvent, publisherVars, HistoryTypes
  <2>3. CallTypes'
    BY <1>12 DEF AwaitEvent, publisherVars, CallTypes
  <2>4. QED
    BY <2>1, <2>2, <2>3
<1>13. ASSUME NEW s \in Subscriptions, Receive(s)
       PROVE  ChannelTypes' /\ HistoryTypes' /\ CallTypes'
  <2>0. /\ Append(delivered[s], Head(queue[s])) \in Seq(Messages)
        /\ Tail(queue[s]) \in Seq(Messages)
        /\ Len(Tail(queue[s])) <= QueueCapacity
    <3>1. /\ queue[s] \in Seq(Messages) /\ queue[s] # <<>>
          /\ delivered[s] \in Seq(Messages)
      BY <1>13 DEF Receive, ChannelTypes, HistoryTypes
    <3>2. /\ Head(queue[s]) \in Messages
          /\ Tail(queue[s]) \in Seq(Messages)
          /\ Len(Tail(queue[s])) = Len(queue[s]) - 1
      BY <3>1, HeadTailProperties
    <3>3. QED
      BY <3>1, <3>2, AppendProperties, LenProperties DEF ChannelTypes
  <2>1. ChannelTypes'
    BY <1>13, <2>0 DEF Receive, publisherVars, ChannelTypes
  <2>2. HistoryTypes'
    BY <1>13, <2>0 DEF Receive, publisherVars, HistoryTypes
  <2>3. CallTypes'
    BY <1>13 DEF Receive, publisherVars, CallTypes
  <2>4. QED
    BY <2>1, <2>2, <2>3
<1>14. ASSUME NEW s \in Subscriptions, ReceiveNone(s)
       PROVE  ChannelTypes' /\ HistoryTypes' /\ CallTypes'
  <2>1. ChannelTypes'
    BY <1>14 DEF ReceiveNone, publisherVars, ChannelTypes
  <2>2. HistoryTypes'
    BY <1>14 DEF ReceiveNone, publisherVars, HistoryTypes
  <2>3. CallTypes'
    BY <1>14 DEF ReceiveNone, publisherVars, CallTypes
  <2>4. QED
    BY <2>1, <2>2, <2>3
<1>15. ASSUME NEW s \in Subscriptions, CancelReceive(s)
       PROVE  ChannelTypes' /\ HistoryTypes' /\ CallTypes'
  <2>1. ChannelTypes'
    BY <1>15 DEF CancelReceive, publisherVars, ChannelTypes
  <2>2. HistoryTypes'
    BY <1>15 DEF CancelReceive, publisherVars, HistoryTypes
  <2>3. CallTypes'
    BY <1>15 DEF CancelReceive, publisherVars, CallTypes
  <2>4. QED
    BY <2>1, <2>2, <2>3
<1>16. ASSUME NEW s \in Subscriptions, Close(s)
       PROVE  ChannelTypes' /\ HistoryTypes' /\ CallTypes'
  <2>1. ChannelTypes'
    BY <1>16 DEF Close, publisherVars, ChannelTypes
  <2>2. HistoryTypes'
    BY <1>16 DEF Close, publisherVars, HistoryTypes
  <2>3. CallTypes'
    BY <1>16 DEF Close, publisherVars, CallTypes
  <2>4. QED
    BY <2>1, <2>2, <2>3
<1>17. ASSUME NEW s \in Subscriptions, DropSubscription(s)
       PROVE  ChannelTypes' /\ HistoryTypes' /\ CallTypes'
  <2>0. <<>> \in Seq(Messages) /\ Len(<<>>) = 0
    BY EmptySeq
  <2>1. ChannelTypes'
    BY <1>17, <2>0 DEF DropSubscription, publisherVars, ChannelTypes
  <2>2. HistoryTypes'
    BY <1>17 DEF DropSubscription, publisherVars, HistoryTypes
  <2>3. CallTypes'
    BY <1>17 DEF DropSubscription, publisherVars, CallTypes
  <2>4. QED
    BY <2>1, <2>2, <2>3
<1>18. ASSUME NEW s \in Subscriptions, Detach(s)
       PROVE  ChannelTypes' /\ HistoryTypes' /\ CallTypes'
  <2>1. ChannelTypes'
    BY <1>18 DEF Detach, publisherVars, ChannelTypes
  <2>2. HistoryTypes'
    BY <1>18 DEF Detach, publisherVars, HistoryTypes
  <2>3. CallTypes'
    BY <1>18 DEF Detach, publisherVars, CallTypes
  <2>4. QED
    BY <2>1, <2>2, <2>3
<1>19. CASE UNCHANGED vars
  <2>1. ChannelTypes'
    BY <1>19 DEF vars, publisherVars, consumerVars, ChannelTypes
  <2>2. HistoryTypes'
    BY <1>19 DEF vars, publisherVars, consumerVars, HistoryTypes
  <2>3. CallTypes'
    BY <1>19 DEF vars, publisherVars, consumerVars, CallTypes
  <2>4. QED
    BY <2>1, <2>2, <2>3
<1>20. QED
  BY NextSteps, <1>1, <1>2, <1>3, <1>4, <1>5, <1>6, <1>7, <1>8, <1>9, <1>10,
     <1>11, <1>12, <1>13, <1>14, <1>15, <1>16, <1>17, <1>18, <1>19

(* Every variable of the bus keeps its type, no queue outgrows its          *)
(* capacity and no count outgrows u64, whatever publishers and consumers do. *)
THEOREM BusTypes == Spec => []TypeOK
<1>1. QED
  BY TypeInit, TypeStep, PTL DEF Spec

---------------------------------------------------------------------------
(* The bound on late reports is inductive with the types.                   *)
LEMMA LagStep == TypeOK /\ LagInv /\ [Next]_vars => LagInv'
<1> DEFINE Kept(s) ==
      /\ consumer'[s] = "receiving" => ~afterLag'[s] /\ late'[s] = 0
      /\ late'[s] = 0 \/ (late'[s] = 1 /\ missed'[s] > 0 /\ ~afterLag'[s])
<1> SUFFICES ASSUME TypeOK, LagInv, [Next]_vars, NEW s \in Subscriptions
             PROVE  Kept(s)
  BY DEF LagInv
<1>0. /\ consumer[s] = "receiving" => ~afterLag[s] /\ late[s] = 0
      /\ late[s] = 0 \/ (late[s] = 1 /\ missed[s] > 0 /\ ~afterLag[s])
  BY DEF LagInv
<1>1. ASSUME UNCHANGED <<afterLag, late, missed>>,
             consumer'[s] = "receiving" => consumer[s] = "receiving"
      PROVE  Kept(s)
  BY <1>0, <1>1
<1>2. ASSUME NEW t \in Subscriptions, NEW f \in Filters, Subscribe(t, f)
      PROVE  Kept(s)
  BY <1>1, <1>2 DEF Subscribe, TypeOK
<1>3. ASSUME NEW p \in Publishers, NEW e \in Events, Publish(p, e)
      PROVE  Kept(s)
  BY <1>1, <1>3 DEF Publish, consumerVars, TypeOK
<1>4. ASSUME NEW p \in Publishers, NEW t \in Subscriptions,
             Skip(p, t) \/ SendClosed(p, t) \/ SendOk(p, t) \/ SendFull(p, t)
      PROVE  Kept(s)
  BY <1>1, <1>4 DEF Skip, SendClosed, SendOk, SendFull, Visit, consumerVars, TypeOK
<1>5. ASSUME NEW p \in Publishers, CountMiss(p)
      PROVE  Kept(s)
  <2>1. /\ UNCHANGED <<consumer, afterLag, late>>
        /\ missed[s] > 0 => missed'[s] > 0
    BY BusAssumption, <1>5 DEF CountMiss, AddMiss, consumerVars, TypeOK
  <2>2. QED
    BY <1>0, <2>1
<1>6. ASSUME NEW p \in Publishers, FinishLoop(p) \/ Cleanup(p)
      PROVE  Kept(s)
  BY <1>1, <1>6 DEF FinishLoop, Cleanup, consumerVars, TypeOK
<1>7. CASE EndBus
  BY <1>1, <1>7 DEF EndBus, consumerVars, TypeOK
<1>8. ASSUME NEW t \in Subscriptions, ReportLag(t)
      PROVE  Kept(s)
  <2>1. /\ UNCHANGED consumer
        /\ s = t => consumer[s] = "idle" /\ late'[s] = 0
        /\ s # t => /\ late'[s] = late[s]
                   /\ missed'[s] = missed[s]
                   /\ afterLag'[s] = afterLag[s]
    BY BusAssumption, <1>8 DEF ReportLag, TypeOK
  <2>2. QED
    BY <1>0, <2>1
<1>9. ASSUME NEW t \in Subscriptions, AwaitEvent(t)
      PROVE  Kept(s)
  <2>1. /\ UNCHANGED <<late, missed>>
        /\ s = t => ~afterLag'[s] /\ (afterLag[s] \/ missed[s] = 0)
        /\ s # t => consumer'[s] = consumer[s] /\ afterLag'[s] = afterLag[s]
    BY BusAssumption, <1>9 DEF AwaitEvent, TypeOK
  <2>2. QED
    BY <1>0, <2>1
<1>10. ASSUME NEW t \in Subscriptions, Receive(t)
       PROVE  Kept(s)
  <2>1. /\ UNCHANGED <<afterLag, missed>>
        /\ s = t => /\ consumer[s] = "receiving" /\ consumer'[s] = "idle"
                   /\ late'[s] = IF missed[s] > 0 THEN late[s] + 1 ELSE 0
        /\ s # t => consumer'[s] = consumer[s] /\ late'[s] = late[s]
    BY BusAssumption, <1>10 DEF Receive, TypeOK
  <2>2. QED
    BY <1>0, <2>1
<1>11. ASSUME NEW t \in Subscriptions,
             \/ ReceiveNone(t) \/ Detach(t) \/ CancelReceive(t)
             \/ Close(t) \/ DropSubscription(t)
       PROVE  Kept(s)
  BY <1>1, <1>11 DEF ReceiveNone, Detach, CancelReceive, Close, DropSubscription, TypeOK
<1>12. CASE UNCHANGED vars
  BY <1>1, <1>12 DEF vars, publisherVars, consumerVars, TypeOK
<1>13. QED
  BY NextSteps, <1>2, <1>3, <1>4, <1>5, <1>6, <1>7, <1>8, <1>9, <1>10, <1>11, <1>12

(* Of the events given over a counted miss there is at most one before the  *)
(* miss is reported, for every interleaving of publishers with the consumer *)
(* and every cancelled call of next_event.                                  *)
THEOREM LagIsReportedPromptly == Spec => []LagReportedPromptly
<1>1. Init => LagInv
  BY DEF Init, LagInv
<1>2. LagInv => LagReportedPromptly
  <2>1. QED
    BY DEF LagInv, LagReportedPromptly
<1>3. QED
  BY <1>1, <1>2, LagStep, BusTypes, PTL DEF Spec

---------------------------------------------------------------------------
(* That only a closed receiver loses its sender is inductive with the types. *)
LEMMA EndStep == TypeOK /\ EndInv /\ [Next]_vars => EndInv'
<1> SUFFICES ASSUME TypeOK, EndInv, [Next]_vars PROVE EndInv'
  OBVIOUS
<1> USE DEF TypeOK, EndInv, OpenIsRegistered, CleanupTakesClosed,
            NoneMeansBusEnded, ReceiverClosed
<1>1. ASSUME NEW t \in Subscriptions, NEW f \in Filters, Subscribe(t, f)
      PROVE  EndInv'
  BY <1>1 DEF Subscribe, publisherVars
<1>2. ASSUME NEW p \in Publishers, NEW e \in Events, Publish(p, e)
      PROVE  EndInv'
  BY <1>2 DEF Publish, consumerVars
<1>3. ASSUME NEW p \in Publishers, NEW t \in Subscriptions, Skip(p, t)
      PROVE  EndInv'
  BY <1>3 DEF Skip, Visit, consumerVars
<1>4. ASSUME NEW p \in Publishers, NEW t \in Subscriptions, SendClosed(p, t)
      PROVE  EndInv'
  BY <1>4 DEF SendClosed, Visit, consumerVars
<1>5. ASSUME NEW p \in Publishers, NEW t \in Subscriptions, SendOk(p, t)
      PROVE  EndInv'
  BY <1>5 DEF SendOk, Visit, consumerVars
<1>6. ASSUME NEW p \in Publishers, NEW t \in Subscriptions, SendFull(p, t)
      PROVE  EndInv'
  BY <1>6 DEF SendFull, Visit, consumerVars
<1>7. ASSUME NEW p \in Publishers, CountMiss(p)
      PROVE  EndInv'
  BY <1>7 DEF CountMiss, consumerVars
<1>8. ASSUME NEW p \in Publishers, FinishLoop(p)
      PROVE  EndInv'
  BY <1>8 DEF FinishLoop, consumerVars
<1>9. ASSUME NEW p \in Publishers, Cleanup(p)
      PROVE  EndInv'
  BY <1>9 DEF Cleanup, consumerVars
<1>10. CASE EndBus
  BY <1>10 DEF EndBus, publisherVars, consumerVars
<1>11. ASSUME NEW t \in Subscriptions, ReportLag(t)
       PROVE  EndInv'
  BY <1>11 DEF ReportLag, publisherVars
<1>12. ASSUME NEW t \in Subscriptions, AwaitEvent(t)
       PROVE  EndInv'
  BY <1>12 DEF AwaitEvent, publisherVars
<1>13. ASSUME NEW t \in Subscriptions, Receive(t)
       PROVE  EndInv'
  BY <1>13 DEF Receive, publisherVars
<1>14. ASSUME NEW t \in Subscriptions, ReceiveNone(t)
       PROVE  EndInv'
  BY <1>14 DEF ReceiveNone, publisherVars
<1>15. ASSUME NEW t \in Subscriptions, CancelReceive(t)
       PROVE  EndInv'
  BY <1>15 DEF CancelReceive, publisherVars
<1>16. ASSUME NEW t \in Subscriptions, Close(t)
       PROVE  EndInv'
  BY <1>16 DEF Close, publisherVars
<1>17. ASSUME NEW t \in Subscriptions, DropSubscription(t)
       PROVE  EndInv'
  BY <1>17 DEF DropSubscription, publisherVars
<1>18. ASSUME NEW t \in Subscriptions, Detach(t)
       PROVE  EndInv'
  BY <1>18, ZenonT(60) DEF Detach, publisherVars
<1>19. CASE UNCHANGED vars
  BY <1>19 DEF vars, publisherVars, consumerVars
<1>20. QED
  BY NextSteps, <1>1, <1>2, <1>3, <1>4, <1>5, <1>6, <1>7, <1>8, <1>9, <1>10,
     <1>11, <1>12, <1>13, <1>14, <1>15, <1>16, <1>17, <1>18, <1>19

(* next_event answers None only after the last handle of the bus is gone:   *)
(* neither the cleanup of a publish call nor the detach of another          *)
(* subscription takes the sender of an open one.                            *)
THEOREM NoneOnlyAtEnd == Spec => []NoneMeansBusEnded
<1>1. Init => EndInv
  BY DEF Init, EndInv, OpenIsRegistered, CleanupTakesClosed, NoneMeansBusEnded
<1>2. EndInv => NoneMeansBusEnded
  BY DEF EndInv
<1>3. QED
  BY <1>1, <1>2, EndStep, BusTypes, PTL DEF Spec

---------------------------------------------------------------------------
(* The publishers that have missed s and not counted it are finitely many.  *)
LEMMA MissesAreFinite ==
  ASSUME NEW s
  PROVE  IsFiniteSet(Misses(s)) /\ Cardinality(Misses(s)) \in Nat
<1>1. Misses(s) \in SUBSET Publishers
  BY DEF Misses
<1>2. IsFiniteSet(Misses(s))
  BY <1>1, BusAssumption, FS_Subset
<1>3. QED
  BY <1>2, FS_CardinalityType

(* What is queued, or moved from the queue to the consumer, is not lost.    *)
LEMMA LossIsShifted ==
  ASSUME NEW o \in Int, NEW d \in Int, NEW q \in Int
  PROVE  /\ (o + 1) - d - (q + 1) = o - d - q
         /\ o - (d + 1) - (q - 1) = o - d - q
OBVIOUS

(* The account of what was offered is inductive with the types.             *)
LEMMA AccountStep ==
  TypeOK /\ EveryOfferAccounted /\ [Next]_vars => EveryOfferAccounted'
<1> DEFINE Gone == {"dropping", "dropped"}
           Counted(s) == missed[s] + reported[s] + Cardinality(Misses(s))
           Lost(s) == offered[s] - Len(delivered[s]) - Len(queue[s])
           Balanced(s) == \/ Counted(s) = Lost(s)
                          \/ Counted(s) < Lost(s) /\ Counted(s) >= MaxMissed
<1> SUFFICES ASSUME TypeOK, EveryOfferAccounted, [Next]_vars,
                    NEW s \in Subscriptions, consumer'[s] \notin Gone
             PROVE  Balanced(s)'
  BY DEF EveryOfferAccounted
<1>1. consumer[s] \notin Gone => Balanced(s)
  BY DEF EveryOfferAccounted
<1>2. /\ missed[s] \in Int
      /\ reported[s] \in Int
      /\ Cardinality(Misses(s)) \in Int
      /\ offered[s] \in Int
      /\ Len(delivered[s]) \in Int
      /\ Len(queue[s]) \in Int
  BY BusAssumption, MissesAreFinite, LenProperties DEF TypeOK
<1>3. ASSUME UNCHANGED <<missed, reported, offered, delivered>>,
             queue'[s] = queue[s], Misses(s)' = Misses(s), consumer[s] \notin Gone
      PROVE  Balanced(s)'
  BY <1>1, <1>3
<1>4. ASSUME NEW t \in Subscriptions, NEW f \in Filters, Subscribe(t, f)
      PROVE  Balanced(s)'
  <2>1. /\ UNCHANGED <<missed, reported, offered, delivered>>
        /\ queue'[s] = queue[s] /\ consumer[s] \notin Gone
    BY <1>4 DEF Subscribe, publisherVars, TypeOK
  <2>2. Misses(s)' = Misses(s)
    BY <1>4 DEF Subscribe, publisherVars, TypeOK, Misses
  <2>3. QED
    BY <1>3, <2>1, <2>2
<1>5. ASSUME NEW p \in Publishers, NEW e \in Events, Publish(p, e)
      PROVE  Balanced(s)'
  <2>1. /\ UNCHANGED <<missed, reported, offered, delivered>>
        /\ queue'[s] = queue[s] /\ consumer[s] \notin Gone
    BY <1>5 DEF Publish, consumerVars, TypeOK
  <2>2. Misses(s)' = Misses(s)
    BY <1>5 DEF Publish, consumerVars, TypeOK, Misses
  <2>3. QED
    BY <1>3, <2>1, <2>2
<1>6. ASSUME NEW p \in Publishers, NEW t \in Subscriptions, Skip(p, t) \/ SendClosed(p, t)
      PROVE  Balanced(s)'
  <2>1. /\ UNCHANGED <<missed, reported, offered, delivered>>
        /\ queue'[s] = queue[s] /\ consumer[s] \notin Gone
    BY <1>6 DEF Skip, SendClosed, Visit, consumerVars, TypeOK
  <2>2. Misses(s)' = Misses(s)
    BY <1>6 DEF Skip, SendClosed, Visit, consumerVars, TypeOK, Misses
  <2>3. QED
    BY <1>3, <2>1, <2>2
<1>7. ASSUME NEW p \in Publishers, FinishLoop(p) \/ Cleanup(p)
      PROVE  Balanced(s)'
  <2>1. /\ UNCHANGED <<missed, reported, offered, delivered>>
        /\ queue'[s] = queue[s] /\ consumer[s] \notin Gone
    BY <1>7 DEF FinishLoop, Cleanup, consumerVars, TypeOK
  <2>2. Misses(s)' = Misses(s)
    BY <1>7 DEF FinishLoop, Cleanup, consumerVars, TypeOK, Misses
  <2>3. QED
    BY <1>3, <2>1, <2>2
<1>8. CASE EndBus
  <2>1. /\ UNCHANGED <<missed, reported, offered, delivered>>
        /\ queue'[s] = queue[s] /\ consumer[s] \notin Gone
    BY <1>8 DEF EndBus, publisherVars, consumerVars, TypeOK
  <2>2. Misses(s)' = Misses(s)
    BY <1>8 DEF EndBus, publisherVars, consumerVars, TypeOK, Misses
  <2>3. QED
    BY <1>3, <2>1, <2>2
<1>9. ASSUME NEW t \in Subscriptions,
             \/ AwaitEvent(t) \/ ReceiveNone(t) \/ CancelReceive(t)
             \/ Close(t) \/ Detach(t)
      PROVE  Balanced(s)'
  <2>1. /\ UNCHANGED <<missed, reported, offered, delivered>>
        /\ queue'[s] = queue[s] /\ consumer[s] \notin Gone
    BY <1>9 DEF AwaitEvent, ReceiveNone, CancelReceive, Close, Detach, publisherVars, TypeOK
  <2>2. Misses(s)' = Misses(s)
    BY <1>9 DEF AwaitEvent, ReceiveNone, CancelReceive, Close, Detach, publisherVars, TypeOK, Misses
  <2>3. QED
    BY <1>3, <2>1, <2>2
<1>10. ASSUME NEW t \in Subscriptions, DropSubscription(t)
       PROVE  Balanced(s)'
  <2>1. /\ UNCHANGED <<missed, reported, offered, delivered>>
        /\ queue'[s] = queue[s] /\ consumer[s] \notin Gone
    BY <1>10 DEF DropSubscription, publisherVars, TypeOK
  <2>2. Misses(s)' = Misses(s)
    BY <1>10 DEF DropSubscription, publisherVars, TypeOK, Misses
  <2>3. QED
    BY <1>3, <2>1, <2>2
<1>11. CASE UNCHANGED vars
  <2>1. /\ UNCHANGED <<missed, reported, offered, delivered>>
        /\ queue'[s] = queue[s] /\ consumer[s] \notin Gone
    BY <1>11 DEF vars, publisherVars, consumerVars, TypeOK
  <2>2. Misses(s)' = Misses(s)
    BY <1>11 DEF vars, publisherVars, consumerVars, TypeOK, Misses
  <2>3. QED
    BY <1>3, <2>1, <2>2
<1>12. ASSUME NEW p \in Publishers, NEW t \in Subscriptions, SendOk(p, t)
       PROVE  Balanced(s)'
  <2>1. /\ UNCHANGED <<missed, reported, delivered, consumer>>
        /\ s # t => offered'[s] = offered[s] /\ queue'[s] = queue[s]
        /\ s = t => /\ offered'[s] = offered[s] + 1
                   /\ Len(queue'[s]) = Len(queue[s]) + 1
    <3>1. message[p] \in Messages
      BY <1>12 DEF SendOk, Visit, TypeOK
    <3>2. QED
      BY <1>12, <3>1, AppendProperties DEF SendOk, Visit, TypeOK, consumerVars
  <2>2. Misses(s)' = Misses(s)
    BY <1>12 DEF SendOk, Visit, Misses
  <2>3. Counted(s)' = Counted(s) /\ consumer[s] \notin Gone
    BY <2>1, <2>2
  <2>4. Lost(s)' = Lost(s)
    <3>1. CASE s # t
      BY <2>1, <3>1
    <3>2. CASE s = t
      <4>1. Lost(s)' = (offered[s] + 1) - Len(delivered[s]) - (Len(queue[s]) + 1)
        BY <2>1, <3>2
      <4>2. QED
        BY <1>2, <4>1, LossIsShifted, ZenonT(60)
    <3>3. QED
      BY <3>1, <3>2
  <2>5. QED
    BY <1>1, <2>3, <2>4
<1>13. ASSUME NEW p \in Publishers, NEW t \in Subscriptions, SendFull(p, t)
       PROVE  Balanced(s)'
  <2>1. /\ UNCHANGED <<missed, reported, delivered, consumer, queue>>
        /\ s # t => offered'[s] = offered[s]
        /\ s = t => offered'[s] = offered[s] + 1
    BY <1>13 DEF SendFull, Visit, TypeOK, consumerVars
  <2>2. CASE s # t
    <3>1. Misses(s)' = Misses(s)
      BY <1>13, <2>2 DEF SendFull, Visit, TypeOK, Misses
    <3>2. QED
      BY <1>1, <1>2, <2>1, <2>2, <3>1
  <2>3. CASE s = t
    <3>1. Misses(s)' = Misses(s) \cup {p} /\ p \notin Misses(s)
      BY <1>13, <2>3 DEF SendFull, Visit, TypeOK, Misses
    <3>2. Cardinality(Misses(s)') = Cardinality(Misses(s)) + 1
      BY <3>1, MissesAreFinite, FS_AddElement
    <3>3. Counted(s)' = Counted(s) + 1
      BY <1>2, <2>1, <3>2
    <3>6. Lost(s)' = Lost(s) + 1
      BY <1>2, <2>1, <2>3, SMTT(30)
    <3>4. Counted(s) \in Int /\ Lost(s) \in Int /\ consumer[s] \notin Gone
      BY <1>2, <2>1
    <3> HIDE DEF Counted, Lost
    <3>5. QED
      BY <1>1, BusAssumption, <3>3, <3>4, <3>6
  <2>4. QED
    BY <2>2, <2>3
<1>14. ASSUME NEW p \in Publishers, CountMiss(p)
       PROVE  Balanced(s)'
  <2>0. missed[s] \in 0..MaxMissed /\ reported[s] \in Nat
    BY DEF TypeOK
  <2>1. /\ UNCHANGED <<reported, delivered, consumer, queue, offered>>
        /\ full[p] \in Subscriptions
        /\ s # full[p] => missed'[s] = missed[s]
        /\ s = full[p] => missed'[s] = AddMiss(missed[s])
    BY <1>14 DEF CountMiss, TypeOK, consumerVars
  <2>2. CASE s # full[p]
    <3>1. Misses(s)' = Misses(s)
      BY <1>14, <2>2 DEF CountMiss, TypeOK, Misses
    <3>2. QED
      BY <1>1, <1>2, <2>1, <2>2, <3>1
  <2>3. CASE s = full[p]
    <3>1. Misses(s)' = Misses(s) \ {p} /\ p \in Misses(s)
      BY <1>14, <2>3 DEF CountMiss, TypeOK, Misses
    <3>2. Cardinality(Misses(s)') = Cardinality(Misses(s)) - 1
      BY <3>1, MissesAreFinite, FS_RemoveElement
    <3>3. Cardinality(Misses(s)') \in Nat
      BY <3>1, MissesAreFinite, FS_RemoveElement, FS_CardinalityType
    <3>4. \/ Counted(s)' = Counted(s)
          \/ Counted(s)' = Counted(s) - 1 /\ Counted(s)' >= MaxMissed
      BY BusAssumption, <1>2, <2>0, <2>1, <2>3, <3>2, <3>3 DEF AddMiss
    <3>5. /\ Lost(s)' = Lost(s) /\ consumer[s] \notin Gone
          /\ Counted(s) \in Int /\ Lost(s) \in Int
      BY <1>2, <2>1
    <3> HIDE DEF Counted, Lost
    <3>6. QED
      BY <1>1, BusAssumption, <3>4, <3>5
  <2>4. QED
    BY <2>2, <2>3
<1>15. ASSUME NEW t \in Subscriptions, ReportLag(t)
       PROVE  Balanced(s)'
  <2>1. /\ UNCHANGED <<delivered, consumer, queue, offered>>
        /\ s # t => missed'[s] = missed[s] /\ reported'[s] = reported[s]
        /\ s = t => missed'[s] = 0 /\ reported'[s] = reported[s] + missed[s]
    BY <1>15 DEF ReportLag, TypeOK
  <2>2. Misses(s)' = Misses(s)
    BY <1>15 DEF ReportLag, Misses, publisherVars
  <2>3. QED
    BY <1>1, <1>2, <2>1, <2>2
<1>16. ASSUME NEW t \in Subscriptions, Receive(t)
       PROVE  Balanced(s)'
  <2>1. /\ UNCHANGED <<missed, reported, offered>>
        /\ consumer[s] \notin Gone
        /\ s # t => delivered'[s] = delivered[s] /\ queue'[s] = queue[s]
        /\ s = t => /\ Len(delivered'[s]) = Len(delivered[s]) + 1
                   /\ Len(queue'[s]) = Len(queue[s]) - 1
    <3>1. queue[t] # <<>> /\ queue[t] \in Seq(Messages) /\ delivered[t] \in Seq(Messages)
      BY <1>16 DEF Receive, TypeOK
    <3>2. Head(queue[t]) \in Messages /\ Len(Tail(queue[t])) = Len(queue[t]) - 1
      BY <3>1, HeadTailProperties
    <3>3. Len(Append(delivered[t], Head(queue[t]))) = Len(delivered[t]) + 1
      BY <3>1, <3>2, AppendProperties
    <3>4. QED
      BY <1>16, <3>2, <3>3 DEF Receive, TypeOK
  <2>2. Misses(s)' = Misses(s)
    BY <1>16 DEF Receive, Misses, publisherVars
  <2>3. Counted(s)' = Counted(s)
    BY <2>1, <2>2
  <2>4. Lost(s)' = Lost(s)
    <3>1. CASE s # t
      BY <2>1, <3>1
    <3>2. CASE s = t
      <4>1. Lost(s)' = offered[s] - (Len(delivered[s]) + 1) - (Len(queue[s]) - 1)
        BY <2>1, <3>2
      <4>2. QED
        BY <1>2, <4>1, LossIsShifted, ZenonT(60)
    <3>3. QED
      BY <3>1, <3>2
  <2>5. QED
    BY <1>1, <2>1, <2>3, <2>4
<1>17. QED
  BY NextSteps, <1>4, <1>5, <1>6, <1>7, <1>8, <1>9, <1>10, <1>11, <1>12, <1>13, <1>14, <1>15, <1>16

(* No event is lost without trace: for any number of publishers, capacity   *)
(* and ceiling of the count, what publish offered is delivered, queued,     *)
(* reported, counted, or about to be counted by a publisher that found the  *)
(* queue full; only a saturated count says less.                            *)
THEOREM OffersAreAccounted == Spec => []EveryOfferAccounted
<1>1. Init => EveryOfferAccounted
  <2> SUFFICES ASSUME Init, NEW s \in Subscriptions
               PROVE  missed[s] + reported[s] + Cardinality(Misses(s))
                        = offered[s] - Len(delivered[s]) - Len(queue[s])
    BY DEF EveryOfferAccounted
  <2>1. Misses(s) = {}
    BY DEF Init, Misses
  <2>2. QED
    BY <2>1, FS_EmptySet, EmptySeq DEF Init
<1>2. QED
  BY <1>1, AccountStep, BusTypes, PTL DEF Spec

---------------------------------------------------------------------------
(* The stream of a subscription is a sequence of messages.                  *)
LEMMA StreamTypes ==
  ASSUME TypeOK, NEW s \in Subscriptions
  PROVE  /\ Stream(s) \in Seq(Messages)
         /\ Len(Stream(s)) \in Nat
         /\ DOMAIN Stream(s) = 1..Len(Stream(s))
         /\ \A i \in 1..Len(Stream(s)) :
              /\ Stream(s)[i] \in Messages
              /\ Stream(s)[i].from \in Publishers
              /\ Stream(s)[i].number \in Nat
<1>1. delivered[s] \in Seq(Messages) /\ queue[s] \in Seq(Messages)
  BY DEF TypeOK
<1>2. Stream(s) \in Seq(Messages)
  BY <1>1, ConcatProperties DEF Stream
<1>3. \A i \in 1..Len(Stream(s)) : Stream(s)[i] \in Messages
  BY <1>2, ElementOfSeq
<1>4. QED
  BY <1>2, <1>3, LenProperties DEF Messages

(* Taking the head of the queue leaves the stream as it is.                 *)
LEMMA MovedHead ==
  ASSUME NEW S, NEW d \in Seq(S), NEW q \in Seq(S), q # <<>>
  PROVE  Append(d, Head(q)) \o Tail(q) = d \o q
<1>1. /\ Head(q) \in S /\ Head(q) = q[1]
      /\ Tail(q) \in Seq(S)
      /\ Len(Tail(q)) = Len(q) - 1
      /\ \A i \in 1..Len(Tail(q)) : Tail(q)[i] = q[i + 1]
  BY HeadTailProperties
<1>2. /\ Append(d, Head(q)) \in Seq(S)
      /\ Len(Append(d, Head(q))) = Len(d) + 1
      /\ \A i \in 1..Len(d) : Append(d, Head(q))[i] = d[i]
      /\ Append(d, Head(q))[Len(d) + 1] = Head(q)
  BY <1>1, AppendProperties
<1>3. Len(d) \in Nat /\ Len(q) \in Nat \ {0}
  BY LenProperties, EmptySeq
<1> DEFINE l == Append(d, Head(q)) \o Tail(q)
           r == d \o q
<1>4. /\ l \in Seq(S) /\ Len(l) = Len(d) + Len(q)
      /\ r \in Seq(S) /\ Len(r) = Len(d) + Len(q)
  BY <1>1, <1>2, <1>3, ConcatProperties
<1>5. ASSUME NEW i \in 1..(Len(d) + Len(q))
      PROVE  l[i] = r[i]
  <2>1. r[i] = IF i <= Len(d) THEN d[i] ELSE q[i - Len(d)]
    BY <1>5, ConcatProperties
  <2>2. l[i] = IF i <= Len(d) + 1 THEN Append(d, Head(q))[i]
               ELSE Tail(q)[i - (Len(d) + 1)]
    BY <1>5, <1>1, <1>2, <1>3, ConcatProperties
  <2>3. CASE i <= Len(d)
    BY <2>1, <2>2, <2>3, <1>2, <1>3
  <2>4. CASE i = Len(d) + 1
    BY <2>1, <2>2, <2>4, <1>1, <1>2, <1>3
  <2>5. CASE i > Len(d) + 1
    <3>1. i - (Len(d) + 1) \in 1..Len(Tail(q)) /\ i - (Len(d) + 1) + 1 = i - Len(d)
      BY <2>5, <1>1, <1>3
    <3>2. l[i] = Tail(q)[i - (Len(d) + 1)] /\ r[i] = q[i - Len(d)]
      BY <2>1, <2>2, <2>5, <1>3
    <3>3. QED
      BY <3>1, <3>2, <1>1
  <2>6. QED
    BY <2>3, <2>4, <2>5, <1>3
<1>6. QED
  BY <1>4, <1>5, SeqEqual

(* Appending to the queue appends to the stream.                            *)
LEMMA AppendedToQueue ==
  ASSUME NEW S, NEW d \in Seq(S), NEW q \in Seq(S), NEW m \in S
  PROVE  /\ Len(d \o Append(q, m)) = Len(d \o q) + 1
         /\ \A i \in 1..Len(d \o q) : (d \o Append(q, m))[i] = (d \o q)[i]
         /\ (d \o Append(q, m))[Len(d \o q) + 1] = m
<1>1. /\ Append(q, m) \in Seq(S)
      /\ Len(Append(q, m)) = Len(q) + 1
      /\ \A i \in 1..Len(q) : Append(q, m)[i] = q[i]
      /\ Append(q, m)[Len(q) + 1] = m
  BY AppendProperties
<1>2. Len(d) \in Nat /\ Len(q) \in Nat
  BY LenProperties
<1>3. /\ Len(d \o q) = Len(d) + Len(q)
      /\ \A i \in 1..(Len(d) + Len(q)) :
           (d \o q)[i] = IF i <= Len(d) THEN d[i] ELSE q[i - Len(d)]
  BY ConcatProperties
<1>4. /\ Len(d \o Append(q, m)) = Len(d) + (Len(q) + 1)
      /\ \A i \in 1..(Len(d) + (Len(q) + 1)) :
           (d \o Append(q, m))[i] = IF i <= Len(d) THEN d[i]
                                   ELSE Append(q, m)[i - Len(d)]
  BY <1>1, ConcatProperties
<1>5. ASSUME NEW i \in 1..(Len(d) + Len(q))
      PROVE  (d \o Append(q, m))[i] = (d \o q)[i]
  <2>1. CASE i <= Len(d)
    BY <1>2, <1>3, <1>4, <2>1
  <2>2. CASE i > Len(d)
    <3>1. i - Len(d) \in 1..Len(q)
      BY <1>2, <2>2
    <3>2. (d \o Append(q, m))[i] = Append(q, m)[i - Len(d)] /\ (d \o q)[i] = q[i - Len(d)]
      BY <1>2, <1>3, <1>4, <2>2
    <3>3. QED
      BY <1>1, <3>1, <3>2
  <2>3. QED
    BY <1>2, <2>1, <2>2
<1>6. (d \o Append(q, m))[Len(d) + Len(q) + 1] = m
  <2>1. /\ Len(d) + Len(q) + 1 \in 1..(Len(d) + (Len(q) + 1))
        /\ ~(Len(d) + Len(q) + 1 <= Len(d))
        /\ Len(d) + Len(q) + 1 - Len(d) = Len(q) + 1
    BY <1>2
  <2>2. QED
    BY <1>1, <1>4, <2>1
<1>7. QED
  BY <1>2, <1>3, <1>4, <1>5, <1>6

(* The numbers of the calls and the emptiness of subscriptions to come are  *)
(* kept by every step.                                                      *)
LEMMA CallStep ==
  TypeOK /\ CallsCarryNumbers /\ FreshIsEmpty /\ [Next]_vars
    => CallsCarryNumbers' /\ FreshIsEmpty'
<1> SUFFICES ASSUME TypeOK, CallsCarryNumbers, FreshIsEmpty, [Next]_vars
             PROVE  CallsCarryNumbers' /\ FreshIsEmpty'
  OBVIOUS
<1> USE DEF TypeOK, CallsCarryNumbers, FreshIsEmpty
<1>1. ASSUME NEW t \in Subscriptions, NEW f \in Filters, Subscribe(t, f)
      PROVE  CallsCarryNumbers' /\ FreshIsEmpty'
  BY <1>1 DEF Subscribe, publisherVars
<1>2. ASSUME NEW p \in Publishers, NEW e \in Events, Publish(p, e)
      PROVE  CallsCarryNumbers' /\ FreshIsEmpty'
  BY <1>2 DEF Publish, consumerVars
<1>3. ASSUME NEW p \in Publishers, NEW t \in Subscriptions, Skip(p, t)
      PROVE  CallsCarryNumbers' /\ FreshIsEmpty'
  BY <1>3 DEF Skip, Visit, consumerVars
<1>4. ASSUME NEW p \in Publishers, NEW t \in Subscriptions, SendClosed(p, t)
      PROVE  CallsCarryNumbers' /\ FreshIsEmpty'
  BY <1>4 DEF SendClosed, Visit, consumerVars
<1>5. ASSUME NEW p \in Publishers, NEW t \in Subscriptions, SendOk(p, t)
      PROVE  CallsCarryNumbers' /\ FreshIsEmpty'
  BY <1>5 DEF SendOk, Visit, consumerVars
<1>6. ASSUME NEW p \in Publishers, NEW t \in Subscriptions, SendFull(p, t)
      PROVE  CallsCarryNumbers' /\ FreshIsEmpty'
  BY <1>6 DEF SendFull, Visit, consumerVars
<1>7. ASSUME NEW p \in Publishers, CountMiss(p)
      PROVE  CallsCarryNumbers' /\ FreshIsEmpty'
  BY <1>7 DEF CountMiss, consumerVars
<1>8. ASSUME NEW p \in Publishers, FinishLoop(p)
      PROVE  CallsCarryNumbers' /\ FreshIsEmpty'
  BY <1>8 DEF FinishLoop, consumerVars
<1>9. ASSUME NEW p \in Publishers, Cleanup(p)
      PROVE  CallsCarryNumbers' /\ FreshIsEmpty'
  BY <1>9 DEF Cleanup, consumerVars
<1>10. CASE EndBus
  BY <1>10 DEF EndBus, publisherVars, consumerVars
<1>11. ASSUME NEW t \in Subscriptions, ReportLag(t)
       PROVE  CallsCarryNumbers' /\ FreshIsEmpty'
  BY <1>11 DEF ReportLag, publisherVars
<1>12. ASSUME NEW t \in Subscriptions, AwaitEvent(t)
       PROVE  CallsCarryNumbers' /\ FreshIsEmpty'
  BY <1>12 DEF AwaitEvent, publisherVars
<1>13. ASSUME NEW t \in Subscriptions, Receive(t)
       PROVE  CallsCarryNumbers' /\ FreshIsEmpty'
  BY <1>13 DEF Receive, publisherVars
<1>14. ASSUME NEW t \in Subscriptions, ReceiveNone(t)
       PROVE  CallsCarryNumbers' /\ FreshIsEmpty'
  BY <1>14 DEF ReceiveNone, publisherVars
<1>15. ASSUME NEW t \in Subscriptions, CancelReceive(t)
       PROVE  CallsCarryNumbers' /\ FreshIsEmpty'
  BY <1>15 DEF CancelReceive, publisherVars
<1>16. ASSUME NEW t \in Subscriptions, Close(t)
       PROVE  CallsCarryNumbers' /\ FreshIsEmpty'
  BY <1>16 DEF Close, publisherVars
<1>17. ASSUME NEW t \in Subscriptions, DropSubscription(t)
       PROVE  CallsCarryNumbers' /\ FreshIsEmpty'
  BY <1>17 DEF DropSubscription, publisherVars
<1>18. ASSUME NEW t \in Subscriptions, Detach(t)
       PROVE  CallsCarryNumbers' /\ FreshIsEmpty'
  BY <1>18 DEF Detach, publisherVars
<1>19. CASE UNCHANGED vars
  BY <1>19 DEF vars, publisherVars, consumerVars
<1>20. QED
  BY NextSteps, <1>1, <1>2, <1>3, <1>4, <1>5, <1>6, <1>7, <1>8, <1>9, <1>10,
     <1>11, <1>12, <1>13, <1>14, <1>15, <1>16, <1>17, <1>18, <1>19

(* The order of a stream is kept by every step.                             *)
LEMMA StreamStep ==
  TypeOK /\ TypeOK' /\ OrderInv /\ [Next]_vars => NumbersAreOld' /\ StreamOrder'
<1> DEFINE Old(s, i) == LET m == Stream(s)[i]
                        IN  /\ m.number <= calls[m.from]
                            /\ s \in todo[m.from] => m.number < calls[m.from]
           InOrder(s, i) == \A j \in 1..(i - 1) :
                              Stream(s)[j].from = Stream(s)[i].from
                                => Stream(s)[j].number < Stream(s)[i].number
           Good(s, i) == /\ Old(s, i)
                         /\ Matches(filter[s], Stream(s)[i].event)
                         /\ InOrder(s, i)
<1> SUFFICES ASSUME TypeOK, TypeOK', OrderInv, [Next]_vars,
                    NEW s \in Subscriptions, NEW i \in 1..Len(Stream(s)')
             PROVE  Good(s, i)'
  BY DEF NumbersAreOld, StreamOrder
<1>1. \A k \in 1..Len(Stream(s)) : Good(s, k)
  BY DEF OrderInv, NumbersAreOld, StreamOrder
<1>2. /\ \A k \in 1..Len(Stream(s)) : Stream(s)[k].from \in Publishers
      /\ Len(Stream(s)) \in Nat
  BY StreamTypes
<1>3. ASSUME i \in 1..Len(Stream(s)),
             \A k \in 1..Len(Stream(s)) : Stream(s)'[k] = Stream(s)[k],
             filter'[s] = filter[s], UNCHANGED calls,
             \A p \in Publishers : s \in todo'[p] => s \in todo[p]
      PROVE  Good(s, i)'
  <2>1. /\ Stream(s)'[i] = Stream(s)[i]
        /\ Stream(s)[i].from \in Publishers
        /\ \A j \in 1..(i - 1) : Stream(s)'[j] = Stream(s)[j]
    BY <1>2, <1>3
  <2>2. Good(s, i)
    BY <1>1, <1>3
  <2>3. Old(s, i)'
    BY <1>3, <2>1, <2>2
  <2>4. Matches(filter[s], Stream(s)[i].event)'
    BY <1>3, <2>1, <2>2
  <2>5. InOrder(s, i)'
    BY <2>1, <2>2
  <2>6. QED
    BY <2>3, <2>4, <2>5
<1>4. ASSUME NEW p \in Publishers, NEW t \in Subscriptions,
             Skip(p, t) \/ SendClosed(p, t) \/ SendFull(p, t)
      PROVE  Good(s, i)'
  <2>0. Visit(p, t) /\ UNCHANGED queue
    BY <1>4 DEF Skip, SendClosed, SendFull
  <2>1. /\ UNCHANGED <<delivered, queue, filter, calls>>
        /\ \A q \in Publishers : todo'[q] \subseteq todo[q]
    BY <2>0 DEF Visit, consumerVars, TypeOK
  <2>2. Stream(s)' = Stream(s)
    BY <2>1 DEF Stream
  <2>3. QED
    BY <1>3, <2>1, <2>2
<1>5. ASSUME NEW p \in Publishers, CountMiss(p) \/ FinishLoop(p) \/ Cleanup(p)
      PROVE  Good(s, i)'
  <2>1. /\ UNCHANGED <<delivered, queue, filter, calls>>
        /\ \A q \in Publishers : todo'[q] \subseteq todo[q]
    BY <1>5 DEF CountMiss, FinishLoop, Cleanup, consumerVars, TypeOK
  <2>2. Stream(s)' = Stream(s)
    BY <2>1 DEF Stream
  <2>3. QED
    BY <1>3, <2>1, <2>2
<1>6. CASE EndBus
  <2>1. /\ UNCHANGED <<delivered, queue, filter, calls>>
        /\ \A q \in Publishers : todo'[q] \subseteq todo[q]
    BY <1>6 DEF EndBus, publisherVars, consumerVars, TypeOK
  <2>2. Stream(s)' = Stream(s)
    BY <2>1 DEF Stream
  <2>3. QED
    BY <1>3, <2>1, <2>2
<1>7. ASSUME NEW t \in Subscriptions,
             ReportLag(t) \/ AwaitEvent(t) \/ ReceiveNone(t)
      PROVE  Good(s, i)'
  <2>1. /\ UNCHANGED <<delivered, queue, filter, calls>>
        /\ \A q \in Publishers : todo'[q] \subseteq todo[q]
    BY <1>7 DEF ReportLag, AwaitEvent, ReceiveNone, publisherVars, TypeOK
  <2>2. Stream(s)' = Stream(s)
    BY <2>1 DEF Stream
  <2>3. QED
    BY <1>3, <2>1, <2>2
<1>8. ASSUME NEW t \in Subscriptions, CancelReceive(t) \/ Close(t) \/ Detach(t)
      PROVE  Good(s, i)'
  <2>1. /\ UNCHANGED <<delivered, queue, filter, calls>>
        /\ \A q \in Publishers : todo'[q] \subseteq todo[q]
    BY <1>8 DEF CancelReceive, Close, Detach, publisherVars, TypeOK
  <2>2. Stream(s)' = Stream(s)
    BY <2>1 DEF Stream
  <2>3. QED
    BY <1>3, <2>1, <2>2
<1>9. CASE UNCHANGED vars
  <2>1. /\ UNCHANGED <<delivered, queue, filter, calls>>
        /\ \A q \in Publishers : todo'[q] \subseteq todo[q]
    BY <1>9 DEF vars, publisherVars, consumerVars, TypeOK
  <2>2. Stream(s)' = Stream(s)
    BY <2>1 DEF Stream
  <2>3. QED
    BY <1>3, <2>1, <2>2
<1>10. ASSUME NEW t \in Subscriptions, Receive(t)
       PROVE  Good(s, i)'
  <2>1. /\ UNCHANGED <<filter, calls, todo>>
        /\ queue[t] \in Seq(Messages) /\ queue[t] # <<>> /\ delivered[t] \in Seq(Messages)
        /\ s # t => delivered'[s] = delivered[s] /\ queue'[s] = queue[s]
        /\ s = t => /\ delivered'[s] = Append(delivered[s], Head(queue[s]))
                   /\ queue'[s] = Tail(queue[s])
    BY <1>10 DEF Receive, publisherVars, TypeOK
  <2>2. Stream(s)' = Stream(s)
    <3>1. CASE s # t
      BY <2>1, <3>1 DEF Stream
    <3>2. CASE s = t
      <4>1. Append(delivered[s], Head(queue[s])) \o Tail(queue[s]) = delivered[s] \o queue[s]
        BY <2>1, <3>2, MovedHead
      <4>2. QED
        BY <2>1, <3>2, <4>1 DEF Stream
    <3>3. QED
      BY <3>1, <3>2
  <2>3. QED
    BY <1>3, <2>1, <2>2
<1>11. ASSUME NEW t \in Subscriptions, DropSubscription(t)
       PROVE  Good(s, i)'
  <2>1. /\ UNCHANGED <<delivered, filter, calls, todo>>
        /\ queue'[s] = queue[s] \/ queue'[s] = <<>>
        /\ delivered[s] \in Seq(Messages) /\ queue[s] \in Seq(Messages)
    BY <1>11 DEF DropSubscription, publisherVars, TypeOK
  <2>2. CASE queue'[s] = queue[s]
    <3>1. Stream(s)' = Stream(s)
      BY <2>1, <2>2 DEF Stream
    <3>2. QED
      BY <1>3, <2>1, <3>1
  <2>3. CASE queue'[s] = <<>>
    <3>1. Stream(s)' = delivered[s]
      BY <2>1, <2>3, ConcatEmptySeq DEF Stream
    <3> DEFINE a == Len(delivered[s])
               b == Len(queue[s])
    <3>2. /\ Len(Stream(s)) = a + b
          /\ \A k \in 1..(a + b) : Stream(s)[k] =
               IF k <= a THEN delivered[s][k] ELSE queue[s][k - a]
      BY <2>1, ConcatProperties DEF Stream
    <3>3. /\ i \in 1..Len(Stream(s))
          /\ \A k \in 1..i : Stream(s)'[k] = Stream(s)[k]
      <4>1. a \in Nat /\ b \in Nat /\ i \in 1..a
        BY <2>1, <3>1, LenProperties
      <4> HIDE DEF a, b
      <4>2. i \in 1..(a + b) /\ \A k \in 1..i : k \in 1..(a + b) /\ k <= a
        BY <4>1
      <4>3. QED
        BY <3>1, <3>2, <4>2
    <3>4. Good(s, i)
      BY <1>1, <3>3
    <3>5. /\ Stream(s)'[i] = Stream(s)[i]
          /\ \A j \in 1..(i - 1) : Stream(s)'[j] = Stream(s)[j]
      BY <3>3
    <3>6. Old(s, i)'
      BY <2>1, <3>4, <3>5
    <3>7. Matches(filter[s], Stream(s)[i].event)'
      BY <2>1, <3>4, <3>5
    <3>8. InOrder(s, i)'
      BY <3>4, <3>5
    <3>9. QED
      BY <3>6, <3>7, <3>8
  <2>4. QED
    BY <2>1, <2>2, <2>3
<1>12. ASSUME NEW t \in Subscriptions, NEW f \in Filters, Subscribe(t, f)
       PROVE  Good(s, i)'
  <2>1. /\ UNCHANGED <<delivered, queue, calls, todo>>
        /\ s # t => filter'[s] = filter[s]
        /\ s = t => consumer[s] = "none"
    BY <1>12 DEF Subscribe, publisherVars, TypeOK
  <2>2. Stream(s)' = Stream(s)
    BY <2>1 DEF Stream
  <2>3. s # t
    <3>1. SUFFICES ASSUME s = t PROVE FALSE
      OBVIOUS
    <3>2. delivered[s] = <<>> /\ queue[s] = <<>>
      BY <2>1, <3>1 DEF OrderInv, FreshIsEmpty
    <3>3. Len(Stream(s)) = 0
      BY <3>2, EmptySeq, ConcatProperties DEF Stream
    <3>4. QED
      BY <2>2, <3>3
  <2>4. QED
    BY <1>3, <2>1, <2>2, <2>3
<1>13. ASSUME NEW p \in Publishers, NEW e \in Events, Publish(p, e)
       PROVE  Good(s, i)'
  <2>1. /\ UNCHANGED <<delivered, queue, filter>>
        /\ calls'[p] = calls[p] + 1
        /\ \A q \in Publishers : calls[q] \in Nat
        /\ \A q \in Publishers : q # p => calls'[q] = calls[q] /\ todo'[q] = todo[q]
    BY BusAssumption, <1>13 DEF Publish, consumerVars, TypeOK
  <2>2. Stream(s)' = Stream(s)
    BY <2>1 DEF Stream
  <2>3. i \in 1..Len(Stream(s)) /\ Good(s, i)
    BY <1>1, <2>2
  <2>4. Stream(s)[i].from \in Publishers /\ Stream(s)[i].number \in Nat
    BY <2>3, StreamTypes
  <2>5. Old(s, i)'
    <3>1. CASE Stream(s)[i].from = p
      BY <2>1, <2>2, <2>3, <2>4, <3>1
    <3>2. CASE Stream(s)[i].from # p
      BY <2>1, <2>2, <2>3, <2>4, <3>2
    <3>3. QED
      BY <3>1, <3>2
  <2>6. Matches(filter[s], Stream(s)[i].event)' /\ InOrder(s, i)'
    BY <2>1, <2>2, <2>3
  <2>7. QED
    BY <2>5, <2>6
<1>14. ASSUME NEW p \in Publishers, NEW t \in Subscriptions, SendOk(p, t)
       PROVE  Good(s, i)'
  <2>1. /\ UNCHANGED <<delivered, filter, calls>>
        /\ \A q \in Publishers : todo'[q] \subseteq todo[q]
        /\ t \in todo[p] /\ t \notin todo'[p]
        /\ message[p] \in Messages /\ Matches(filter[t], message[p].event)
        /\ publisher[p] = "sending"
        /\ s # t => queue'[s] = queue[s]
        /\ s = t => queue'[s] = Append(queue[s], message[p])
        /\ delivered[s] \in Seq(Messages) /\ queue[s] \in Seq(Messages)
    BY <1>14, SMTT(30) DEF SendOk, Visit, consumerVars, TypeOK
  <2>2. CASE s # t
    <3>1. Stream(s)' = Stream(s)
      BY <2>1, <2>2 DEF Stream
    <3>2. QED
      BY <1>3, <2>1, <3>1
  <2>3. CASE s = t
    <3>1. /\ Len(Stream(s)') = Len(Stream(s)) + 1
          /\ \A k \in 1..Len(Stream(s)) : Stream(s)'[k] = Stream(s)[k]
          /\ Stream(s)'[Len(Stream(s)) + 1] = message[p]
      <4>1. Stream(s)' = delivered[s] \o Append(queue[s], message[p])
        BY <2>1, <2>3 DEF Stream
      <4>2. Stream(s) = delivered[s] \o queue[s]
        BY DEF Stream
      <4> DEFINE d == delivered[s]
                 q == queue[s]
                 m == message[p]
      <4>3. d \in Seq(Messages) /\ q \in Seq(Messages) /\ m \in Messages
        BY <2>1
      <4>4. /\ Len(d \o Append(q, m)) = Len(d \o q) + 1
            /\ \A k \in 1..Len(d \o q) : (d \o Append(q, m))[k] = (d \o q)[k]
            /\ (d \o Append(q, m))[Len(d \o q) + 1] = m
        <5> HIDE DEF d, q, m
        <5>1. QED
          BY <4>3, AppendedToQueue
      <4>5. QED
        BY <4>1, <4>2, <4>4
    <3>2. CASE i \in 1..Len(Stream(s))
      BY <1>3, <2>1, <3>1, <3>2
    <3>3. CASE i = Len(Stream(s)) + 1
      <4>1. /\ Stream(s)'[i] = message[p]
            /\ message[p].from = p /\ message[p].number = calls[p]
            /\ calls[p] \in Nat
        BY BusAssumption, <2>1, <3>1, <3>3 DEF OrderInv, CallsCarryNumbers, TypeOK
      <4>2. Old(s, i)'
        BY <2>1, <2>3, <4>1
      <4>3. Matches(filter[s], Stream(s)[i].event)'
        BY <2>1, <2>3, <4>1
      <4>4. InOrder(s, i)'
        <5> SUFFICES ASSUME NEW j \in 1..(i - 1), Stream(s)'[j].from = p
                     PROVE  Stream(s)'[j].number < calls[p]
          BY <4>1
        <5>1. j \in 1..Len(Stream(s)) /\ Stream(s)'[j] = Stream(s)[j]
          BY <1>2, <3>1, <3>3
        <5>2. Old(s, j)
          BY <1>1, <5>1
        <5>3. QED
          BY <2>1, <2>3, <5>1, <5>2
      <4>5. QED
        BY <4>2, <4>3, <4>4
    <3>4. QED
      BY <1>2, <3>1, <3>2, <3>3
  <2>4. QED
    BY <2>2, <2>3
<1>15. QED
  BY NextSteps, <1>4, <1>5, <1>6, <1>7, <1>8, <1>9, <1>10, <1>11, <1>12, <1>13, <1>14

(* What a subscription receives from one publisher comes in the order of    *)
(* its calls, once each, and matches the filter, for any number of          *)
(* concurrent publishers and whatever is missed in between.                 *)
THEOREM StreamsAreOrdered == Spec => []PublisherOrder
<1>1. Init => OrderInv
  <2> SUFFICES ASSUME Init PROVE OrderInv
    OBVIOUS
  <2>1. CallsCarryNumbers /\ FreshIsEmpty
    BY DEF Init, CallsCarryNumbers, FreshIsEmpty
  <2>2. \A s \in Subscriptions : Len(Stream(s)) = 0
    BY EmptySeq, ConcatProperties DEF Init, Stream
  <2>3. QED
    BY <2>1, <2>2 DEF OrderInv, NumbersAreOld, StreamOrder
<1>2. TypeOK /\ TypeOK' /\ OrderInv /\ [Next]_vars => OrderInv'
  BY CallStep, StreamStep DEF OrderInv
<1>3. TypeOK /\ OrderInv => PublisherOrder
  <2> SUFFICES ASSUME TypeOK, OrderInv, NEW s \in Subscriptions,
                      NEW i \in DOMAIN Stream(s)
               PROVE  /\ Matches(filter[s], Stream(s)[i].event)
                      /\ \A j \in 1..(i - 1) :
                           Stream(s)[j].from = Stream(s)[i].from
                             => Stream(s)[j].number < Stream(s)[i].number
    BY DEF PublisherOrder, Stream
  <2>1. i \in 1..Len(Stream(s))
    BY StreamTypes
  <2>2. QED
    BY <2>1 DEF OrderInv, StreamOrder
<1>4. QED
  BY <1>1, <1>2, <1>3, BusTypes, PTL DEF Spec
=============================================================================
