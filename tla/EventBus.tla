------------------------------- MODULE EventBus -------------------------------
(***************************************************************************)
(* MemoryEventBus of crates/orbitrelay-sync: publishers on any thread,     *)
(* subscriptions with a bounded queue and an atomic count of missed        *)
(* events, and a map of subscribers behind a RwLock.  A publisher keeps    *)
(* the read lock while it goes through the map; inserting and removing     *)
(* take the write lock.  tokio's channel is external: try_send, recv and   *)
(* close are single steps, and try_send on a full queue and the count that *)
(* follows it are two.                                                     *)
(***************************************************************************)
EXTENDS Integers, Sequences, FiniteSets

CONSTANTS
  Publishers,     (* tasks that call publish, one call at a time            *)
  Subscriptions,  (* SubscriptionIds, each created at most once             *)
  Events,         (* records with session, type and actor                   *)
  Filters,        (* EventFilters given to subscribe                        *)
  BlankTypes,     (* event types that are empty once trimmed                *)
  Unset,          (* an unset session or actor of a filter                  *)
  QueueCapacity,
  MaxMissed,      (* u64::MAX, where the count of missed events saturates   *)
  MaxPublishes    (* bound on the publish calls of one publisher            *)

ASSUME BusAssumption ==
  /\ IsFiniteSet(Publishers)
  /\ QueueCapacity \in Nat \ {0}
  /\ MaxMissed \in Nat \ {0}
  /\ MaxPublishes \in Nat

VARIABLES
  alive,        (* some handle of the bus exists                            *)
  subscribers,  (* the map: the subscriptions it holds a sender for         *)
  filter,       (* the filter of each subscription                          *)
  queue,        (* the channel of each subscription                         *)
  missed,       (* SubscriberEntry::lagged                                  *)
  consumer,     (* where the owner of each subscription is                  *)
  afterLag,     (* MemorySubscription::receive_after_lag                    *)
  publisher,    (* where each publish call is                               *)
  message,      (* the event each publish call sends                        *)
  todo,         (* the subscribers the call has not come to                 *)
  full,         (* the subscriber whose queue the call found full           *)
  closed,       (* the subscribers the call found closed                    *)
  (* History of the observable behaviour.                                   *)
  calls,        (* publish calls made                                       *)
  offered,      (* events that try_send offered to an open subscription     *)
  delivered,    (* what next_event returned                                 *)
  reported,     (* misses told in SubscriberLagged errors                   *)
  late,         (* events delivered while counted misses are outstanding    *)
  ended         (* next_event returned None                                 *)

publisherVars == <<publisher, message, todo, full, closed, calls>>
consumerVars == <<consumer, afterLag, delivered, reported, late, ended>>
vars == <<alive, subscribers, filter, queue, missed, offered, publisherVars,
          consumerVars>>

Messages == [from : Publishers, number : 1..MaxPublishes, event : Events]

TypeOK ==
  /\ alive \in BOOLEAN
  /\ subscribers \in SUBSET Subscriptions
  /\ filter \in [Subscriptions -> Filters \cup {Unset}]
  /\ queue \in [Subscriptions -> Seq(Messages)]
  /\ \A s \in Subscriptions : Len(queue[s]) <= QueueCapacity
  /\ missed \in [Subscriptions -> 0..MaxMissed]
  /\ consumer \in [Subscriptions -> {"none", "idle", "receiving", "closing",
                                     "closed", "dropping", "dropped"}]
  /\ \A s \in Subscriptions : consumer[s] # "none" => filter[s] \in Filters
  /\ subscribers \subseteq {s \in Subscriptions : consumer[s] # "none"}
  /\ afterLag \in [Subscriptions -> BOOLEAN]
  /\ publisher \in [Publishers -> {"idle", "sending", "missing", "cleanup"}]
  /\ message \in [Publishers -> Messages \cup {Unset}]
  /\ \A p \in Publishers :
       publisher[p] \in {"sending", "missing"} => message[p] \in Messages
  /\ todo \in [Publishers -> SUBSET Subscriptions]
  /\ full \in [Publishers -> Subscriptions \cup {Unset}]
  /\ \A p \in Publishers : publisher[p] = "missing" => full[p] \in Subscriptions
  /\ closed \in [Publishers -> SUBSET Subscriptions]
  /\ calls \in [Publishers -> 0..MaxPublishes]
  /\ offered \in [Subscriptions -> Nat]
  /\ delivered \in [Subscriptions -> Seq(Messages)]
  /\ reported \in [Subscriptions -> Nat]
  /\ late \in [Subscriptions -> Nat]
  /\ ended \in [Subscriptions -> BOOLEAN]

Init ==
  /\ alive = TRUE
  /\ subscribers = {}
  /\ filter = [s \in Subscriptions |-> Unset]
  /\ queue = [s \in Subscriptions |-> <<>>]
  /\ missed = [s \in Subscriptions |-> 0]
  /\ consumer = [s \in Subscriptions |-> "none"]
  /\ afterLag = [s \in Subscriptions |-> FALSE]
  /\ publisher = [p \in Publishers |-> "idle"]
  /\ message = [p \in Publishers |-> Unset]
  /\ todo = [p \in Publishers |-> {}]
  /\ full = [p \in Publishers |-> Unset]
  /\ closed = [p \in Publishers |-> {}]
  /\ calls = [p \in Publishers |-> 0]
  /\ offered = [s \in Subscriptions |-> 0]
  /\ delivered = [s \in Subscriptions |-> <<>>]
  /\ reported = [s \in Subscriptions |-> 0]
  /\ late = [s \in Subscriptions |-> 0]
  /\ ended = [s \in Subscriptions |-> FALSE]

---------------------------------------------------------------------------
(* EventFilter.                                                             *)

ValidFilter(f) == f.types \cap BlankTypes = {}

Matches(f, e) ==
  /\ f.session \in {Unset, e.session}
  /\ f.types = {} \/ e.type \in f.types
  /\ f.actor \in {Unset, e.actor}

(* Nobody holds the read lock of the map, so the write lock can be taken.   *)
Unlocked == \A p \in Publishers : publisher[p] \notin {"sending", "missing"}

(* The receiver of s was closed or dropped: try_send answers Closed.        *)
ReceiverClosed(s) == consumer[s] \in {"closing", "closed", "dropping", "dropped"}

---------------------------------------------------------------------------
(* MemoryEventBus.                                                          *)

Subscribe(s, f) ==
  /\ alive
  /\ consumer[s] = "none"
  /\ ValidFilter(f)
  /\ Unlocked
  /\ subscribers' = subscribers \cup {s}
  /\ filter' = [filter EXCEPT ![s] = f]
  /\ consumer' = [consumer EXCEPT ![s] = "idle"]
  /\ UNCHANGED <<alive, queue, missed, offered, publisherVars, afterLag,
                 delivered, reported, late, ended>>

(* publish takes the read lock.                                             *)
Publish(p, e) ==
  /\ alive
  /\ publisher[p] = "idle"
  /\ calls[p] < MaxPublishes
  /\ publisher' = [publisher EXCEPT ![p] = "sending"]
  /\ message' = [message EXCEPT
                   ![p] = [from |-> p, number |-> calls[p] + 1, event |-> e]]
  /\ calls' = [calls EXCEPT ![p] = @ + 1]
  /\ todo' = [todo EXCEPT ![p] = subscribers]
  /\ closed' = [closed EXCEPT ![p] = {}]
  /\ UNCHANGED <<alive, subscribers, filter, queue, missed, offered, full,
                 consumerVars>>

(* The loop comes to subscriber s, in the order of the hash map.            *)
Visit(p, s) ==
  /\ publisher[p] = "sending"
  /\ s \in todo[p]
  /\ todo' = [todo EXCEPT ![p] = @ \ {s}]
  /\ UNCHANGED <<alive, subscribers, filter, missed, message, calls,
                 consumerVars>>

Skip(p, s) ==
  /\ Visit(p, s)
  /\ ~Matches(filter[s], message[p].event)
  /\ UNCHANGED <<queue, offered, publisher, full, closed>>

SendClosed(p, s) ==
  /\ Visit(p, s)
  /\ Matches(filter[s], message[p].event)
  /\ ReceiverClosed(s)
  /\ closed' = [closed EXCEPT ![p] = @ \cup {s}]
  /\ UNCHANGED <<queue, offered, publisher, full>>

(* Mutated form: the queue takes one event more than its capacity.          *)
SendOkOver(p, s) ==
  /\ Visit(p, s)
  /\ Matches(filter[s], message[p].event)
  /\ ~ReceiverClosed(s)
  /\ Len(queue[s]) <= QueueCapacity
  /\ queue' = [queue EXCEPT ![s] = Append(@, message[p])]
  /\ offered' = [offered EXCEPT ![s] = @ + 1]
  /\ UNCHANGED <<publisher, full, closed>>

SendOk(p, s) ==
  /\ Visit(p, s)
  /\ Matches(filter[s], message[p].event)
  /\ ~ReceiverClosed(s)
  /\ Len(queue[s]) < QueueCapacity
  /\ queue' = [queue EXCEPT ![s] = Append(@, message[p])]
  /\ offered' = [offered EXCEPT ![s] = @ + 1]
  /\ UNCHANGED <<publisher, full, closed>>

(* Mutated form: a full queue is taken for a closed one.                    *)
SendFullAsClosed(p, s) ==
  /\ Visit(p, s)
  /\ Matches(filter[s], message[p].event)
  /\ ~ReceiverClosed(s)
  /\ Len(queue[s]) >= QueueCapacity
  /\ offered' = [offered EXCEPT ![s] = @ + 1]
  /\ closed' = [closed EXCEPT ![p] = @ \cup {s}]
  /\ UNCHANGED <<publisher, queue, full>>

(* Mutated form: send is awaited, so a full queue holds the publisher up.   *)
SendFullWaiting(p, s) ==
  /\ Visit(p, s)
  /\ Len(queue[s]) < QueueCapacity
  /\ UNCHANGED <<publisher, queue, full, closed, offered>>

SendFull(p, s) ==
  /\ Visit(p, s)
  /\ Matches(filter[s], message[p].event)
  /\ ~ReceiverClosed(s)
  /\ Len(queue[s]) >= QueueCapacity
  /\ offered' = [offered EXCEPT ![s] = @ + 1]
  /\ full' = [full EXCEPT ![p] = s]
  /\ publisher' = [publisher EXCEPT ![p] = "missing"]
  /\ UNCHANGED <<queue, closed>>

(* Mutated form: the count wraps around at MaxMissed.                       *)
AddMissWrapping(n) == (n + 1) % (MaxMissed + 1)

AddMiss(n) == IF n = MaxMissed THEN n ELSE n + 1

(* The count of missed events goes up, some time after try_send failed.     *)
CountMiss(p) ==
  /\ publisher[p] = "missing"
  /\ missed' = [missed EXCEPT ![full[p]] = AddMiss(@)]
  /\ publisher' = [publisher EXCEPT ![p] = "sending"]
  /\ UNCHANGED <<alive, subscribers, filter, queue, offered, message, todo,
                 full, closed, calls, consumerVars>>

(* The read lock is released; without closed subscribers publish returns.   *)
FinishLoop(p) ==
  /\ publisher[p] = "sending"
  /\ todo[p] = {}
  /\ publisher' = [publisher EXCEPT
                     ![p] = IF closed[p] = {} THEN "idle" ELSE "cleanup"]
  /\ UNCHANGED <<alive, subscribers, filter, queue, missed, offered, message,
                 todo, full, closed, calls, consumerVars>>

(* The closed subscribers are removed under the write lock.                 *)
Cleanup(p) ==
  /\ publisher[p] = "cleanup"
  /\ Unlocked
  /\ subscribers' = subscribers \ closed[p]
  /\ publisher' = [publisher EXCEPT ![p] = "idle"]
  /\ UNCHANGED <<alive, filter, queue, missed, offered, message, todo, full,
                 closed, calls, consumerVars>>

(* The last handle of the bus is dropped, and every sender with it.         *)
EndBus ==
  /\ alive
  /\ \A p \in Publishers : publisher[p] = "idle"
  /\ alive' = FALSE
  /\ subscribers' = {}
  /\ UNCHANGED <<filter, queue, missed, offered, publisherVars, consumerVars>>

---------------------------------------------------------------------------
(* MemorySubscription.                                                      *)

(* next_event reports the misses counted so far ...                         *)
ReportLag(s) ==
  /\ consumer[s] = "idle"
  /\ ~afterLag[s]
  /\ missed[s] > 0
  /\ reported' = [reported EXCEPT ![s] = @ + missed[s]]
  /\ missed' = [missed EXCEPT ![s] = 0]
  /\ afterLag' = [afterLag EXCEPT ![s] = TRUE]
  /\ late' = [late EXCEPT ![s] = 0]
  /\ UNCHANGED <<alive, subscribers, filter, queue, offered, publisherVars,
                 consumer, delivered, ended>>

(* Mutated form: receive_after_lag is not reset.                            *)
AwaitEventStuck(s) ==
  /\ consumer[s] = "idle"
  /\ afterLag[s] \/ missed[s] = 0
  /\ consumer' = [consumer EXCEPT ![s] = "receiving"]
  /\ UNCHANGED <<alive, subscribers, filter, queue, missed, offered,
                 publisherVars, afterLag, delivered, reported, late, ended>>

(* ... or, when there are none or it has just done so, waits in recv.       *)
AwaitEvent(s) ==
  /\ consumer[s] = "idle"
  /\ afterLag[s] \/ missed[s] = 0
  /\ afterLag' = [afterLag EXCEPT ![s] = FALSE]
  /\ consumer' = [consumer EXCEPT ![s] = "receiving"]
  /\ UNCHANGED <<alive, subscribers, filter, queue, missed, offered,
                 publisherVars, delivered, reported, late, ended>>

(* Mutated form: the newest event is taken.                                 *)
ReceiveNewest(s) ==
  /\ consumer[s] = "receiving"
  /\ queue[s] # <<>>
  /\ delivered' = [delivered EXCEPT ![s] = Append(@, queue[s][Len(queue[s])])]
  /\ queue' = [queue EXCEPT ![s] = SubSeq(@, 1, Len(@) - 1)]
  /\ late' = [late EXCEPT ![s] = IF missed[s] > 0 THEN @ + 1 ELSE 0]
  /\ consumer' = [consumer EXCEPT ![s] = "idle"]
  /\ UNCHANGED <<alive, subscribers, filter, missed, offered, publisherVars,
                 afterLag, reported, ended>>

Receive(s) ==
  /\ consumer[s] = "receiving"
  /\ queue[s] # <<>>
  /\ delivered' = [delivered EXCEPT ![s] = Append(@, Head(queue[s]))]
  /\ queue' = [queue EXCEPT ![s] = Tail(@)]
  /\ late' = [late EXCEPT ![s] = IF missed[s] > 0 THEN @ + 1 ELSE 0]
  /\ consumer' = [consumer EXCEPT ![s] = "idle"]
  /\ UNCHANGED <<alive, subscribers, filter, missed, offered, publisherVars,
                 afterLag, reported, ended>>

(* recv answers None when the queue is empty and its sender is gone.        *)
ReceiveNone(s) ==
  /\ consumer[s] = "receiving"
  /\ queue[s] = <<>>
  /\ s \notin subscribers
  /\ ended' = [ended EXCEPT ![s] = TRUE]
  /\ consumer' = [consumer EXCEPT ![s] = "idle"]
  /\ UNCHANGED <<alive, subscribers, filter, queue, missed, offered,
                 publisherVars, afterLag, delivered, reported, late>>

(* The future of next_event is dropped while it waits.                      *)
CancelReceive(s) ==
  /\ consumer[s] = "receiving"
  /\ consumer' = [consumer EXCEPT ![s] = "idle"]
  /\ UNCHANGED <<alive, subscribers, filter, queue, missed, offered,
                 publisherVars, afterLag, delivered, reported, late, ended>>

(* close, or the drop of the subscription, first closes the receiver; a     *)
(* drop discards what is queued.                                            *)
Close(s) ==
  /\ consumer[s] = "idle"
  /\ consumer' = [consumer EXCEPT ![s] = "closing"]
  /\ UNCHANGED <<alive, subscribers, filter, queue, missed, offered,
                 publisherVars, afterLag, delivered, reported, late, ended>>

DropSubscription(s) ==
  /\ consumer[s] \in {"idle", "closed"}
  /\ consumer' = [consumer EXCEPT ![s] = "dropping"]
  /\ queue' = [queue EXCEPT ![s] = <<>>]
  /\ UNCHANGED <<alive, subscribers, filter, missed, offered, publisherVars,
                 afterLag, delivered, reported, late, ended>>

(* Mutated form: an explicit close leaves the registration to publish.      *)
DetachDropped(s) ==
  /\ Unlocked
  /\ \/ /\ consumer[s] = "closing"
        /\ consumer' = [consumer EXCEPT ![s] = "closed"]
        /\ UNCHANGED subscribers
     \/ /\ consumer[s] = "dropping"
        /\ consumer' = [consumer EXCEPT ![s] = "dropped"]
        /\ subscribers' = subscribers \ {s}
  /\ UNCHANGED <<alive, filter, queue, missed, offered, publisherVars,
                 afterLag, delivered, reported, late, ended>>

(* Then detach removes the entry from the map of a bus that still exists.   *)
Detach(s) ==
  /\ Unlocked
  /\ \/ /\ consumer[s] = "closing"
        /\ consumer' = [consumer EXCEPT ![s] = "closed"]
     \/ /\ consumer[s] = "dropping"
        /\ consumer' = [consumer EXCEPT ![s] = "dropped"]
  /\ subscribers' = subscribers \ {s}
  /\ UNCHANGED <<alive, filter, queue, missed, offered, publisherVars,
                 afterLag, delivered, reported, late, ended>>

---------------------------------------------------------------------------
PublisherStep(p) ==
  \/ \E s \in Subscriptions : \/ Skip(p, s) \/ SendClosed(p, s)
                              \/ SendOk(p, s) \/ SendFull(p, s)
  \/ CountMiss(p) \/ FinishLoop(p) \/ Cleanup(p)

ConsumerStep(s) ==
  ReportLag(s) \/ AwaitEvent(s) \/ Receive(s) \/ ReceiveNone(s) \/ Detach(s)

Next ==
  \/ \E s \in Subscriptions, f \in Filters : Subscribe(s, f)
  \/ \E p \in Publishers, e \in Events : Publish(p, e)
  \/ \E p \in Publishers : PublisherStep(p)
  \/ \E s \in Subscriptions : \/ ConsumerStep(s) \/ CancelReceive(s)
                              \/ Close(s) \/ DropSubscription(s)
  \/ EndBus

Spec == Init /\ [][Next]_vars

(* A call of publish runs to its end and close finishes; consumers may stop *)
(* calling next_event at any time.                                          *)
PublisherFairness ==
  /\ \A p \in Publishers : WF_vars(PublisherStep(p))
  /\ \A s \in Subscriptions : WF_vars(Detach(s))

FairSpec == Spec /\ PublisherFairness

(* Besides, every consumer calls next_event in a loop, as the event pump    *)
(* does.                                                                    *)
PumpedSpec == FairSpec /\ \A s \in Subscriptions : WF_vars(ConsumerStep(s))

---------------------------------------------------------------------------
(* Properties.                                                              *)

Misses(s) == {p \in Publishers : publisher[p] = "missing" /\ full[p] = s}

(* No event is lost without trace: what publish offered to an open          *)
(* subscription and next_event has not returned, nor finds in the queue,    *)
(* was told in a SubscriberLagged error or is counted for the next one,     *)
(* give or take the publishers between a failed try_send and the count.     *)
(* Where the count saturates it says too little, never too much.            *)
EveryOfferAccounted ==
  \A s \in Subscriptions : consumer[s] \notin {"dropping", "dropped"} =>
    LET lost == offered[s] - Len(delivered[s]) - Len(queue[s])
        counted == missed[s] + reported[s] + Cardinality(Misses(s))
    IN  \/ counted = lost
        \/ counted < lost /\ counted >= MaxMissed

(* What a subscription has received and will receive from one publisher is  *)
(* in the order of its publish calls, without a repetition, and matches the *)
(* filter: the queue, the retry-free try_send and the skipping of gaps keep *)
(* the order although publishers run concurrently.                          *)
PublisherOrder ==
  \A s \in Subscriptions :
    LET stream == delivered[s] \o queue[s]
    IN  \A i \in DOMAIN stream :
          /\ Matches(filter[s], stream[i].event)
          /\ \A j \in 1..(i - 1) :
               stream[j].from = stream[i].from
                 => stream[j].number < stream[i].number

(* Once a miss is counted, next_event returns at most one more event before *)
(* it reports the gap: receive_after_lag and a recv that was already        *)
(* waiting each let one through, and never both.                            *)
LagReportedPromptly == \A s \in Subscriptions : late[s] <= 1

(* None means that the bus ended: no slow or closing neighbour, and no      *)
(* cleanup by a publisher, takes the sender of an open subscription away.   *)
NoneMeansBusEnded == \A s \in Subscriptions : ended[s] => ~alive

(* A publish call returns whatever the consumers do or fail to do.          *)
PublishReturns ==
  \A p \in Publishers : publisher[p] # "idle" ~> publisher[p] = "idle"

(* A closed or dropped subscription leaves the map for good, whoever        *)
(* removes it.                                                              *)
ClosedIsReleased ==
  \A s \in Subscriptions : ReceiverClosed(s) ~> [](s \notin subscribers)

(* A counted miss is reported to a consumer that keeps calling next_event.  *)
MissesAreReported ==
  \A s \in Subscriptions :
    missed[s] > 0 /\ consumer[s] \in {"idle", "receiving"}
      ~> missed[s] = 0 \/ ReceiverClosed(s) \/ ~alive
=============================================================================
