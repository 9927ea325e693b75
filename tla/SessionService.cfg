CONSTANTS
  Scripts <- ServiceScripts
  Subscriptions = {"s1"}
  Actors = {"alice"}
  Failures <- SomeFailures
  Policy = "CompatibleVersionPolicy"
  InboundCapacity = 1
  OutboundCapacity = 1
  ActionCapacity = 1
  QueryCapacity = 1
  MaxInFlight = 2
  QueryService = TRUE
  MaxEvents = 1
SPECIFICATION Spec
INVARIANTS
  EventsWithinSubscription
  ActionsInOrder
  OneResponsePerQuery
  ClientCanDecode
  LostHelloIsTold
  NoTaskOutlivesSession
CHECK_DEADLOCK FALSE
