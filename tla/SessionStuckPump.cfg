CONSTANTS
  Scripts <- SubscribeScripts
  Subscriptions = {"s1"}
  Actors = {"alice"}
  Failures <- SomeFailures
  Policy = "CompatibleVersionPolicy"
  InboundCapacity = 1
  OutboundCapacity = 3
  ActionCapacity = 1
  QueryCapacity = 1
  MaxInFlight = 1
  QueryService = FALSE
  MaxEvents = 0
SPECIFICATION FairSpec
PROPERTY
  CancelledPumpEnds
CHECK_DEADLOCK FALSE
