CONSTANTS
  Scripts <- FloodScripts
  Subscriptions = {"s1"}
  Actors = {"alice"}
  Failures <- SomeFailures
  Policy = "CompatibleVersionPolicy"
  InboundCapacity = 1
  OutboundCapacity = 1
  ActionCapacity = 1
  QueryCapacity = 1
  MaxInFlight = 1
  QueryService = FALSE
  MaxEvents = 0
SPECIFICATION Spec
INVARIANT
  FailureIsReturned
CHECK_DEADLOCK FALSE
