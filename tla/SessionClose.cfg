CONSTANTS
  Scripts <- ClosingScripts
  Subscriptions = {"s1"}
  Actors = {"alice"}
  Failures <- SomeFailures
  Policy = "CompatibleVersionPolicy"
  InboundCapacity = 1
  OutboundCapacity = 1
  ActionCapacity = 1
  QueryCapacity = 1
  MaxInFlight = 1
  QueryService = FALSE
  MaxEvents = 1
SPECIFICATION FairSpec
PROPERTIES
  ImplementsConnection
  CloseCompletesUnlessBlocked
CHECK_DEADLOCK FALSE
