CONSTANTS
  p1 = p1
  p2 = p2
  s1 = s1
  Unset = Unset
  Publishers <- TwoPublishers
  Subscriptions = {s1}
  Events <- TwoEvents
  Filters <- AllFilters
  BlankTypes = {" "}
  QueueCapacity = 2
  MaxMissed = 1
  MaxPublishes = 2
SPECIFICATION FairSpec
INVARIANTS
  TypeOK
  EveryOfferAccounted
  PublisherOrder
  LagReportedPromptly
  NoneMeansBusEnded
PROPERTIES
  PublishReturns
  ClosedIsReleased
CHECK_DEADLOCK FALSE
