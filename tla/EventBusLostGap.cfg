CONSTANTS
  p1 = p1
  p2 = p2
  s1 = s1
  Unset = Unset
  Publishers = {p1}
  Subscriptions = {s1}
  Events <- OneEvent
  Filters <- OneFilter
  BlankTypes = {" "}
  QueueCapacity = 1
  MaxMissed = 2
  MaxPublishes = 2
SPECIFICATION PumpedSpec
PROPERTY
  MissesAreReported
CHECK_DEADLOCK FALSE
