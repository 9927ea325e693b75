CONSTANTS
  Sessions = {"s1"}
  Actors = {"alice", "bob"}
  Canvases = {"c1"}
  Strokes = {"k"}
  Layers = {"ink"}
  Styles = {"pen"}
  PointLists <- GoodPoints
  PointCount <- GoodCounts
  MaxIndex = 2
  NoStroke = NoStroke
  Corrupted = Corrupted
  Catalog <- OneCanvas
  NoTask = NoTask
  NoAction = NoAction
  t1 = t1
  t2 = t2
  Tasks <- TwoTasks
  Requests <- LifeRequests
  Churned = {}
SPECIFICATION Spec
INVARIANTS
  TypeOK
  HistoryReplays
  SnapshotIsCurrent
  AcknowledgedEffectStays
  RetryDraftsNothing
PROPERTIES
  StrokesOnlyAdvance
  ImplementsAggregate
SYMMETRY TwoTaskSymmetry
