CONSTANTS
  Sessions = {"s1", "s2"}
  Actors = {"alice"}
  Canvases = {"c1", "c2"}
  Strokes = {"k"}
  Layers = {"ink", "chalk"}
  Styles = {"pen"}
  PointLists <- AllPoints
  PointCount <- AllCounts
  MaxIndex = 1
  NoStroke = NoStroke
  Corrupted = Corrupted
  Catalog <- TwoCanvases
  NoTask = NoTask
  NoAction = NoAction
  t1 = t1
  t2 = t2
  Tasks <- TwoTasks
  Requests <- FaultyRequests
  Churned = {"append"}
SPECIFICATION FairSpec
PROPERTY
  LeaseReturned
