CONSTANTS
  Assets = {"a"}
  Contents <- SmallContents
  ReadChunkSize = 2
  MaxBytes = 4
  MaxU64 = 5
  MaxUsize = 3
  Scenarios <- AllScenarios
  NoNode = "none"
  MaxPages = 2
  DepthLimit = 2
  Inspections = {"r1", "r2"}
SPECIFICATION Spec
INVARIANTS
  ReadsBounded
  ReadIsVerified
  AcknowledgedInsertStays
  InspectionIsFaithful
PROPERTY
  InspectionsEnd
CHECK_DEADLOCK FALSE
