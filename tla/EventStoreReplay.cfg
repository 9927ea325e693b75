CONSTANTS
  Stores = {"first", "second"}
  Events <- FewEvents
  Readers = {"r"}
  Queries <- FewQueries
  BlankTypes = {" "}
  Unset = Unset
SPECIFICATION Spec
INVARIANTS
  TypeOK
  IndexMatchesRecords
  PagesHaveNoGap
  ReplayIsSnapshot
PROPERTY
  AppendOnly
CHECK_DEADLOCK FALSE
