CONSTANTS
  home = home
  away = away
  None = None
  Sessions = {home, away}
  Assets = {"slides", "notes"}
  Geometries = {"a4", "a5"}
  PageLists <- FewPageLists
  Tasks = {"caller"}
  MaxDocuments = 2
  MaxU32 = 2
SPECIFICATION Spec
INVARIANTS
  AnswersAuthorized
  ViewIsWhole
  ViewMatchesSummary
  ListedIsFound
  ComposedIsReadable
  OrderMatchesDocuments
PROPERTY
  ListsOnlyGrow
SYMMETRY SessionSymmetry
