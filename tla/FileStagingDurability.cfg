CONSTANTS
  Empty = Empty
  Nothing = Nothing
  Root = Root
  Lists = {Empty, a, b}
  Keys = {Root, parent}
  Covering = {Root, parent}
SPECIFICATION Spec
INVARIANTS
  BaselineIsTrue
  UnsavedIsRemembered
PROPERTIES
  ImplementsDurableList
  ExclusionOutlivesList
  ReportedListIsCovered
