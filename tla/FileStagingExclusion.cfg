CONSTANTS
  Empty = Empty
  Nothing = Nothing
  Root = Root
  Lists = {Empty, a}
  Keys = {Root, parent}
  Covering = {Root, parent}
SPECIFICATION Spec
INVARIANT
  ListIsExcluded
