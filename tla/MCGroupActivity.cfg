SPECIFICATION FairSpec
CONSTANTS
  Root = root
  RootRow = rootRow
  GroupId = {root, g1, g2, g3}
  MemoId = {m1}
  RowId = {rootRow, r1, r2, r3, r4}
  Tag = {}
  Empty = Empty
  Text = {Empty}
  Null = Null
  MaxDepth = 5
  MaxPending = 2
INVARIANTS
  NeverNoGroup ScreenShowsPath PathFromRoot
PROPERTIES
  ScreenCatchesUp
