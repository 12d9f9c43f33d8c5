SPECIFICATION FairSpec
CONSTANTS
  Root = root
  RootRow = rootRow
  GroupId = {root, g1, g2}
  MemoId = {m1}
  RowId = {rootRow, r1, r2, r3}
  Tag = {}
  Empty = Empty
  Text = {Empty}
  Null = Null
  Blank = Blank
  Inputs = {}
  MaxDepth = 2
  MaxPending = 1
  MaxTaps = 2
  MaxMemos = 1
  MaxGroups = 2
  MaxKills = 1
INVARIANTS
  TypeOK AllInLists OneLostPerKill
PROPERTIES
  ImplementsBrowser AskedArrives
CHECK_DEADLOCK FALSE
