SPECIFICATION Spec
CONSTANTS
  root = root
  home = home
  rootRow = rootRow
  homeRow = homeRow
  GroupId = {root, home}
  MemoId = {m1, m2}
  RowId = {rootRow, homeRow, r1, r2}
  Tag = {1, 2}
  Empty = Empty
  Text = {Empty, a}
  Null = Null
  Blank = Blank
  InitialGroups <- MCGroups
  InitialRows <- MCRows
  Inputs <- MCInputs
  MaxTaps = 2
  MaxCreates = 2
  MaxKills = 1
SYMMETRY Symmetry
INVARIANTS
  MemoShownOnce ListedMemoWritten StrandedOnlyByKill AutosaveComplete TagsInOrder
  OneMemoPerCreate
PROPERTIES StrandedForGood ImplementsShelf
CHECK_DEADLOCK FALSE
