SPECIFICATION Spec
CONSTANTS
  Root = root
  RootRow = rootRow
  GroupId = {root, g1, g2, g3}
  MemoId = {}
  RowId = {rootRow, r1, r2, r3}
  Tag = {1, 2}
  Empty = Empty
  Text = {Empty, a}
  Null = Null
  Blank = Blank
  Inputs <- MCInputs
  MaxTaps = 2
  MaxCreates = 3
  MaxKills = 1
SYMMETRY Symmetry
INVARIANTS
  GroupsFormTree TagsSavedWithTitle
CHECK_DEADLOCK FALSE
