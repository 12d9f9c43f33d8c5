CONSTANTS
  r1 = r1
  r2 = r2
  r3 = r3
  Row = {r1, r2, r3}
  FirstList <- MCFirst
  GroupRow = {r2}
  Text = {"", "a"}
  Blank = ""
  Tag = {1, 2}
  Inputs <- MCInputs
  MaxOps = 1
  MaxVersion = 7
  MaxKills = 1
  Null = Null

SPECIFICATION FairListSpec
CHECK_DEADLOCK FALSE

INVARIANTS
  ListTypeOK
  DeleteHitsTouched
  CellsCurrent
  TagsStored
  TextKept

PROPERTY
  CallbackEnds
