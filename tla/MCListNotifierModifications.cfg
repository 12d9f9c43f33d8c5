CONSTANTS
  r1 = r1
  r2 = r2
  r3 = r3
  Row = {r1, r2, r3}
  FirstList <- MCFirst
  MaxOps = 2
  MaxVersion = 3
  Null = Null

SPECIFICATION Spec
CHECK_DEADLOCK FALSE

INVARIANT
  ModificationsInNewList
