CONSTANTS
  r1 = r1
  r2 = r2
  r3 = r3
  Row = {r1, r2}
  FirstList <- MCFirst
  MaxOps = 2
  MaxVersion = 4
  Null = Null

SPECIFICATION FairSpec
CHECK_DEADLOCK FALSE

INVARIANTS
  TableFits
  AtMostOneBehind
PROPERTIES
  ImplementsListWatch
  EveryCommitPackaged
