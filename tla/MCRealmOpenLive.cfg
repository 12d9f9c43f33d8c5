SPECIFICATION FairSpec
CONSTANTS
  t1 = t1
  t2 = t2
  t3 = t3
  p1 = p1
  p2 = p2
  Thread = {t1, t2, t3}
  Process = {p1, p2}
  ProcessOf <- MCProcessOf
  Column <- MCColumn
  FirstFiles <- MCOldFile
  Targets <- MCTwoTargets
  NotVersioned = 100
  Null = Null
  MaxVersion = 3
  MaxDeaths = 0
PROPERTY OpeningEnds
