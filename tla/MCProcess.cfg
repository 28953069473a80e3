SPECIFICATION FairSpec
CONSTANTS
  p1 = p1
  p2 = p2
  Nobody = Nobody
  Posts = {p1, p2}
  Gets = {}
  Servers = {"http"}
  Grace = 1
INVARIANTS
  TypeOK
  CleanExitWasAsked
  StopCostsNoAttempt
PROPERTIES
  EveryoneGetsThrough
  StopsInTheEnd
CHECK_DEADLOCK FALSE
