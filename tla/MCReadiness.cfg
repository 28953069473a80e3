SPECIFICATION FairSpec
CONSTANTS
  NoSuccess = NoSuccess
  Interval = 2
  MaxAge = 3
  Timeout = 2
  Troubles = {"stop", "busy", "unload", "load by hand", "damage", "disk", "crash"}
INVARIANTS
  TypeOK
  HealthyCouldRead
  GoneIsReported
PROPERTIES
  NodeBringsItBack
  RecoversInTheEnd
  StartsInTheEnd
