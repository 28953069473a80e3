SPECIFICATION Spec
CONSTANTS
  NoSuccess = NoSuccess
  Interval = 1
  MaxAge = 2
  Timeout = 2
  Troubles = {"stop", "unload", "load by hand", "crash"}
PROPERTIES
  NodeRecoversAlone
