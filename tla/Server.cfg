CONSTANTS
  Threads <- MCThreads
  CommandLines <- MCCommandLines
  Atoi <- MCAtoi
  Dirs = {"home", "data", "var"}
  Faults = {"fork", "conf", "json", "settings", "jvm", "class", "dispatch", "dispThread", "netThread", "net", "cert", "inuse", "noipv6"}
  MaxFaults = 2
SPECIFICATION FairSpec
INVARIANTS
  EndHasCause
  StartedWhole
PROPERTY
  UnboundEnds
CHECK_DEADLOCK FALSE
