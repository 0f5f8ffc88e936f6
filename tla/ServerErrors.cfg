CONSTANTS
  Threads <- MCThreads
  CommandLines <- MCCommandLines
  Atoi <- MCAtoi
  Dirs = {"home", "data", "var"}
  Faults = {"net"}
  MaxFaults = 1
SPECIFICATION FairSpec
PROPERTY
  ErrorsAreLogged
CHECK_DEADLOCK FALSE
