SPECIFICATION FairSpec
CONSTANTS
  NProcs = 3
  MaxFd = 6
  MaxCtrlC = 2
  Stages <- PlainStages
PROPERTIES
  InputEnds
  OutputBreaks
CHECK_DEADLOCK FALSE
