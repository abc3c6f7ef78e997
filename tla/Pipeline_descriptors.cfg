SPECIFICATION Spec
CONSTANTS
  NProcs = 4
  MaxFd = 9
  MaxCtrlC = 1
  Stages <- RedirectedStages
INVARIANTS
  TypeOK
  StagesConnected
  ProgramDescriptors
  NoPipeAtPrompt
CHECK_DEADLOCK FALSE
