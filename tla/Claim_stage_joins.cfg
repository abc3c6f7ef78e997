SPECIFICATION Spec
CONSTANTS
  Pids = {p1, p2}
  NoPid = NoPid
  Shell = Shell
  MaxStages = 2
  Events = {}
PROPERTY StageJoinsGroup
CHECK_DEADLOCK FALSE
