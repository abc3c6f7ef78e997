SPECIFICATION FairSpec
CONSTANTS
  Pids = {p1}
  NoPid = NoPid
  Shell = Shell
  MaxStages = 1
  Events = {}
PROPERTY MonitorWakesUp
CHECK_DEADLOCK FALSE
