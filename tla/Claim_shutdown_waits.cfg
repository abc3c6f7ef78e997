SPECIFICATION Spec
CONSTANTS
  Pids = {p1, p2}
  NoPid = NoPid
  Shell = Shell
  MaxStages = 1
  Events = {}
INVARIANT ShutdownWaits
CHECK_DEADLOCK FALSE
