SPECIFICATION FineSpec
CONSTANTS
  Pids = {p1}
  NoPid = NoPid
  Shell = Shell
  MaxStages = 1
  Events = {}
  MaxInterrupts = 0
INVARIANT LastProcessExists
CHECK_DEADLOCK FALSE
