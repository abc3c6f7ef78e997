SPECIFICATION FineSpec
CONSTANTS
  Pids = {p1, p2}
  NoPid = NoPid
  Shell = Shell
  MaxStages = 2
  Events = {"stop"}
  MaxInterrupts = 2
SYMMETRY Symmetry
INVARIANTS
  WatchType
  ReportedOnce
  FreeSlotIdle
  ExitStatusKept
CHECK_DEADLOCK FALSE
