SPECIFICATION Spec
CONSTANTS
  Pids = {p1, p2}
  NoPid = NoPid
  Shell = Shell
  MaxStages = 2
  Events = {"stop", "cont", "kill", "modes"}
SYMMETRY Symmetry
INVARIANTS
  NoLostNotification
  TableTracksKernel
  JobStateIsSummary
  MonitoredJobKept
  FreeSlotFinished
CHECK_DEADLOCK FALSE
