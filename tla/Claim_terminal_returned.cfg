SPECIFICATION Spec
CONSTANTS
  Pids = {p1}
  NoPid = NoPid
  Shell = Shell
  MaxStages = 1
  Events = {"stop", "cont"}
INVARIANT TerminalReturned
CHECK_DEADLOCK FALSE
