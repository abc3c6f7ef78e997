SPECIFICATION FairSpec
CONSTANTS
  Pids = {p1, p2}
  NoPid = NoPid
  Shell = Shell
  MaxStages = 2
  Events = {"stop", "modes"}
INVARIANT TerminalAtPrompt
PROPERTIES
  EveryChildReaped
  FinishedJobLeaves
  ImplementsLifecycle
CHECK_DEADLOCK FALSE
