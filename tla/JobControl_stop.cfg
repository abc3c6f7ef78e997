SPECIFICATION Spec
CONSTANTS
  Pids = {p1, p2, p3}
  NoPid = NoPid
  Shell = Shell
  MaxStages = 2
  Events = {"stop"}
SYMMETRY Symmetry
INVARIANT TypeOK
INVARIANT LiveChildOwned
INVARIANT GroupIsJob
INVARIANT NoAssertionFails
CHECK_DEADLOCK FALSE
