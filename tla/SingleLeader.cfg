SPECIFICATION Spec
CONSTANTS
  Procs = {p1, p2, p3, p4}
  NoProc = NoProc
  Old = {p1}
SYMMETRY Symmetry
CHECK_DEADLOCK FALSE
INVARIANT SingleLeader
