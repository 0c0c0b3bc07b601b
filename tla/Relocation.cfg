SPECIFICATION MCSpec
CONSTANTS
  Procs = {p1, p2}
  Callers = {p1}
  Cwds = {a, b, c}
  Start = a
  NoCwd = NoCwd
  MaxTx = 3
  MaxFaults = 2
  MaxReadFaults = 0
CHECK_DEADLOCK FALSE
INVARIANTS
  ViewTypeOK
  AuthoritativeIsWhole
  LocalIsCurrent
  RefusedOnlyWhenWedged
PROPERTIES
  ImplementsSessionHome
  RecoverySettles
  ReaderNotMisled
  MissedOnlyDuringRelocation
