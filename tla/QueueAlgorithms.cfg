\* Four rows: a running front, two rows of one kind and one of another.
SPECIFICATION Spec
CONSTANTS
  Rows = {a, b, c, d}
  Cap = 2
  MaxBuffer = 2
  NoTurn = NoTurn
INVARIANTS
  SweepIsFilter
  ScansMatchLoops
  FlushIsReverseInserts
  ReorderIsStableSort
  NotesMatchPushes
