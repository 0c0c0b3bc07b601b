\* Ctrl+C on a pristine prompt.
SPECIFICATION Spec
CONSTANTS
  p1 = p1  p2 = p2  p3 = p3  j1 = j1  j2 = j2  w1 = w1  w2 = w2  u1 = u1  f1 = f1
  c1 = c1  g1 = g1  r1 = r1  d1 = d1  d2 = d2  n1 = n1  m1 = m1  m2 = m2  mcp = mcp  alice = alice  bob = bob  None = None
  Prompts = {p1}
  Interjections = {}
  Wakes = {}
  SubWakes = {}
  Workflows = {}
  Crons = {}
  Nudges = {}
  PlanResumes = {}
  Drains = {}
  Notices = {}
  Monitors = {}
  Source <- MCSource
  Clients = {alice, bob}
  Owner <- MCOwner
  Plain = {}
  Images = {}
  Editable = {}
  CombineQueued = FALSE
  Mcp = {}
  Cancels <- RewindCancels
  Shutdowns = {}
  Admissions = {"in_time"}
  MaxNotes = 1
  MaxEvents = 1
  MaxEdits = 0
PROPERTIES
  CtrlCLeavesSuppressed
