CONSTANTS
  c1 = c1
  c2 = c2
  r1 = r1
  r2 = r2
  r3 = r3
  NoClient = NoClient
  NoRequest = NoRequest
  Clients = {c1, c2}
  Requests = {r1, r2, r3}
  MaxSlots = 1
  MaxEpoch = 1
  Patience = 0
SPECIFICATION Spec
SYMMETRY Symmetry
INVARIANTS
  StaleIsOver
CHECK_DEADLOCK FALSE
