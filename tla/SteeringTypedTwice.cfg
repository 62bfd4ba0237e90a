\* As Steering.cfg without failing saves; nothing but the property the code
\* breaks.
CONSTANTS
  Corrections = {c1, c2}
  Note = Note
  MaxReceipts = 2
  MaxRounds = 3
  MaxFaults = 0
SPECIFICATION Spec
INVARIANTS
  TypedOnce
CHECK_DEADLOCK FALSE
