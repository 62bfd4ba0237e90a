\* One job is enough; nothing but the property the code breaks.
CONSTANTS
  Jobs = {j1}
  NoJob = NoJob
  MaxPending = 1
SPECIFICATION Spec
INVARIANTS
  CancelHonoured
