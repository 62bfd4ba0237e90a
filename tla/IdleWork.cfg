\* Three jobs for a queue of two: every interleaving of jobs, turns and close.
CONSTANTS
  Jobs = {j1, j2, j3}
  NoJob = NoJob
  MaxPending = 2
SPECIFICATION Spec
INVARIANTS
  ForegroundAlone
  ClosedIsQuiet
PROPERTIES
  NeverReplayed
  ForegroundProceeds
  QueueDrains
