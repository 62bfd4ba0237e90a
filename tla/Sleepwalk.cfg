\* Two processes by turns, one automation, one slot and an instant after it; one
\* edit, failing write or cut recording.  No symmetry: the run checks liveness.
CONSTANTS
  Procs = {p1, p2}
  NoProc = NoProc
  Studio = Studio
  Automations = {a1}
  SlotTimes = {1}
  MaxTime = 2
  MaxSaves = 1
  MaxFaults = 1
  MaxMishaps = 1
SPECIFICATION Spec
INVARIANTS
  SlotsOnce
  MarkedUntilRecorded
PROPERTIES
  InterruptedIsOver
  MarksSettle
