\* A crash between the record of a run and its mark.
CONSTANTS
  Procs = {p1, p2}
  NoProc = NoProc
  Studio = Studio
  Automations = {a1}
  SlotTimes = {1}
  MaxTime = 1
  MaxSaves = 0
  MaxFaults = 1
  MaxMishaps = 1
SPECIFICATION Spec
INVARIANTS
  InterruptedNeverEnded
