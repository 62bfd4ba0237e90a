CONSTANTS
  a1 = a1
  a2 = a2
  Actions = {a1, a2}
  MaxSteps = 2
  MaxInvocations = 3
  MaxFaults = 1
  MaxAttempts = 1
  HelpLimit = 1
SPECIFICATION Spec
SYMMETRY Symmetry
INVARIANTS
  NothingForgotten
  RecoveryUsable
PROPERTIES
  UnknownEffectsFirst
  StopHolds
  OriginalsArchived
  ChecksTheTask
CHECK_DEADLOCK FALSE
