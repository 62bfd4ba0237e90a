CONSTANTS
  MaxAttempts = 2
  HelpLimit = 1
  k1 = k1
  k2 = k2
  e1 = e1
  f1 = f1
  f2 = f2
  test = test
  CutError = CutError
  NoDigest = NoDigest
  Calls = {k1, k2}
  Errors = {e1, CutError}
  Checks = {test}
  Facts = {f1, f2, test}
  RepeatLimit = 2
  CheckLimit = 2
  NoProgressLimit = 3
  PhaseBudget = 5
  MaxKeys = 1
  MaxEvidence = 2
  MaxCounter = 7
SPECIFICATION Spec
INVARIANTS
  SnapshotReloads
  BudgetsHold
PROPERTIES
  DebtStays
  FollowsRules
CHECK_DEADLOCK FALSE
