\* Two processes, one of them a restart of the other, and every sequence of up
\* to MaxRows rows.
CONSTANTS
  Procs = {p1, p2}
  NoProc = NoProc
  Tools = {t1, t2}
  MaxTools = 1
  MaxRounds = 2
  MaxMessages = 1
  MaxRows = 9
  MaxClock = 4
SYMMETRY Symmetry
SPECIFICATION Spec
INVARIANTS
  ViewIsLedger
  LedgerReloads
  ActiveTimeBounded
  RequestsOnRecord
  NoEffectForgotten
PROPERTIES
  ClosedForGood
CHECK_DEADLOCK FALSE
