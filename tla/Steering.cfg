\* Two corrections, Dream's note, and room for two receipts.  No symmetry: the
\* run checks liveness.
CONSTANTS
  Corrections = {c1, c2}
  Note = Note
  MaxReceipts = 2
  MaxRounds = 3
  MaxFaults = 2
SPECIFICATION Spec
INVARIANTS
  ReceiptsHonest
  TextIsKept
  ContinuationCarriesNote
  SuccessAnswersAll
PROPERTIES
  CorrectionsEnd
  TypedIsUsed
CHECK_DEADLOCK FALSE
