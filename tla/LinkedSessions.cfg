\* Two researchers and a synthesizer whose answer goes on to one of them.  No
\* symmetry: the run checks liveness.
CONSTANTS
  a = a
  b = b
  s = s
  Nodes = {a, b, s}
  Researchers = {a, b}
  Synthesizer = s
  Links <- BoardLinks
  HopLimit = 2
  MaxIds = 3
  Typed = {s}
  MaxEvents = 2
SPECIFICATION Spec
INVARIANTS
  RoutedOnce
  ReceiptsTruthful
PROPERTIES
  OutcomeArrives
CHECK_DEADLOCK FALSE
