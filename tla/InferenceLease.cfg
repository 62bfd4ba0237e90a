\* Two processes over two lanes; no symmetry, the run checks liveness too.
CONSTANTS
  c1 = c1
  c2 = c2
  r1 = r1
  r2 = r2
  NoClient = NoClient
  NoRequest = NoRequest
  Clients = {c1, c2}
  Requests = {r1, r2}
  MaxSlots = 2
  MaxEpoch = 1
  Patience = 1
SPECIFICATION FairSpec
INVARIANTS
  Fence
  LiveRecordStands
  SoughtNeverSent
PROPERTIES
  ClearedOnlyWhenOver
  OneRequestPerLane
  EveryRequestEnds
CHECK_DEADLOCK FALSE
