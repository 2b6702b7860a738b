SPECIFICATION FairSpec
CONSTANTS
  Lens = {0, 1, 3}
  TIMEOUT_MS = 2
  Interrupts = TRUE
  MaxAvail = 2
INVARIANTS
  NothingLostOrRepeated
  TimeoutIsBounded
PROPERTIES
  BlockMovesAll
  TimeoutIsUsed
  RecvEndsUnlessStale
