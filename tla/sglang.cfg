CONSTANTS
  Ranks = {"r0", "r1"}
  First = "r0"
  BootSizing <- Launched
  BootPrefill = 3
  MemorySaver = TRUE
  HotChanges <- Hot
  WarmChanges <- Warm
  MaxAttempts = 2
  MaxGen = 3
SPECIFICATION LiveSpec
INVARIANTS TypeOK WithinPool OkMeansAll LivePoolMapped
PROPERTY CallReturns
