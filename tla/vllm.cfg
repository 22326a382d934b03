CONSTANTS
  BootConfig <- Launched
  MaxRequests = 4
  MaxValue = 3
SPECIFICATION LiveSpec
INVARIANTS TypeOK RunningWithinCap WithinAllocation ReportsTarget SizingIsLastGood
PROPERTIES CapReachesTarget NoAdmissionAboveTarget
