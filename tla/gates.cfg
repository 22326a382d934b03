CONSTANTS
  r1 = r1
  r2 = r2
  Replicas = {r1, r2}
  Scope = {r1}
  Edges <- TwoEdges
  GateLists <- SomeGates
  Samples = 3
  MaxRequests = 4
  MaxFaults = 1
SPECIFICATION Spec
INVARIANTS TypeOK SampleMeasures QuantilesOrdered SilentNeverPasses ClearCases
CHECK_DEADLOCK FALSE
