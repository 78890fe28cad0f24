CONSTANTS
  Period = 3
  Latency = 1
  MaxTime = 21
SPECIFICATION Spec
INVARIANTS
  BurstBounded
  NoDrift
