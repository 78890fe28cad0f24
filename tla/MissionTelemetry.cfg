CONSTANTS
  MaxLegs = 3
  BroadcastPeriod = 2
  MaxPlans = 2
SPECIFICATION FairSpec
INVARIANTS
  PlanKnownInTime
PROPERTIES
  RowsInPlan
  PlanGetsThrough
