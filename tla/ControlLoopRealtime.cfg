CONSTANTS
  Period = 2
  MaxPoses = 3
  MaxTime = 5
  MaxManuals = 2
  Freshness = 1
  StaleSamples = 1
  MaxLag = 1
SPECIFICATION FairSpec
INVARIANTS
  TelemetryTrue
PROPERTIES
  ValidAttitudeRecent
  GapAnnounced
  StepInMode
  OneStepPerPeriod
  NewestInputsHeld
  NoNewsMissed
