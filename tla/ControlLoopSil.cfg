CONSTANTS
  Period = 2
  MaxTime = 5
  MaxSteps = 2
SPECIFICATION Spec
INVARIANTS
  TelemetryTrue
PROPERTIES
  OneStepPerPeriod
  StepNotWithheld
