CONSTANTS
  h1 = h1
  h2 = h2
  Handlers <- OneHandler
  NumParams = 2
  MaxSegments = 1
  VersionModulus = 3
  SeqModulus = 4
  MaxCommands = 2
  Origin = Origin
SPECIFICATION Spec
INVARIANT StepsSeePrefix
