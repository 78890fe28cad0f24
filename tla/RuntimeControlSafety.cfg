CONSTANTS
  h1 = h1
  h2 = h2
  Handlers <- TwoHandlers
  NumParams = 1
  MaxSegments = 2
  VersionModulus = 3
  SeqModulus = 4
  MaxCommands = 3
  Origin = Origin
SPECIFICATION Spec
SYMMETRY HandlerSymmetry
INVARIANTS
  NoMixedRoute
  ActiveLegValid
  NoLostParam
  NoLostMission
  AcceptedInForce
PROPERTIES
  ConditionalPlanSet
  LiveNeverRegresses
  ImplementsStagedConfig
