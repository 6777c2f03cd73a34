CONSTANTS
  Unit <- WholeWeight
  HostWeight <- HostPolicy
  Meshes <- SoundMeshes
  Weightings <- AllWeightings
  Tolerances <- SomeTolerances
  FieldsOn <- Fields
SPECIFICATION Spec
INVARIANTS
  LinearIsExact
  DiagnosticsPredictFailure
  IllConditionedMeansCollinear
  ConditioningIgnoresUnits
  GreenGaussIsConservative
  GreenGaussExactInside
