CONSTANTS
  Unit <- WholeWeight
  HostWeight <- HostPolicy
  Meshes <- BootstrapMeshes
  Weightings <- OneWeighting
  Tolerances <- NoTolerance
  FieldsOn <- Fields
SPECIFICATION Spec
INVARIANTS
  LinearIsExact
