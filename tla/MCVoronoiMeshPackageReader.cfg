CONSTANTS
  IndexLimit = 4
  Packages <- AllPackages
  Attributes <- PackageAttributes
  Groups <- PackageGroups
SPECIFICATION Spec
INVARIANTS
  HandlesAreOwned
  FileOutlivesItsParts
  MeshMeansNothingFailed
  
  AcceptedMeshIsNavigable
  NeighboursAreMutual
  RefusalsAreExplained
CHECK_DEADLOCK FALSE
