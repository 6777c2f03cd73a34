CONSTANTS
  IndexLimit = 4
  Packages <- AllPackages
  Attributes <- PackageAttributes
  Groups <- PackageGroups
SPECIFICATION Spec
INVARIANTS
  AcceptedFollowsTheRules
CHECK_DEADLOCK FALSE
