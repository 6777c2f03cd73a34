CONSTANTS
  Threads = {t1, t2}
  NoThread = NoThread
  BuiltinOrder <- TwoBuiltins
  OtherCodes <- HostCodes
  Definitions <- SomeDefinitions
  Requested <- English
  AllocMayFail = FALSE
SPECIFICATION Spec
INVARIANTS
  BuiltinsAllOrNone
PROPERTIES
  ImplementsCatalogue
