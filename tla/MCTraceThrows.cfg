CONSTANTS
  Threads = {t1, t2}
  Scopes = {read}
  MaxDepth = 2
  MaxTries = 1
  MaxStale = 1
  StreamMayThrow = TRUE
SPECIFICATION Spec
INVARIANTS
  NoLiveScopeMissing
  TryPathSurvives
CHECK_DEADLOCK FALSE
