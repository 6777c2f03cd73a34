CONSTANTS
  Threads = {t1, t2}
  Scopes = {read, compute}
  MaxDepth = 2
  MaxTries = 2
  MaxStale = 0
  StreamMayThrow = FALSE
SPECIFICATION Spec
SYMMETRY ThreadSymmetry
INVARIANTS
  TypeOK
  TraceIsActivePath
  UnwindingKeepsThrowPath
PROPERTIES
  HandlerRestoresTrace
CHECK_DEADLOCK FALSE
