CONSTANTS
  Threads = {t1, t2}
  NoThread = NoThread
  BuiltinOrder <- TwoBuiltins
  OtherCodes <- NoCodes
  Definitions <- FullAndEmpty
  Requested <- AnyLanguage
  AllocMayFail = TRUE
SPECIFICATION FairSpec
INVARIANTS
  PartsFollowTheLanguage
  NeverEmpty
PROPERTIES
  SectionIsLeft
