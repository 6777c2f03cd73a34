CONSTANTS
  Words <- MCWords
  Plans <- MCPlans
  Damaged <- MCDamaged
  Unit <- WholeWeight
  HostWeight <- NoPolicy
  Cases <- MCCases
  MaxInteger = 20
  MaxReal = 25
  MaxCount = 63
  MaxSize = 40
  Memory = 24
  NaN = NaN
SPECIFICATION ExampleSpec
INVARIANTS
  TextIsReadAsWritten
  NothingIsMadeUp
  EndsAsExplained
  FixtureIsReconstructed
PROPERTIES
  InputIsLeft
CHECK_DEADLOCK FALSE
