CONSTANTS
  CustomNames <- MCNames
  CustomBuilders <- MCBuilders
  MaxNesting = 2
SPECIFICATION Spec
INVARIANTS
  NamesRunTheirBuilder
PROPERTIES
  OnlyTheHostReplacesRunning
