SPECIFICATION Spec
CONSTANTS
  Stored <- MCStored
  Workers <- MCWorkers
  MaxActions = 2
INVARIANTS
  TextIsTemplate
  AllRowsTested
PROPERTIES
  RenamesReachRules
  EditIsOffered
CHECK_DEADLOCK FALSE
