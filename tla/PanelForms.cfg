SPECIFICATION PanelSpec
CONSTANTS
  Ids = {a, b, c}
  Stored = {a, b}
  MaxActions = 2
  Children = {child1, child2}
  MaxTouched = 2
  MaxCerts = 2
  MaxParts = 2
SYMMETRY Symmetry
CHECK_DEADLOCK FALSE
INVARIANTS OneSocketOrTimer ListIsCurrent Submittable VisibleIsSent KeepsClients OutFieldsSent OutReadsBack LinkConnects
PROPERTY BulkTriesAll
