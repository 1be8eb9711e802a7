SPECIFICATION Spec
CONSTANTS
  PageSize = 2
  FirstOpen = 3
  MaxReports = 4
  MaxTurns = 2
  MaxTrouble = 1
INVARIANTS
  CompletedStaysGone
PROPERTIES
  TurnsBackWhenEmptied
  CompletionSettles
CHECK_DEADLOCK FALSE
