SPECIFICATION Spec
CONSTANTS
  NumPlayers = 3
  Viewer = 1
  HandSize = 3
  Gains = {5, 50}
  FirstTotals <- MCTotals
  MaxMoves = 4
INVARIANTS
  ResultsAccounted
  AnimationsAreReal
PROPERTIES
  ScoresInTurn
  ResultsSettle
CHECK_DEADLOCK FALSE
