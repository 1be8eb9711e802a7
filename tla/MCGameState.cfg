SPECIFICATION Spec
CONSTANTS
  Deck <- MCDeck
  GameDeck <- MCGameDeck
  Orders <- MCFixedOrder
  Layouts <- MCLayouts
  NumPlayers = 2
  InitialHandSize = 4
  OpeningPoints = 14
  PointsLimit = 30
  CutSizes = {0}
  MaxNewComps = 1
  MaxAdditions = 1
  MaxAdded = 1
  MaxReclaims = 1
  MaxTurns = 3
  MaxRounds = 1
INVARIANTS
  CardsConserved
  DrawNeverBlocks
  HandStaysBounded
CHECK_DEADLOCK FALSE
