SPECIFICATION Spec
CONSTANTS
  Deck <- MCRoundsCards
  GameDeck <- MCRoundsDeck
  Orders <- MCOrders
  Layouts <- NoLayouts
  NumPlayers = 3
  InitialHandSize = 2
  OpeningPoints = 14
  PointsLimit = 12
  CutSizes = {0}
  MaxNewComps = 1
  MaxAdditions = 0
  MaxAdded = 0
  MaxReclaims = 0
  MaxTurns = 3
  MaxRounds = 2
INVARIANTS
  TurnIsPlayable
  NobodyPlaysAboveLimit
  WinnerHasFewestPoints
PROPERTY
  AdjustmentKeepsRanking
CHECK_DEADLOCK FALSE
