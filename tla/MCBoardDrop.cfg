CONSTANTS
  Starts <- MCStarts
  DeckCards <- MCDeck
  MaxDrags = 3
  MaxOvers = 3
  MaxTurns = 2
SPECIFICATION Spec
CHECK_DEADLOCK FALSE
PROPERTY DropStages
