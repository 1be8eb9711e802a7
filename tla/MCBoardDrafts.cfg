CONSTANTS
  Starts <- MCStarts
  DeckCards <- MCDeck
  MaxDrags = 3
  MaxOvers = 3
  MaxTurns = 2
SPECIFICATION Spec
INVARIANTS EachCardOnce PlayIsAsShown UnmarkedIsAccepted TotalWithoutReclaims
CHECK_DEADLOCK FALSE
