SPECIFICATION Spec
CONSTANTS
  p1 = p1
  p2 = p2
  p3 = p3
  Players <- Pair
  NoOne = NoOne
  MaxInFlight = 1
  DeckSize = 108
PROPERTY GameOverEnds
