SPECIFICATION TableSpec
CONSTANTS
  Cards <- MCJokerDeck
  MaxLaid = 3
  MaxInserted = 1
INVARIANT JokersKeepTheirPlaces
CHECK_DEADLOCK FALSE
