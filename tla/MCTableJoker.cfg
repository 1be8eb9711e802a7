SPECIFICATION TableSpec
CONSTANTS
  Cards <- MCMiddleDeck
  MaxLaid = 4
  MaxInserted = 1
INVARIANT RunJokerStandsForOneCard
CHECK_DEADLOCK FALSE
