SPECIFICATION TableSpec
CONSTANTS
  Cards <- MCMiddleDeck
  MaxLaid = 3
  MaxInserted = 1
INVARIANT PointsFollowRepresentation
CHECK_DEADLOCK FALSE
