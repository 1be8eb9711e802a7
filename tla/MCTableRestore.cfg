SPECIFICATION TableSpec
CONSTANTS
  Cards <- MCMiddleDeck
  MaxLaid = 5
  MaxInserted = 2
INVARIANT RestoreIsIdentity
CHECK_DEADLOCK FALSE
