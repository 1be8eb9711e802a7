SPECIFICATION TableSpec
CONSTANTS
  Cards <- MCDeck
  MaxLaid = 4
  MaxInserted = 1
INVARIANTS
  RunValidityIsExact
  RestoreNeverRefuses
  ReclaimKeepsTheRest
CHECK_DEADLOCK FALSE
