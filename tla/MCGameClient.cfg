CONSTANTS
  MaxEvents = 3
  MaxRequests = 1
  Commands <- AllCommands
SPECIFICATION Spec
INVARIANTS OneLiveSocket ResolvedWasApplied
PROPERTIES SessionLostWithItsSocket Reconnects ActionsSettle
CHECK_DEADLOCK FALSE
