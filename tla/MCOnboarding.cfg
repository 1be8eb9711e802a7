SPECIFICATION Spec
CONSTANTS
  MaxDetours = 7
  MaxFaults = 2
INVARIANTS
  LessonHolds
  AppNeedsRecord
PROPERTIES
  Finishes
CHECK_DEADLOCK FALSE
