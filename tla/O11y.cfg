CONSTANTS
  MaxEvents = 3
  Values = {1, 3}
  Width = 4
SPECIFICATION Spec
INVARIANTS TypeOK EventsKept NoSleepThroughWork
PROPERTIES EventuallyWritten Exits
CHECK_DEADLOCK FALSE
