CONSTANTS
  MaxFiles = 1
  MaxVersions = 2
  MaxEdits = 2
  MaxFaults = 0
  MaxRestarts = 0
SPECIFICATION Spec
PROPERTIES FinishedEditsAreSaved
CHECK_DEADLOCK FALSE
