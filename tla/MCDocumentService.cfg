CONSTANTS
  MaxFiles = 2
  MaxVersions = 3
  MaxEdits = 2
  MaxFaults = 2
  MaxRestarts = 1
SPECIFICATION Spec
INVARIANTS TypeOK VersionsAreOrdered NothingIsLost EachKeySavesOnce
CHECK_DEADLOCK FALSE
