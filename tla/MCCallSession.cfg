CONSTANTS
  Devices = {a, b}
  Calls = {c1, c2}
  None = None
  MaxLosses = 1
  MaxToggles = 3
SPECIFICATION FairSpec
INVARIANTS TypeOK ActiveIsAnswered
PROPERTIES RingingEnds ActiveCallEndsTogether ControlEndsWithSharing
CHECK_DEADLOCK FALSE
