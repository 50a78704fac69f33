CONSTANTS
  o = o
  a = a
  b = b
  Devices = {o, a, b}
  Owner = o
  AdminLimit = 1
  Met <- All
  MaxChanges = 2
  MaxDisturbances = 1
SPECIFICATION FairSpec
INVARIANTS TypeOK SameStampSameGroup OwnerStays
 
CHECK_DEADLOCK FALSE
