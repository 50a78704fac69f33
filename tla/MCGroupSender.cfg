CONSTANTS
  Self = self
  Peers = {p1, p2}
  Messages = {m1}
  Group = group
  Settings = {"serverPreferred", "serverOnly", "p2pOnly"}
  MaxFaults = 1
SPECIFICATION FairSpec
INVARIANTS TypeOK NobodyIsForgotten
PROPERTIES EventuallyEverywhere
CHECK_DEADLOCK FALSE
