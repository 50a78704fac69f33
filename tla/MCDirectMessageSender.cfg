CONSTANTS
  Self = self
  Peer = peer
  Messages = {m1}
  Conversation = direct
  Mode = "ServerPreferred"
  AllowP2PFallback = TRUE
  MaxFaults = 2
  MaxConnections = 1
  MaxInFlight = 1
SPECIFICATION FairSpec
INVARIANTS TypeOK ClaimsAreTrue EventsFindTheirMessage
PROPERTIES EventuallyDelivered
