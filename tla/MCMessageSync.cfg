SPECIFICATION FairSpec
CONSTANTS
  a = a
  b = b
  me = me
  g = g
  m1 = m1
  m2 = m2
  Self = me
  Clients = {a, me}
  Conversations = {g}
  Messages = {m1, m2}
  Sender <- AllFromA
  Home <- OneConversation
  DirectMessages = {m2}
  Contents = {x}
  PageLimit = 1
  MaxEvents = 5
  MaxSessionEvents = 1
  MaxLosses = 1
  MaxServerErrors = 0
  MaxCrashes = 2
  MaxOpenings = 0
INVARIANTS
  NothingIsSkipped
  PendingRowsAreQueued
PROPERTIES
  EventuallyDelivered
