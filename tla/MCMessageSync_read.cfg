SPECIFICATION FairSpec
CONSTANTS
  a = a
  b = b
  me = me
  g = g
  m1 = m1
  m2 = m2
  Self = me
  Clients = {a, me}
  Conversations = {g}
  Messages = {m1}
  Sender <- OnlyM1FromA
  Home <- OnlyM1InG
  DirectMessages = {}
  Contents = {x}
  PageLimit = 1
  MaxEvents = 6
  MaxSessionEvents = 0
  MaxLosses = 2
  MaxServerErrors = 0
  MaxCrashes = 1
  MaxOpenings = 2
INVARIANTS
  TypeOK
PROPERTIES
  EventuallyReported
