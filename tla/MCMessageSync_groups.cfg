SPECIFICATION Spec
SYMMETRY Symmetry
CONSTANTS
  a = a
  b = b
  me = me
  g = g
  m1 = m1
  m2 = m2
  Self = me
  Clients = {a, b, me}
  Conversations = {g}
  Messages = {m1, m2}
  Sender <- AllFromA
  Home <- OneConversation
  DirectMessages = {}
  Contents = {x}
  PageLimit = 1
  MaxEvents = 3
  MaxSessionEvents = 0
  MaxLosses = 0
  MaxServerErrors = 1
  MaxCrashes = 0
  MaxOpenings = 1
INVARIANTS
  ReportsAreTrue
