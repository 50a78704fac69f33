SPECIFICATION Spec
CONSTANTS
  u1 = u1
  u2 = u2
  u3 = u3
  g = g
  h = h
  m1 = m1
  m2 = m2
  Clients = {u1, u2, u3}
  Conversations = {g, h}
  Messages = {m1, m2}
  Sender <- MCSender
  Contents = {x}
  MaxEvents = 4
  MaxSessionEvents = 1
SYMMETRY ConversationSymmetry
INVARIANTS
  TypeOK
  SeqsAreContiguous
  LogTellsStates
PROPERTIES
  NewRowsAreAnnounced
  NothingIsTakenBack
  ImplementsLedger
