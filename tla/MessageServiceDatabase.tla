------------------------ MODULE MessageServiceDatabase ------------------------
(***************************************************************************)
(* The store of the message service (src/src/fileservice/                  *)
(* MessageServiceDatabase.cpp): the SQLite tables messages,                *)
(* message_deliveries, conversation_members, conversation_cursors and      *)
(* message_events, and the transactions that change them.                  *)
(*                                                                         *)
(* QHttpServer runs every route on the service's one event loop, so a      *)
(* request is one step; a request whose transaction fails is rolled back   *)
(* and is a stuttering step here.                                          *)
(***************************************************************************)
EXTENDS Integers, Sequences, FiniteSets, FiniteSetsExt

CONSTANTS
  Clients,        \* client ids
  Conversations,  \* conversation ids
  Messages,       \* (sender_id, client_message_id) pairs
  Sender,         \* the sender_id half of each pair
  Contents        \* the other immutable fields: type, body, payload, file...

ASSUME SenderAssumption == Sender \in [Messages -> Clients]

VARIABLES
  messages,    \* table messages, by (sender_id, client_message_id)
  deliveries,  \* table message_deliveries, by message and recipient
  members,     \* table conversation_members: the role of each client
  cursors,     \* table conversation_cursors
  events       \* table message_events; event_id is the index

dbVars == <<messages, deliveries, members, cursors, events>>

Roles == {"none", "member", "sender"}
MessageRow == [conversation : Conversations, content : Contents, seq : Nat \ {0}]
NoMessage == [seq |-> 0]
DeliveryRow ==
  [state : {"none", "pending", "delivered", "read"},
   deliveredAt : BOOLEAN, readAt : BOOLEAN]
NoDelivery == [state |-> "none", deliveredAt |-> FALSE, readAt |-> FALSE]
PendingDelivery == [state |-> "pending", deliveredAt |-> FALSE, readAt |-> FALSE]
Cursor == [received : Nat, read : Nat]

Stored == {m \in Messages : messages[m] # NoMessage}
StoredIn(c) == {m \in Stored : messages[m].conversation = c}
HasRow(m, r) == deliveries[m][r] # NoDelivery
Seqs(c) == {messages[m].seq : m \in StoredIn(c)}

\* The sequence number of the newest message of a conversation, 0 if none.
LatestSeq(c) == IF Seqs(c) = {} THEN 0 ELSE Max(Seqs(c))

(***************************************************************************)
(* The event log.  A message event names the recipient (the sender for     *)
(* message.created); a session event belongs to the reserved conversation. *)
(***************************************************************************)
SessionsConversation == "__sessions__"
MessageEvent ==
  [type : {"message.created", "message.delivered", "message.read"},
   message : Messages, client : Clients]
SessionEvent ==
  [type : {"session.online", "session.offline"}, client : Clients]
IsSessionEvent(e) == e.type \in {"session.online", "session.offline"}

CreatedEvent(m) ==
  [type |-> "message.created", message |-> m, client |-> Sender[m]]
DeliveredEvent(m, r) ==
  [type |-> "message.delivered", message |-> m, client |-> r]
ReadEvent(m, r) == [type |-> "message.read", message |-> m, client |-> r]

Init ==
  /\ messages = [m \in Messages |-> NoMessage]
  /\ deliveries = [m \in Messages |-> [r \in Clients |-> NoDelivery]]
  /\ members = [c \in Conversations |-> [u \in Clients |-> "none"]]
  /\ cursors = [c \in Conversations |-> [u \in Clients |-> [received |-> 0, read |-> 0]]]
  /\ events = << >>

-----------------------------------------------------------------------------
(* Helpers of the transactions.  An operator whose comment begins with     *)
(* "Faulty" is a version of the next definition with a plausible mistake:  *)
(* it is part of no specification, and the properties below tell it from   *)
(* the right one (see the README).                                         *)

\* Faulty: MAX(server_seq) without the + 1.
ReusedConversationSeq(c) == LatestSeq(c)
\* Faulty: the number is taken from the table instead of from the conversation.
NextTableSeq(c) == Cardinality(Stored) + 1
NextConversationSeq(c) == LatestSeq(c) + 1

\* The raw list without the sender; blanks and duplicates do not exist in a set.
NormalizedRecipients(m, raw) == raw \ {Sender[m]}

\* A sender stays a sender; every other upsert writes the given role.
UpsertedRole(old, role) == IF old = "sender" THEN "sender" ELSE role

\* upsertConversationMember for each of a set of clients.
WithRole(roles, clients, role) ==
  [u \in Clients |-> IF u \in clients THEN UpsertedRole(roles[u], role) ELSE roles[u]]

\* Faulty: only read_seq is kept from going back.
OverwrittenCursor(old, received, read) ==
  [received |-> received, read |-> IF read > old.read THEN read ELSE old.read]
\* upsertCursor: both columns only grow.
UpsertedCursor(old, received, read) ==
  [received |-> IF received > old.received THEN received ELSE old.received,
   read |-> IF read > old.read THEN read ELSE old.read]

\* Faulty: INSERT OR REPLACE.
WithReplacedRows(rows, recipients) ==
  [u \in Clients |-> IF u \in recipients THEN PendingDelivery ELSE rows[u]]
\* INSERT OR IGNORE of a pending row for each recipient.
WithPendingRows(rows, recipients) ==
  [u \in Clients |->
     IF u \in recipients /\ rows[u] = NoDelivery THEN PendingDelivery ELSE rows[u]]

-----------------------------------------------------------------------------
(* storeMessage.                                                           *)

\* The first request for m: assign the next sequence number, enrol sender and
\* recipients, open the delivery rows, append message.created.
StoreNewMessage(m, c, content, raw) ==
  LET recipients == NormalizedRecipients(m, raw) IN
  /\ messages[m] = NoMessage
  /\ recipients # {}
  /\ messages' = [messages EXCEPT ![m] =
       [conversation |-> c, content |-> content, seq |-> NextConversationSeq(c)]]
  /\ deliveries' = [deliveries EXCEPT ![m] = WithPendingRows(@, recipients)]
  /\ members' = [members EXCEPT ![c] =
       WithRole(WithRole(@, {Sender[m]}, "sender"), recipients, "member")]
  /\ events' = Append(events, CreatedEvent(m))
  /\ UNCHANGED cursors

\* Faulty: the new recipients are not announced.
MergeSilently(m, c, content, raw) ==
  LET recipients == NormalizedRecipients(m, raw) IN
  /\ messages[m] # NoMessage
  /\ recipients # {}
  /\ messages[m].conversation = c /\ messages[m].content = content
  /\ deliveries' = [deliveries EXCEPT ![m] = WithPendingRows(@, recipients)]
  /\ members' = [members EXCEPT ![c] = WithRole(@, recipients, "member")]
  /\ UNCHANGED <<messages, cursors, events>>

\* A retry that carries the stored fields: recipients without a delivery row get
\* one, and if there is any, message.created is appended again for them.
MergeDuplicate(m, c, content, raw) ==
  LET recipients == NormalizedRecipients(m, raw)
      added == {r \in recipients : ~HasRow(m, r)}
  IN
  /\ messages[m] # NoMessage
  /\ recipients # {}
  /\ messages[m].conversation = c /\ messages[m].content = content
  /\ deliveries' = [deliveries EXCEPT ![m] = WithPendingRows(@, recipients)]
  /\ members' = [members EXCEPT ![c] = WithRole(@, recipients, "member")]
  /\ events' = IF added # {} THEN Append(events, CreatedEvent(m)) ELSE events
  /\ UNCHANGED <<messages, cursors>>

\* A retry whose fields differ is answered with the original row and changes nothing.
IgnoreConflictingDuplicate(m, c, content, raw) ==
  /\ messages[m] # NoMessage
  /\ NormalizedRecipients(m, raw) # {}
  /\ messages[m].conversation # c \/ messages[m].content # content
  /\ UNCHANGED dbVars

StoreMessage(m, c, content, raw) ==
  \/ StoreNewMessage(m, c, content, raw)
  \/ MergeDuplicate(m, c, content, raw)
  \/ IgnoreConflictingDuplicate(m, c, content, raw)

-----------------------------------------------------------------------------
(* The acknowledgements.  CanMark is what both answer 404 without.         *)

CanMark(m, r) == messages[m] # NoMessage /\ HasRow(m, r)

\* Faulty: delivered_at is not consulted before message.delivered is logged.
MarkDeliveredLoggingRetries(m, r, receivedSeq) ==
  LET row == deliveries[m][r] IN
  /\ CanMark(m, r)
  /\ deliveries' = [deliveries EXCEPT ![m][r] =
       [state |-> IF row.state = "read" THEN "read" ELSE "delivered",
        deliveredAt |-> TRUE,
        readAt |-> row.readAt]]
  /\ cursors' = [cursors EXCEPT ![messages[m].conversation][r] =
       UpsertedCursor(@, receivedSeq, 0)]
  /\ events' = IF ~row.readAt THEN Append(events, DeliveredEvent(m, r)) ELSE events
  /\ UNCHANGED <<messages, members>>

MarkDelivered(m, r, receivedSeq) ==
  LET row == deliveries[m][r]
      c == messages[m].conversation
  IN
  /\ CanMark(m, r)
  /\ deliveries' = [deliveries EXCEPT ![m][r] =
       [state |-> IF row.state = "read" THEN "read" ELSE "delivered",
        deliveredAt |-> TRUE,
        readAt |-> row.readAt]]
  /\ cursors' = [cursors EXCEPT ![c][r] = UpsertedCursor(@, receivedSeq, 0)]
  /\ events' = IF ~row.deliveredAt /\ ~row.readAt
               THEN Append(events, DeliveredEvent(m, r)) ELSE events
  /\ UNCHANGED <<messages, members>>

MarkRead(m, r, readSeq) ==
  LET row == deliveries[m][r]
      c == messages[m].conversation
  IN
  /\ CanMark(m, r)
  /\ deliveries' = [deliveries EXCEPT ![m][r] =
       [state |-> "read", deliveredAt |-> TRUE, readAt |-> TRUE]]
  /\ cursors' = [cursors EXCEPT ![c][r] = UpsertedCursor(@, readSeq, readSeq)]
  /\ events' = IF ~row.readAt THEN Append(events, ReadEvent(m, r)) ELSE events
  /\ UNCHANGED <<messages, members>>

\* appendSessionStatusEvent, an insert of its own outside any transaction.
AppendSessionStatusEvent(type, u) ==
  /\ events' = Append(events, [type |-> type, client |-> u])
  /\ UNCHANGED <<messages, deliveries, members, cursors>>

-----------------------------------------------------------------------------
(* The queries.                                                            *)

IsConversationMember(c, u) == members[c][u] # "none"

\* The elements of a set of numbers that LIMIT leaves: the smallest ones.
Limited(S, limit) == {i \in S : Cardinality({j \in S : j <= i}) <= limit}

\* Membership is the one at query time, also for older events.
VisibleTo(e, u) ==
  IsSessionEvent(e) \/ IsConversationMember(messages[e.message].conversation, u)

ListMessageEventsAfterForClient(u, after, limit) ==
  Limited({i \in (after + 1)..Len(events) : VisibleTo(events[i], u)}, limit)

\* Not restricted to the recipient's own rows: every message of the conversation.
ListMessagesAfterSeq(c, after, limit) ==
  LET page == Limited({s \in Seqs(c) : s > after}, limit)
  IN  {m \in StoredIn(c) : messages[m].seq \in page}

ListConversationsForMember(u) ==
  {c \in Conversations : StoredIn(c) # {} /\ IsConversationMember(c, u)}

-----------------------------------------------------------------------------
(* Clients acknowledge a delivery with the sequence number of the record   *)
(* and a read with their conversation cursor, which is one of the numbers  *)
(* the conversation has reached.                                           *)

CONSTANTS           \* bounds for model checking
  MaxEvents,        \* on the length of the event log
  MaxSessionEvents  \* on the session events in it

SessionEventCount == Cardinality({i \in DOMAIN events : IsSessionEvent(events[i])})

Next ==
  /\ \/ \E m \in Messages, c \in Conversations, b \in Contents, raw \in SUBSET Clients :
          StoreMessage(m, c, b, raw)
     \/ \E m \in Messages, r \in Clients : MarkDelivered(m, r, messages[m].seq)
     \/ \E m \in Stored, r \in Clients :
          \E s \in 0..LatestSeq(messages[m].conversation) : MarkRead(m, r, s)
     \/ \E u \in Clients, t \in {"session.online", "session.offline"} :
          SessionEventCount < MaxSessionEvents /\ AppendSessionStatusEvent(t, u)
  /\ Len(events') <= MaxEvents

Spec == Init /\ [][Next]_dbVars

-----------------------------------------------------------------------------
(* Properties.                                                             *)

\* Every table holds rows of its columns' types.
TypeOK ==
  /\ messages \in [Messages -> MessageRow \cup {NoMessage}]
  /\ deliveries \in [Messages -> [Clients -> DeliveryRow]]
  /\ members \in [Conversations -> [Clients -> Roles]]
  /\ cursors \in [Conversations -> [Clients -> Cursor]]
  /\ events \in Seq(MessageEvent \cup SessionEvent)

\* The sequence numbers of a conversation are 1, 2, ... without a hole and without
\* a repetition, however requests are retried: a client that pages with "afterSeq =
\* the last one seen" meets every message once.
SeqsAreContiguous ==
  \A c \in Conversations :
    /\ Seqs(c) = 1..LatestSeq(c)
    /\ \A m, n \in StoredIn(c) : messages[m].seq = messages[n].seq => m = n

\* The event log and the delivery table tell the same story: a row is read exactly
\* if its message.read was logged, and merely delivered exactly if message.delivered
\* was logged and message.read was not. A sender that replays the log learns the
\* state of every recipient.
EventsMatchRows ==
  \A m \in Messages, r \in Clients :
    LET logged(e) == \E i \in DOMAIN events : events[i] = e IN
    /\ deliveries[m][r].state = "read" <=> logged(ReadEvent(m, r))
    /\ deliveries[m][r].state = "delivered" <=>
         logged(DeliveredEvent(m, r)) /\ ~logged(ReadEvent(m, r))

\* Retried acknowledgements are not logged twice, and message.delivered never
\* follows the message.read of the same recipient.
StateEventsAreOrdered ==
  \A i, j \in DOMAIN events :
    LET e == events[i]
        f == events[j]
    IN  i < j =>
          /\ e.type \in {"message.delivered", "message.read"} => e # f
          /\ e.type = "message.read" /\ f.type = "message.delivered" =>
               <<e.message, e.client>> # <<f.message, f.client>>

\* A client that replays the log learns the state of every row, in the order in which
\* the row went through them.
LogTellsStates == EventsMatchRows /\ StateEventsAreOrdered

\* A recipient never gets a row silently: the step that opens the row appends a
\* message.created of that message, which the recipient can see.
NewRowsAreAnnounced ==
  [][\A m \in Messages, r \in Clients :
       ~HasRow(m, r) /\ HasRow(m, r)' =>
         /\ events' = Append(events, CreatedEvent(m))
         /\ VisibleTo(CreatedEvent(m), r)']_dbVars

StateRank == [none |-> 0, pending |-> 1, delivered |-> 2, read |-> 3]

\* Nothing is taken back: stored messages keep their fields and number, a delivery
\* row never moves to an earlier state, a member stays, no cursor goes back or past
\* the conversation when acknowledgements come in another order, logged events stay.
NothingIsTakenBack ==
  [][/\ \A m \in Stored : messages'[m] = messages[m]
     /\ \A m \in Messages, r \in Clients :
          StateRank[deliveries[m][r].state] <= StateRank[deliveries'[m][r].state]
     /\ \A c \in Conversations, u \in Clients :
          /\ IsConversationMember(c, u) => IsConversationMember(c, u)'
          /\ members[c][u] = "sender" => members'[c][u] = "sender"
          /\ cursors[c][u].received <= cursors'[c][u].received
          /\ cursors[c][u].read <= cursors'[c][u].read
          /\ cursors'[c][u].received <= LatestSeq(c)'
     /\ SubSeq(events', 1, Len(events)) = events]_dbVars

\* Retries, merges and sequence numbers add nothing to what is promised: the state
\* column and the event log alone behave as a delivery ledger.
Ledger == INSTANCE DeliveryLedger WITH
  status <- [m \in Messages |-> [r \in Clients |-> deliveries[m][r].state]],
  journal <- events
ImplementsLedger == Ledger!Spec
=============================================================================
