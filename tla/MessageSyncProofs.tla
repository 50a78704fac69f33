-------------------------- MODULE MessageSyncProofs --------------------------
(***************************************************************************)
(* Proofs about the receiving device and the service, for every set of     *)
(* clients, conversations and messages and every bound.                    *)
(*                                                                         *)
(* A run, the readReceiptsFlushed handler and the worker act on what they  *)
(* loaded earlier, while others change the tables of both sides.  The      *)
(* invariant says what stays true of it meanwhile: of each acknowledgement *)
(* a flush still has to send, and of what the worker has marked.           *)
(***************************************************************************)
EXTENDS MessageSync, TLAPS, SequenceTheorems

\* The service's store with what is proved about it.
Store == INSTANCE MessageServiceDatabaseProofs

-----------------------------------------------------------------------------
(* The inductive invariant.                                                *)

ServerInv ==
  /\ Store!LogInv /\ Store!ShapeInv
  /\ \A m \in Store!Stored : messages[m].conversation = Home[m]
  /\ \A i \in DOMAIN events :
       events[i].type = "message.created" => events[i].message \in Store!Stored

\* The tables of the device. No cursor of a conversation is ahead of the service's numbers,
\* or the next message would be passed unseen.
TablesInv ==
  /\ inbox \in [Messages -> {"absent", "received", "read"}]
  /\ mapped \subseteq {m \in Store!Stored : inbox[m] # "absent"}
  /\ chatCursor \in [Conversations -> Nat]
  /\ \A c \in Conversations : chatCursor[c] <= Store!LatestSeq(c)
  /\ eventCursor \in 0 .. Len(events)
  /\ pendingDelivery \subseteq mapped
  /\ pendingRead \in [Messages -> Nat \cup {NotQueued}]
  /\ NothingIsSkipped
  /\ ReportsAreTrue

Stacks == {<< >>, <<"run">>, <<"reader">>, <<"run", "reader">>, <<"reader", "run">>}

Acks == [message : Messages, seq : Nat]
Flushes == [acks : SUBSET Acks, reply : {NoReply} \cup [message : Messages, outcome : Outcomes]]

\* What a flush still has to send: deliveries of messages that the device has, and reads of
\* messages that it has marked, up to a number that it has synced.
DeliveryFlushes == {f \in Flushes : \A ack \in f.acks : ack.message \in mapped}
ReadFlushes ==
  {f \in Flushes : \A ack \in f.acks :
     /\ ack.message \in mapped /\ inbox[ack.message] = "read"
     /\ ack.seq <= chatCursor[Home[ack.message]]}

RunSteps == {"idle", "events", "sync", "ackDelivered", "ackRead", "heartbeat", "conversations"}
RunType ==
  [step : RunSteps, phase : {"consume", "reconcile"}, todo : SUBSET Conversations,
   failed : BOOLEAN, listed : BOOLEAN, nextEvent : Nat, final : BOOLEAN, flush : Flushes]

RunInv ==
  /\ run \in RunType /\ run.nextEvent <= Len(events)
  /\ run.step = "ackDelivered" => run.flush \in DeliveryFlushes
  /\ run.step = "ackRead" => run.flush \in ReadFlushes

\* The worker's targets are read once it has consumed them.
WorkerInv ==
  /\ worker \in [step : {"idle", "consume", "cursor", "enqueue", "done"},
                 conversation : Conversations \cup {"none"}, targets : SUBSET Messages,
                 readSeq : Nat]
  /\ worker.step # "idle" => worker.conversation \in Conversations
  /\ \A m \in worker.targets :
       /\ Home[m] = worker.conversation /\ inbox[m] # "absent"
       /\ worker.step # "consume" => inbox[m] = "read"
  /\ worker.step = "enqueue" => worker.readSeq <= chatCursor[worker.conversation]

Inv ==
  /\ ServerInv /\ TablesInv
  /\ frames \in Stacks
  /\ RunInv
  /\ reader \in ReadFlushes
  /\ WorkerInv
  /\ due \in BOOLEAN

-----------------------------------------------------------------------------
(* The store.                                                              *)

LEMMA SenderIsClient == Sender \in [Messages -> Clients]
BY PeersAssumption

LEMMA SameTables ==
  /\ DB!Init => Store!Init
  /\ DB!TypeOK <=> Store!TypeOK
  /\ DB!Stored = Store!Stored /\ DB!NoMessage = Store!NoMessage
  /\ \A m, r : DB!HasRow(m, r) <=> Store!HasRow(m, r)
  /\ \A m, r : DB!CanMark(m, r) <=> Store!CanMark(m, r)
<1>1. DB!Init => Store!Init
  BY DEF DB!Init, Store!Init, DB!NoMessage, Store!NoMessage, DB!NoDelivery, Store!NoDelivery
<1>2. DB!TypeOK <=> Store!TypeOK
  BY DEF DB!TypeOK, Store!TypeOK, DB!MessageRow, Store!MessageRow, DB!NoMessage, Store!NoMessage,
     DB!DeliveryRow, Store!DeliveryRow, DB!Roles, Store!Roles, DB!Cursor, Store!Cursor,
     DB!MessageEvent, Store!MessageEvent, DB!SessionEvent, Store!SessionEvent
<1>3. DB!Stored = Store!Stored /\ DB!NoMessage = Store!NoMessage
  BY DEF DB!Stored, Store!Stored, DB!NoMessage, Store!NoMessage
<1>4. \A m, r : DB!HasRow(m, r) <=> Store!HasRow(m, r)
  BY DEF DB!HasRow, Store!HasRow, DB!NoDelivery, Store!NoDelivery
<1>5. \A m, r : DB!CanMark(m, r) <=> Store!CanMark(m, r)
  BY <1>3, <1>4 DEF DB!CanMark, Store!CanMark
<1> QED
  BY <1>1, <1>2, <1>3, <1>4, <1>5

LEMMA SameQueries ==
  /\ \A c : DB!LatestSeq(c) = Store!LatestSeq(c)
  /\ \A c, after, limit :
       DB!ListMessagesAfterSeq(c, after, limit) = Store!ListMessagesAfterSeq(c, after, limit)
<1>1. \A S : DB!Max(S) = Store!Max(S)
  BY DEF DB!Max, Store!Max
<1>2. ASSUME NEW c PROVE DB!StoredIn(c) = Store!StoredIn(c) /\ DB!Seqs(c) = Store!Seqs(c)
  BY SameTables DEF DB!StoredIn, Store!StoredIn, DB!Seqs, Store!Seqs
<1>3. ASSUME NEW c PROVE DB!LatestSeq(c) = Store!LatestSeq(c)
  BY <1>1, <1>2 DEF DB!LatestSeq, Store!LatestSeq
<1>4. \A S : DB!Cardinality(S) = Store!Cardinality(S)
  BY DEF DB!Cardinality, Store!Cardinality
<1>5. \A S, limit : DB!Limited(S, limit) = Store!Limited(S, limit)
  BY <1>4 DEF DB!Limited, Store!Limited
<1>6. ASSUME NEW c, NEW after, NEW limit
      PROVE  DB!ListMessagesAfterSeq(c, after, limit) = Store!ListMessagesAfterSeq(c, after, limit)
  BY <1>2, <1>5 DEF DB!ListMessagesAfterSeq, Store!ListMessagesAfterSeq
<1> QED
  BY <1>3, <1>6

LEMMA SameTransactions ==
  /\ \A m, c, b, raw : DB!StoreMessage(m, c, b, raw) => Store!StoreMessage(m, c, b, raw)
  /\ \A m, r, s : DB!MarkDelivered(m, r, s) => Store!MarkDelivered(m, r, s)
  /\ \A m, r, s : DB!MarkRead(m, r, s) => Store!MarkRead(m, r, s)
<1>1. ASSUME NEW m, NEW c, NEW b, NEW raw, DB!StoreMessage(m, c, b, raw)
      PROVE  Store!StoreMessage(m, c, b, raw)
  <2>0. \A x : DB!NextConversationSeq(x) = Store!NextConversationSeq(x)
    BY SameQueries DEF DB!NextConversationSeq, Store!NextConversationSeq
  <2>1. CASE DB!StoreNewMessage(m, c, b, raw)
    BY <2>0, <2>1 DEF DB!StoreNewMessage, Store!StoreMessage, Store!StoreNewMessage,
       DB!NoMessage, Store!NoMessage, DB!NormalizedRecipients, Store!NormalizedRecipients,
       DB!WithPendingRows, Store!WithPendingRows, DB!NoDelivery, Store!NoDelivery,
       DB!PendingDelivery, Store!PendingDelivery, DB!WithRole, Store!WithRole,
       DB!UpsertedRole, Store!UpsertedRole, DB!CreatedEvent, Store!CreatedEvent
  <2>2. CASE DB!MergeDuplicate(m, c, b, raw)
    BY <2>2 DEF DB!MergeDuplicate, Store!StoreMessage, Store!MergeDuplicate,
       DB!NoMessage, Store!NoMessage, DB!NormalizedRecipients, Store!NormalizedRecipients,
       DB!WithPendingRows, Store!WithPendingRows, DB!NoDelivery, Store!NoDelivery,
       DB!PendingDelivery, Store!PendingDelivery, DB!WithRole, Store!WithRole,
       DB!UpsertedRole, Store!UpsertedRole, DB!CreatedEvent, Store!CreatedEvent,
       DB!HasRow, Store!HasRow
  <2>3. CASE DB!IgnoreConflictingDuplicate(m, c, b, raw)
    BY <2>3 DEF DB!IgnoreConflictingDuplicate, Store!StoreMessage, Store!IgnoreConflictingDuplicate,
       DB!NoMessage, Store!NoMessage, DB!NormalizedRecipients, Store!NormalizedRecipients,
       DB!dbVars, Store!dbVars
  <2> QED
    BY <1>1, <2>1, <2>2, <2>3 DEF DB!StoreMessage
<1>2. \A m, r, s : DB!MarkDelivered(m, r, s) => Store!MarkDelivered(m, r, s)
  BY SameTables DEF DB!MarkDelivered, Store!MarkDelivered, DB!UpsertedCursor, Store!UpsertedCursor,
     DB!DeliveredEvent, Store!DeliveredEvent
<1>3. \A m, r, s : DB!MarkRead(m, r, s) => Store!MarkRead(m, r, s)
  BY SameTables DEF DB!MarkRead, Store!MarkRead, DB!UpsertedCursor, Store!UpsertedCursor,
     DB!ReadEvent, Store!ReadEvent
<1> QED
  BY <1>1, <1>2, <1>3

\* What a step of others may do to the service: it adds messages at the end of their
\* conversations, opens rows and appends events.
Extended ==
  /\ Store!Stored \subseteq Store!Stored'
  /\ \A m \in Store!Stored : messages'[m] = messages[m]
  /\ \A m \in Store!Stored' \ Store!Stored : messages'[m].seq > Store!LatestSeq(Home[m])
  /\ \A c \in Conversations : Store!LatestSeq(c) <= Store!LatestSeq(c)'
  /\ \A m \in Messages :
       RowState(m)' # RowState(m) => RowState(m) = "none" /\ RowState(m)' = "pending"
  /\ Len(events) <= Len(events')
  /\ UNCHANGED cursors

\* Messages keep their fields when the log grows by an event about one of them.
LEMMA LogExtended ==
  ASSUME ServerInv, NEW e, events' = Append(events, e) \/ UNCHANGED events,
         e.type = "message.created" => e.message \in Store!Stored',
         Store!Stored \subseteq Store!Stored'
  PROVE  /\ \A i \in DOMAIN events' :
              events'[i].type = "message.created" => events'[i].message \in Store!Stored'
         /\ Len(events) <= Len(events')
<1> DEFINE S == Store!MessageEvent \cup Store!SessionEvent
<1>1. events \in Seq(S)
  BY DEF ServerInv, Store!LogInv, Store!TypeOK
<1>2. CASE UNCHANGED events
  <2>1. Len(events) \in Nat /\ DOMAIN events' = DOMAIN events
    BY <1>1, <1>2
  <2> QED
    BY <1>2, <2>1 DEF ServerInv
<1>3. CASE events' = Append(events, e)
  <2>1. /\ Len(events) \in Nat /\ Len(events') = Len(events) + 1
        /\ DOMAIN events' = 1 .. Len(events) + 1 /\ DOMAIN events = 1 .. Len(events)
        /\ \A i \in DOMAIN events : events'[i] = events[i]
        /\ events'[Len(events) + 1] = e
    BY <1>1, <1>3
  <2>2. \A i \in DOMAIN events' : i \in DOMAIN events \/ i = Len(events) + 1
    BY <2>1
  <2> QED
    BY <2>1, <2>2 DEF ServerInv
<1> QED
  BY <1>2, <1>3

\* Messages that keep their fields keep their conversations' numbers.
LEMMA NumbersGrow ==
  ASSUME ServerInv, Store!LogInv', \A m \in Store!Stored : messages'[m] = messages[m]
  PROVE  \A c \in Conversations :
           /\ Store!LatestSeq(c) \in Nat /\ Store!LatestSeq(c)' \in Nat
           /\ Store!LatestSeq(c) <= Store!LatestSeq(c)'
<1>1. ASSUME NEW c \in Conversations
      PROVE  Store!Contiguous(c) /\ Store!Contiguous(c)' /\ Store!Seqs(c) \subseteq Store!Seqs(c)'
  BY SenderIsClient, Store!ConversationsGrow DEF ServerInv, Store!LogInv
<1> QED
  BY SenderIsClient, <1>1, Store!LatestSeqGrows

\* storeMessage, called by another client.
LEMMA PostEffect ==
  ASSUME ServerInv, NEW m \in Messages, NEW b \in Contents, NEW raw \in SUBSET Clients,
         Store!StoreMessage(m, Home[m], b, raw)
  PROVE  ServerInv' /\ Extended
<1>0. Home[m] \in Conversations
  BY HomeAssumption
<1>1. CASE Store!StoreNewMessage(m, Home[m], b, raw) \/ Store!MergeDuplicate(m, Home[m], b, raw)
  <2> DEFINE recipients == Store!NormalizedRecipients(m, raw)
             row == [conversation |-> Home[m], content |-> b,
                     seq |-> Store!NextConversationSeq(Home[m])]
  <2>0. Store!LogInv /\ Store!ShapeInv /\ recipients \in SUBSET Clients
    BY DEF ServerInv, Store!NormalizedRecipients
  <2>1. Store!LogInv'
    BY SenderIsClient, <1>0, <1>1, <2>0, Store!StoreNewMessageLogInv, Store!MergeDuplicateLogInv
  <2>2. Store!OpensRows(m, recipients)
    BY SenderIsClient, <1>0, <1>1, <2>0, Store!StoreOpensRows
  <2>3. /\ Store!ShapeInv'
        /\ \A k \in Messages, r \in Clients :
             deliveries'[k][r] = IF k = m /\ r \in recipients /\ ~Store!HasRow(m, r)
                                 THEN Store!PendingDelivery ELSE deliveries[k][r]
    BY SenderIsClient, <2>0, <2>2, Store!OpensRowsEffect
  <2>4. m \in Store!Stored' /\ \A k \in Messages : k # m => messages'[k] = messages[k]
    BY <2>2 DEF Store!OpensRows, Store!Stored
  <2>5. \/ m \notin Store!Stored /\ messages'[m] = row
        \/ m \in Store!Stored /\ messages'[m] = messages[m]
    BY <1>1, <2>0 DEF Store!StoreNewMessage, Store!MergeDuplicate, Store!Stored,
       Store!LogInv, Store!TypeOK
  <2>6. /\ Store!Stored \subseteq Store!Stored'
        /\ \A k \in Store!Stored : messages'[k] = messages[k]
        /\ \A k \in Store!Stored' : k # m => k \in Store!Stored
    BY <2>4, <2>5 DEF Store!Stored
  <2>7. \A c \in Conversations :
          /\ Store!LatestSeq(c) \in Nat /\ Store!LatestSeq(c) <= Store!LatestSeq(c)'
    BY <2>1, <2>6, NumbersGrow
  <2>8. \A k \in Store!Stored' \ Store!Stored : messages'[k].seq > Store!LatestSeq(Home[k])
    BY <1>0, <2>5, <2>6, <2>7 DEF Store!NextConversationSeq
  <2>9. \A k \in Store!Stored' : messages'[k].conversation = Home[k]
    BY <2>5, <2>6 DEF ServerInv
  <2>10. /\ \A i \in DOMAIN events' :
              events'[i].type = "message.created" => events'[i].message \in Store!Stored'
         /\ Len(events) <= Len(events')
    <3>1. events' = Append(events, Store!CreatedEvent(m)) \/ UNCHANGED events
      BY <1>1 DEF Store!StoreNewMessage, Store!MergeDuplicate
    <3>2. Store!CreatedEvent(m).message \in Store!Stored'
      BY <2>4 DEF Store!CreatedEvent
    <3> QED
      BY <2>6, <3>1, <3>2, LogExtended
  <2>11. ASSUME NEW k \in Messages, RowState(k)' # RowState(k)
         PROVE  RowState(k) = "none" /\ RowState(k)' = "pending"
    <3>1. ~Store!HasRow(k, Self) => RowState(k) = "none"
      BY <2>0, SenderIsClient, PeersAssumption, Store!RowsByState DEF RowState
    <3> QED
      BY <2>3, <2>11, <3>1, PeersAssumption DEF RowState, Store!PendingDelivery
  <2>12. UNCHANGED cursors
    BY <1>1 DEF Store!StoreNewMessage, Store!MergeDuplicate
  <2> QED
    BY <2>1, <2>3, <2>6, <2>7, <2>8, <2>9, <2>10, <2>11, <2>12 DEF ServerInv, Extended
<1>2. CASE Store!IgnoreConflictingDuplicate(m, Home[m], b, raw)
  <2>1. UNCHANGED <<messages, deliveries, members, cursors, events>>
    BY <1>2 DEF Store!IgnoreConflictingDuplicate, Store!dbVars
  <2>2. Store!LogInv'
    BY SenderIsClient, <2>1, Store!NextLogInv DEF ServerInv, Store!dbVars
  <2>3. Store!Stored' = Store!Stored /\ Store!ShapeInv'
    BY <2>1 DEF ServerInv, Store!ShapeInv, Store!Stored
  <2>4. \A c \in Conversations : Store!LatestSeq(c) <= Store!LatestSeq(c)'
    BY <2>1, <2>2, NumbersGrow
  <2>5. Len(events) <= Len(events')
    BY <2>1 DEF ServerInv, Store!LogInv, Store!TypeOK
  <2> QED
    BY <2>1, <2>2, <2>3, <2>4, <2>5 DEF ServerInv, Extended, RowState
<1> QED
  BY <1>1, <1>2 DEF Store!StoreMessage

\* appendSessionStatusEvent.
LEMMA SessionEffect ==
  ASSUME ServerInv, NEW u \in Clients, NEW t \in {"session.online", "session.offline"},
         Store!AppendSessionStatusEvent(t, u)
  PROVE  ServerInv' /\ Extended
<1>1. /\ events' = Append(events, [type |-> t, client |-> u])
      /\ UNCHANGED <<messages, deliveries, members, cursors>>
  BY DEF Store!AppendSessionStatusEvent
<1>2. Store!LogInv'
  BY SenderIsClient, Store!SessionStatusLogInv DEF ServerInv
<1>3. Store!Stored' = Store!Stored /\ Store!ShapeInv'
  BY <1>1 DEF ServerInv, Store!ShapeInv, Store!Stored
<1>4. \A c \in Conversations : Store!LatestSeq(c) <= Store!LatestSeq(c)'
  BY <1>1, <1>2, NumbersGrow
<1>5. /\ \A i \in DOMAIN events' :
           events'[i].type = "message.created" => events'[i].message \in Store!Stored'
      /\ Len(events) <= Len(events')
  <2> DEFINE e == [type |-> t, client |-> u]
  <2>1. e.type # "message.created"
    OBVIOUS
  <2> HIDE DEF e
  <2> QED
    BY <1>1, <1>3, <2>1, LogExtended DEF e
<1> QED
  BY <1>1, <1>2, <1>3, <1>4, <1>5 DEF ServerInv, Extended, RowState

\* The device's own acknowledgements: the message's row, and the cursor of its conversation.
Marked(m) ==
  /\ UNCHANGED messages
  /\ \A k \in Messages : k # m => RowState(k)' = RowState(k)
  /\ RowState(m)' \in {"delivered", "read"}
  /\ Len(events) <= Len(events')

LEMMA MarkEffect ==
  ASSUME ServerInv, NEW m \in Messages, NEW s \in Nat,
         Store!MarkDelivered(m, Self, s) \/ Store!MarkRead(m, Self, s)
  PROVE  /\ ServerInv' /\ Marked(m) /\ m \in Store!Stored
         /\ Store!MarkDelivered(m, Self, s) =>
              /\ RowState(m)' = "read" => RowState(m) = "read"
              /\ \A c \in Conversations : cursors'[c][Self].read = cursors[c][Self].read
         /\ Store!MarkRead(m, Self, s) =>
              \A c \in Conversations :
                \/ cursors'[c][Self].read = cursors[c][Self].read
                \/ c = Home[m] /\ cursors'[c][Self].read = s
<1>0. Self \in Clients /\ Store!LogInv /\ Store!ShapeInv
  BY PeersAssumption DEF ServerInv
<1>1. /\ m \in Store!Stored
      /\ \A k \in Messages, u \in Clients :
           <<k, u>> # <<m, Self>> => deliveries'[k][u] = deliveries[k][u]
      /\ Store!MarkDelivered(m, Self, s) =>
           deliveries'[m][Self].state =
             IF deliveries[m][Self].state = "read" THEN "read" ELSE "delivered"
      /\ Store!MarkRead(m, Self, s) => deliveries'[m][Self].state = "read"
      /\ Store!ShapeInv'
  BY SenderIsClient, <1>0, Store!MarkEffect
<1>2. Store!LogInv'
  BY SenderIsClient, <1>0, Store!MarkLogInv
<1>3. UNCHANGED messages /\ Store!Stored' = Store!Stored
  BY DEF Store!MarkDelivered, Store!MarkRead, Store!Stored
<1>4. /\ \A i \in DOMAIN events' :
           events'[i].type = "message.created" => events'[i].message \in Store!Stored'
      /\ Len(events) <= Len(events')
  <2>1. PICK e \in {Store!DeliveredEvent(m, Self), Store!ReadEvent(m, Self)} :
          events' = Append(events, e) \/ UNCHANGED events
    BY DEF Store!MarkDelivered, Store!MarkRead
  <2>2. e.type # "message.created"
    BY DEF Store!DeliveredEvent, Store!ReadEvent
  <2> QED
    BY <1>3, <2>1, <2>2, LogExtended
<1>5. Marked(m)
  BY <1>0, <1>1, <1>3, <1>4 DEF Marked, RowState
<1>6. ServerInv'
  BY <1>1, <1>2, <1>3, <1>4 DEF ServerInv
<1>7. messages[m].conversation = Home[m] /\ Home[m] \in Conversations
  BY <1>1, HomeAssumption DEF ServerInv
<1>8. \A c \in Conversations : cursors[c][Self] \in Store!Cursor /\ cursors[c][Self].read \in Nat
  BY <1>0 DEF Store!LogInv, Store!TypeOK, Store!Cursor
<1>9. ASSUME Store!MarkDelivered(m, Self, s), NEW c \in Conversations
      PROVE  cursors'[c][Self].read = cursors[c][Self].read
  <2>1. cursors' = [cursors EXCEPT ![Home[m]][Self] = Store!UpsertedCursor(@, s, 0)]
    BY <1>7, <1>9 DEF Store!MarkDelivered
  <2>2. cursors'[c][Self] =
          IF c = Home[m] THEN Store!UpsertedCursor(cursors[c][Self], s, 0) ELSE cursors[c][Self]
    BY <1>0, <1>7, <2>1 DEF Store!LogInv, Store!TypeOK
  <2> QED
    BY <1>8, <2>2 DEF Store!UpsertedCursor
<1>10. ASSUME Store!MarkRead(m, Self, s), NEW c \in Conversations
       PROVE  \/ cursors'[c][Self].read = cursors[c][Self].read
              \/ c = Home[m] /\ cursors'[c][Self].read = s
  <2>1. cursors' = [cursors EXCEPT ![Home[m]][Self] = Store!UpsertedCursor(@, s, s)]
    BY <1>7, <1>10 DEF Store!MarkRead
  <2>2. cursors'[c][Self] =
          IF c = Home[m] THEN Store!UpsertedCursor(cursors[c][Self], s, s) ELSE cursors[c][Self]
    BY <1>0, <1>7, <2>1 DEF Store!LogInv, Store!TypeOK
  <2> QED
    BY <1>8, <2>2 DEF Store!UpsertedCursor
<1>11. Store!MarkDelivered(m, Self, s) => (RowState(m)' = "read" => RowState(m) = "read")
  BY <1>1 DEF RowState
<1> QED
  BY <1>1, <1>5, <1>6, <1>9, <1>10, <1>11

-----------------------------------------------------------------------------
(* What a step must show.                                                  *)

\* What the device does with a message is never undone.
Grown ==
  /\ mapped \subseteq mapped'
  /\ \A m \in Messages :
       /\ inbox[m] = "read" => inbox'[m] = "read"
       /\ inbox[m] # "absent" => inbox'[m] # "absent"
  /\ \A c \in Conversations : chatCursor'[c] \in Nat /\ chatCursor[c] <= chatCursor'[c]
  /\ Len(events) <= Len(events')

LEMMA FlushesGrow ==
  ASSUME TablesInv, Grown
  PROVE  DeliveryFlushes \subseteq DeliveryFlushes' /\ ReadFlushes \subseteq ReadFlushes'
<1>1. DeliveryFlushes \subseteq DeliveryFlushes'
  BY DEF DeliveryFlushes, Grown
<1>2. ASSUME NEW f \in ReadFlushes, NEW ack \in f.acks
      PROVE  /\ ack.message \in mapped' /\ inbox'[ack.message] = "read"
             /\ ack.seq <= chatCursor'[Home[ack.message]]
  <2>1. ack \in Acks /\ ack.message \in Messages /\ ack.seq \in Nat
    BY DEF ReadFlushes, Flushes, Acks
  <2>2. /\ ack.message \in mapped /\ inbox[ack.message] = "read"
        /\ ack.seq <= chatCursor[Home[ack.message]]
    BY <1>2 DEF ReadFlushes
  <2>3. Home[ack.message] \in Conversations
    BY <2>1, HomeAssumption
  <2>4. /\ chatCursor[Home[ack.message]] \in Nat /\ chatCursor'[Home[ack.message]] \in Nat
        /\ chatCursor[Home[ack.message]] <= chatCursor'[Home[ack.message]]
    BY <2>3 DEF Grown, TablesInv
  <2> QED
    BY <2>1, <2>2, <2>4 DEF Grown
<1>3. ReadFlushes \subseteq ReadFlushes'
  BY <1>2 DEF ReadFlushes
<1> QED
  BY <1>1, <1>3

\* Each part of the memory that the step leaves alone stays true of the tables.
LEMMA MemoryKept ==
  ASSUME TablesInv, Grown
  PROVE  /\ RunInv /\ UNCHANGED run /\ Len(events) \in Nat /\ Len(events') \in Nat => RunInv'
         /\ reader \in ReadFlushes /\ UNCHANGED reader => reader' \in ReadFlushes'
         /\ WorkerInv /\ UNCHANGED worker => WorkerInv'
<1>1. DeliveryFlushes \subseteq DeliveryFlushes' /\ ReadFlushes \subseteq ReadFlushes'
  BY FlushesGrow
<1>2. ASSUME RunInv, UNCHANGED run, Len(events) \in Nat, Len(events') \in Nat PROVE RunInv'
  <2>1. run.nextEvent \in Nat
    BY <1>2 DEF RunInv, RunType
  <2> QED
    BY <1>1, <1>2, <2>1 DEF RunInv, Grown
<1>3. ASSUME WorkerInv, UNCHANGED worker PROVE WorkerInv'
  <2>1. worker.readSeq \in Nat /\ worker.targets \subseteq Messages
    BY <1>3 DEF WorkerInv
  <2>2. worker.step = "enqueue" =>
          /\ chatCursor[worker.conversation] \in Nat /\ chatCursor'[worker.conversation] \in Nat
          /\ chatCursor[worker.conversation] <= chatCursor'[worker.conversation]
    BY <1>3 DEF WorkerInv, Grown, TablesInv
  <2> QED
    BY <1>3, <2>1, <2>2 DEF WorkerInv, Grown
<1> QED
  BY <1>1, <1>2, <1>3

LEMMA EventsCounted ==
  /\ ServerInv => Len(events) \in Nat
  /\ ServerInv' => Len(events') \in Nat
BY DEF ServerInv, Store!LogInv, Store!TypeOK

LEMMA ServerKept ==
  ASSUME ServerInv, UNCHANGED server
  PROVE  /\ ServerInv' /\ UNCHANGED <<messages, deliveries, members, cursors, events>>
         /\ Len(events) \in Nat /\ Len(events') \in Nat
         /\ Store!Stored' = Store!Stored /\ \A c : Store!LatestSeq(c)' = Store!LatestSeq(c)
<1>1. UNCHANGED <<messages, deliveries, members, cursors, events>>
  BY DEF server
<1>2. Store!Stored' = Store!Stored /\ \A c : Store!LatestSeq(c)' = Store!LatestSeq(c)
  BY <1>1 DEF Store!Stored, Store!LatestSeq, Store!Seqs, Store!StoredIn
<1>3. Store!LogInv'
  BY <1>1, SenderIsClient, Store!NextLogInv DEF ServerInv, Store!dbVars
<1>4. Store!ShapeInv'
  BY <1>1, <1>2 DEF ServerInv, Store!ShapeInv
<1>5. ServerInv'
  BY <1>1, <1>2, <1>3, <1>4 DEF ServerInv
<1> QED
  BY <1>1, <1>2, <1>5, EventsCounted

\* Reports stay true when the device does more with its messages.
LEMMA ReportsKept ==
  ASSUME ServerInv, TablesInv, Grown, UNCHANGED server, UNCHANGED pendingRead
  PROVE  ReportsAreTrue'
<1>1. UNCHANGED deliveries /\ UNCHANGED cursors
  BY DEF server
<1>2. ServiceIsNotAhead'
  BY <1>1 DEF TablesInv, ReportsAreTrue, ServiceIsNotAhead, RowState, Grown
<1>3. ASSUME NEW n, n \in Nat \/ n = NotQueued, NEW c \in Conversations, n <= chatCursor[c]
      PROVE  n <= chatCursor'[c]
  BY <1>3 DEF Grown, TablesInv, NotQueued
<1>4. ASSUME NEW m \in Messages
      PROVE  /\ pendingRead[m] # NotQueued => inbox'[m] = "read" /\ m \in mapped'
             /\ pendingRead[m] <= chatCursor'[Home[m]]
             /\ cursors[Home[m]][Self].read <= chatCursor'[Home[m]]
  <2>1. Home[m] \in Conversations
    BY HomeAssumption
  <2>2. pendingRead[m] \in Nat \/ pendingRead[m] = NotQueued
    BY DEF TablesInv
  <2>3. cursors[Home[m]][Self].read \in Nat
    BY <2>1, PeersAssumption DEF ServerInv, Store!LogInv, Store!TypeOK, Store!Cursor
  <2> QED
    BY <1>3, <2>1, <2>2, <2>3 DEF TablesInv, ReportsAreTrue, ReadQueueIsTrue, Grown
<1> QED
  BY <1>1, <1>2, <1>4 DEF ReportsAreTrue, ReadQueueIsTrue, NotQueued

\* A step in the device's queues: entries go, and reads are queued that were marked, up to
\* a number that was synced.
LEMMA QueueStep ==
  ASSUME ServerInv, TablesInv, UNCHANGED <<server, inbox, mapped, chatCursor>>,
         eventCursor' \in 0 .. Len(events), pendingDelivery' \subseteq mapped,
         pendingRead' \in [Messages -> Nat \cup {NotQueued}],
         \A m \in Messages :
           \/ pendingRead'[m] = pendingRead[m] \/ pendingRead'[m] = NotQueued
           \/ inbox[m] = "read" /\ m \in mapped /\ pendingRead'[m] <= chatCursor[Home[m]]
  PROVE  ServerInv' /\ TablesInv' /\ Grown /\ Len(events) \in Nat /\ Len(events') \in Nat
<1>1. /\ ServerInv' /\ UNCHANGED <<messages, deliveries, members, cursors, events>>
      /\ Len(events) \in Nat /\ Len(events') \in Nat
      /\ Store!Stored' = Store!Stored /\ \A c : Store!LatestSeq(c)' = Store!LatestSeq(c)
  BY ServerKept
<1>2. Grown
  BY <1>1 DEF Grown, TablesInv
<1>3. NothingIsSkipped' /\ ServiceIsNotAhead'
  BY <1>1 DEF TablesInv, NothingIsSkipped, ReportsAreTrue, ServiceIsNotAhead, RowState, DB!NoMessage
<1>4. ReadQueueIsTrue'
  <2> SUFFICES ASSUME NEW m \in Messages
               PROVE  /\ pendingRead'[m] # NotQueued => inbox[m] = "read" /\ m \in mapped
                      /\ pendingRead'[m] <= chatCursor[Home[m]]
                      /\ cursors[Home[m]][Self].read <= chatCursor[Home[m]]
    BY <1>1 DEF ReadQueueIsTrue, NotQueued
  <2>1. chatCursor[Home[m]] \in Nat
    BY HomeAssumption DEF TablesInv
  <2>2. NotQueued <= chatCursor[Home[m]]
    BY <2>1 DEF NotQueued
  <2> QED
    BY <2>2 DEF TablesInv, ReportsAreTrue, ReadQueueIsTrue
<1>5. TablesInv'
  BY <1>1, <1>3, <1>4 DEF TablesInv, ReportsAreTrue
<1> QED
  BY <1>1, <1>2, <1>5

\* A step in the device's memory.
LEMMA TablesKept ==
  ASSUME ServerInv, TablesInv, UNCHANGED <<server, tables>>
  PROVE  ServerInv' /\ TablesInv' /\ Grown /\ Len(events) \in Nat /\ Len(events') \in Nat
<1>1. UNCHANGED <<inbox, mapped, chatCursor, eventCursor, pendingDelivery, pendingRead>>
  BY DEF tables
<1> QED
  BY <1>1, QueueStep DEF TablesInv

\* A step of others.
LEMMA OthersStep ==
  ASSUME ServerInv, TablesInv, ServerInv', Extended, UNCHANGED tables
  PROVE  TablesInv' /\ Grown /\ Len(events) \in Nat /\ Len(events') \in Nat
<1>1. UNCHANGED <<inbox, mapped, chatCursor, eventCursor, pendingDelivery, pendingRead>>
  BY DEF tables
<1>2. \A c \in Conversations :
        /\ chatCursor[c] \in Nat /\ chatCursor[c] <= Store!LatestSeq(c)
        /\ Store!LatestSeq(c) \in Nat /\ Store!LatestSeq(c)' \in Nat
        /\ Store!LatestSeq(c) <= Store!LatestSeq(c)'
  BY NumbersGrow DEF TablesInv, Extended, ServerInv
<1>3. Len(events) \in Nat /\ Len(events') \in Nat /\ Len(events) <= Len(events')
  BY EventsCounted DEF Extended
<1>4. NothingIsSkipped'
  <2> SUFFICES ASSUME NEW m \in Messages, m \in Store!Stored',
                      messages'[m].seq <= chatCursor[Home[m]]
               PROVE  inbox[m] # "absent" /\ m \in mapped
    BY <1>1 DEF NothingIsSkipped, Store!Stored, Store!NoMessage, DB!NoMessage
  <2>1. Home[m] \in Conversations
    BY HomeAssumption
  <2>2. messages'[m].seq \in Nat
    BY DEF ServerInv, Store!LogInv, Store!TypeOK, Store!MessageRow, Store!NoMessage
  <2>3. m \in Store!Stored
    BY <1>2, <2>1, <2>2 DEF Extended
  <2> QED
    BY <2>3 DEF Extended, TablesInv, NothingIsSkipped, Store!Stored, Store!NoMessage, DB!NoMessage
<1>5. ReportsAreTrue'
  BY <1>1 DEF Extended, TablesInv, ReportsAreTrue, ServiceIsNotAhead, ReadQueueIsTrue
<1>6. TablesInv'
  <2>1. mapped' \subseteq {m \in Store!Stored' : inbox'[m] # "absent"}
    BY <1>1 DEF TablesInv, Extended
  <2>2. eventCursor' \in 0 .. Len(events')
    BY <1>1, <1>3 DEF TablesInv
  <2>3. \A c \in Conversations : chatCursor'[c] <= Store!LatestSeq(c)'
    BY <1>1, <1>2
  <2> QED
    BY <1>1, <1>4, <1>5, <2>1, <2>2, <2>3 DEF TablesInv
<1>7. Grown
  BY <1>1, <1>2, <1>3 DEF Grown
<1> QED
  BY <1>3, <1>6, <1>7

\* An acknowledgement of the device, of which it says no more than it has done.
LEMMA MarkStep ==
  ASSUME ServerInv, TablesInv, ServerInv', UNCHANGED tables,
         NEW m \in mapped, NEW s \in Nat, s <= chatCursor[Home[m]], Marked(m),
         RowState(m)' = "read" => inbox[m] = "read",
         \A c \in Conversations : \/ cursors'[c][Self].read = cursors[c][Self].read
                                  \/ c = Home[m] /\ cursors'[c][Self].read = s
  PROVE  TablesInv' /\ Grown /\ Len(events) \in Nat /\ Len(events') \in Nat
<1>1. UNCHANGED <<inbox, mapped, chatCursor, eventCursor, pendingDelivery, pendingRead>>
  BY DEF tables
<1>2. UNCHANGED messages /\ Store!Stored' = Store!Stored
      /\ \A c : Store!LatestSeq(c)' = Store!LatestSeq(c)
  BY DEF Marked, Store!Stored, Store!LatestSeq, Store!Seqs, Store!StoredIn
<1>3. Len(events) \in Nat /\ Len(events') \in Nat /\ Len(events) <= Len(events')
  BY EventsCounted DEF Marked
<1>4. NothingIsSkipped'
  BY <1>1, <1>2 DEF TablesInv, NothingIsSkipped, DB!NoMessage
<1>5. ServiceIsNotAhead'
  BY <1>1 DEF Marked, TablesInv, ReportsAreTrue, ServiceIsNotAhead
<1>6. ReadQueueIsTrue'
  <2> SUFFICES ASSUME NEW k \in Messages
               PROVE  /\ pendingRead[k] # NotQueued => inbox[k] = "read" /\ k \in mapped
                      /\ pendingRead[k] <= chatCursor[Home[k]]
                      /\ cursors'[Home[k]][Self].read <= chatCursor[Home[k]]
    BY <1>1 DEF ReadQueueIsTrue, NotQueued
  <2>1. Home[k] \in Conversations
    BY HomeAssumption
  <2> QED
    BY <2>1 DEF TablesInv, ReportsAreTrue, ReadQueueIsTrue
<1>7. TablesInv'
  BY <1>1, <1>2, <1>3, <1>4, <1>5, <1>6 DEF TablesInv, ReportsAreTrue
<1>8. Grown
  BY <1>1, <1>3 DEF Grown, TablesInv
<1> QED
  BY <1>3, <1>7, <1>8

\* An acknowledgement that a flush sends, whatever the service answers.
LEMMA AcknowledgeStep ==
  ASSUME ServerInv, TablesInv, UNCHANGED tables,
         NEW ack \in Acks, ack.message \in mapped, NEW outcome \in Outcomes,
         \/ AcknowledgeDelivered(ack, outcome)
         \/ /\ AcknowledgeRead(ack, outcome)
            /\ inbox[ack.message] = "read" /\ ack.seq <= chatCursor[Home[ack.message]]
  PROVE  ServerInv' /\ TablesInv' /\ Grown /\ Len(events) \in Nat /\ Len(events') \in Nat
<1> DEFINE m == ack.message
           s == ack.seq
<1>0. m \in Messages /\ s \in Nat /\ Home[m] \in Conversations
  BY HomeAssumption DEF Acks
<1>1. CASE UNCHANGED server
  BY <1>1, TablesKept
<1>2. CASE DB!MarkDelivered(m, Self, s)
  <2>1. Store!MarkDelivered(m, Self, s)
    BY <1>2, SameTransactions
  <2>2. /\ ServerInv' /\ Marked(m) /\ m \in Store!Stored
        /\ RowState(m)' = "read" => RowState(m) = "read"
        /\ \A c \in Conversations : cursors'[c][Self].read = cursors[c][Self].read
    BY <1>0, <2>1, MarkEffect
  <2>3. RowState(m)' = "read" => inbox[m] = "read"
    BY <1>0, <2>2 DEF TablesInv, ReportsAreTrue, ServiceIsNotAhead
  <2>4. messages[m].seq \in Nat /\ 0 <= chatCursor[Home[m]] /\ 0 \in Nat
    BY <1>0, <2>2 DEF ServerInv, Store!LogInv, Store!TypeOK, Store!MessageRow, Store!NoMessage,
       TablesInv
  <2> HIDE DEF m
  <2> QED
    BY <2>2, <2>3, <2>4, MarkStep DEF m
<1>3. CASE /\ DB!MarkRead(m, Self, s)
           /\ inbox[m] = "read" /\ s <= chatCursor[Home[m]]
  <2>1. Store!MarkRead(m, Self, s)
    BY <1>3, SameTransactions
  <2>2. /\ ServerInv' /\ Marked(m) /\ m \in Store!Stored
        /\ \A c \in Conversations : \/ cursors'[c][Self].read = cursors[c][Self].read
                                    \/ c = Home[m] /\ cursors'[c][Self].read = s
    BY <1>0, <2>1, MarkEffect
  <2> QED
    BY <1>0, <1>3, <2>2, MarkStep
<1> QED
  BY <1>1, <1>2, <1>3 DEF AcknowledgeDelivered, AcknowledgeRead, Refuse

-----------------------------------------------------------------------------
(* Flushes.                                                                *)

\* The loops of flushPendingDeliveryAcks and flushPendingReadAcks only drop entries.
LEMMA FlushSteps ==
  /\ NoFlush \in DeliveryFlushes /\ NoFlush \in ReadFlushes
  /\ \A f \in DeliveryFlushes :
       /\ FlushOf(f.acks) \in DeliveryFlushes
       /\ \A ack \in f.acks, outcome \in Outcomes : Answered(f, ack, outcome) \in DeliveryFlushes
  /\ \A f \in ReadFlushes :
       /\ FlushOf(f.acks) \in ReadFlushes
       /\ \A ack \in f.acks, outcome \in Outcomes : Answered(f, ack, outcome) \in ReadFlushes
<1>1. NoFlush \in Flushes /\ NoFlush.acks = {}
  BY DEF NoFlush, Flushes
<1>2. ASSUME NEW f \in Flushes, NEW ack \in f.acks, NEW outcome \in Outcomes
      PROVE  Answered(f, ack, outcome) \in Flushes /\ Answered(f, ack, outcome).acks = f.acks \ {ack}
  <2>1. ack.message \in Messages /\ f.acks \ {ack} \in SUBSET Acks
    BY <1>2 DEF Flushes, Acks
  <2> QED
    BY <2>1 DEF Answered, Flushes
<1>3. \A f \in Flushes : FlushOf(f.acks) \in Flushes /\ FlushOf(f.acks).acks = f.acks
  BY DEF FlushOf, Flushes
<1>4. NoFlush \in DeliveryFlushes /\ NoFlush \in ReadFlushes
  BY <1>1 DEF DeliveryFlushes, ReadFlushes
<1>5. \A f \in DeliveryFlushes :
        /\ FlushOf(f.acks) \in DeliveryFlushes
        /\ \A ack \in f.acks, outcome \in Outcomes : Answered(f, ack, outcome) \in DeliveryFlushes
  BY <1>2, <1>3 DEF DeliveryFlushes
<1>6. \A f \in ReadFlushes :
        /\ FlushOf(f.acks) \in ReadFlushes
        /\ \A ack \in f.acks, outcome \in Outcomes : Answered(f, ack, outcome) \in ReadFlushes
  BY <1>2, <1>3 DEF ReadFlushes
<1> QED
  BY <1>4, <1>5, <1>6

LEMMA LoadedDeliveries ==
  ASSUME ServerInv, NEW queue \in SUBSET Store!Stored
  PROVE  /\ Loaded(DeliveryAcks(queue)) \in Flushes
         /\ \A ack \in Loaded(DeliveryAcks(queue)).acks : ack.message \in queue
<1>1. \A m \in queue : m \in Messages /\ messages[m].seq \in Nat
  BY DEF Store!Stored, ServerInv, Store!LogInv, Store!TypeOK, Store!MessageRow, Store!NoMessage
<1> DEFINE acks == {[message |-> m, seq |-> DeliveryAcks(queue)[m]] : m \in queue}
<1>2. acks \in SUBSET Acks /\ \A ack \in acks : ack.message \in queue
  BY <1>1 DEF Acks, DeliveryAcks
<1>3. Loaded(DeliveryAcks(queue)) = FlushOf(acks)
  BY DEF Loaded, DeliveryAcks
<1> HIDE DEF acks
<1> QED
  BY <1>2, <1>3 DEF FlushOf, Flushes

LEMMA LoadedReads ==
  ASSUME TablesInv
  PROVE  Loaded(ReadAcks) \in ReadFlushes
<1>1. \A m \in QueuedReads :
        /\ m \in Messages /\ pendingRead[m] \in Nat
        /\ m \in mapped /\ inbox[m] = "read" /\ pendingRead[m] <= chatCursor[Home[m]]
  BY DEF QueuedReads, TablesInv, ReportsAreTrue, ReadQueueIsTrue
<1> DEFINE acks == {[message |-> m, seq |-> ReadAcks[m]] : m \in QueuedReads}
<1>2. /\ acks \in SUBSET Acks
      /\ \A ack \in acks : /\ ack.message \in mapped /\ inbox[ack.message] = "read"
                           /\ ack.seq <= chatCursor[Home[ack.message]]
  BY <1>1 DEF Acks, ReadAcks
<1>3. Loaded(ReadAcks) = FlushOf(acks)
  BY DEF Loaded, ReadAcks
<1> HIDE DEF acks
<1> QED
  BY <1>2, <1>3 DEF FlushOf, Flushes, ReadFlushes

-----------------------------------------------------------------------------
(* The stack of handlers.                                                  *)

LEMMA ShortStacks ==
  ASSUME NEW a, NEW b
  PROVE  /\ Append(<< >>, a) = <<a>> /\ Append(<<a>>, b) = <<a, b>>
         /\ SubSeq(<<a>>, 1, 0) = << >> /\ SubSeq(<<a, b>>, 1, 1) = <<a>>
<1>1. <<a>> \in Seq({a, b}) /\ <<a, b>> \in Seq({a, b}) /\ << >> \in Seq({a, b})
  OBVIOUS
<1>2. Append(<< >>, a) = <<a>>
  OBVIOUS
<1>0. Append(<<a>>, b) = <<a, b>>
  <2>1. /\ Append(<<a>>, b) \in Seq({a, b}) /\ Len(Append(<<a>>, b)) = 2
        /\ Append(<<a>>, b)[1] = a /\ Append(<<a>>, b)[2] = b
    BY <1>1, AppendProperties
  <2> DEFINE s == Append(<<a>>, b)
  <2> HIDE DEF s
  <2>2. s \in Seq({a, b}) /\ Len(s) = 2 /\ s[1] = a /\ s[2] = b
    BY <2>1 DEF s
  <2>3. s = <<a, b>>
    BY <1>1, <2>2, SeqEqual
  <2> QED
    BY <2>3 DEF s
<1>3. SubSeq(<<a>>, 1, 0) = << >>
  BY <1>1, SubSeqProperties, EmptySeq
<1>4. SubSeq(<<a, b>>, 1, 1) = <<a>>
  <2>1. /\ SubSeq(<<a, b>>, 1, 1) \in Seq({a, b}) /\ Len(SubSeq(<<a, b>>, 1, 1)) = 1
        /\ SubSeq(<<a, b>>, 1, 1)[1] = a
    BY <1>1, SubSeqProperties
  <2> DEFINE s == SubSeq(<<a, b>>, 1, 1)
  <2> HIDE DEF s
  <2>2. s \in Seq({a, b}) /\ Len(s) = 1 /\ s[1] = a
    BY <2>1 DEF s
  <2>3. s = <<a>>
    BY <1>1, <2>2, SeqEqual
  <2> QED
    BY <2>3 DEF s
<1> QED
  BY <1>0, <1>2, <1>3, <1>4

LEMMA StackMoves ==
  ASSUME frames \in Stacks, NEW f \in {"run", "reader"}
  PROVE  /\ ~OnStack(f) /\ Push(f) => frames' \in Stacks
         /\ OnTop(f) /\ Pop => frames' \in Stacks
<1>1. CASE frames = << >>
  BY <1>1 DEF OnStack, Push, OnTop, Stacks
<1>2. ASSUME NEW a \in {"run", "reader"}, frames = <<a>>
      PROVE  /\ ~OnStack(f) /\ Push(f) => frames' \in Stacks
             /\ OnTop(f) /\ Pop => frames' \in Stacks
  <2>1. Len(frames) = 1 /\ DOMAIN frames = 1 .. 1 /\ frames[1] = a
    BY <1>2
  <2>2. ASSUME ~OnStack(f), Push(f) PROVE frames' \in Stacks
    <3>1. a # f
      BY <2>1, <2>2 DEF OnStack
    <3>2. frames' = <<a, f>>
      BY <1>2, <2>2, ShortStacks DEF Push
    <3> QED
      BY <3>1, <3>2 DEF Stacks
  <2>3. ASSUME Pop PROVE frames' \in Stacks
    <3>1. frames' = SubSeq(<<a>>, 1, 0)
      BY <1>2, <2>1, <2>3 DEF Pop
    <3> QED
      BY <3>1, ShortStacks DEF Stacks
  <2> QED
    BY <2>2, <2>3
<1>3. ASSUME NEW a \in {"run", "reader"}, NEW b \in {"run", "reader"}, a # b, frames = <<a, b>>
      PROVE  /\ ~OnStack(f) /\ Push(f) => frames' \in Stacks
             /\ OnTop(f) /\ Pop => frames' \in Stacks
  <2>1. Len(frames) = 2 /\ DOMAIN frames = 1 .. 2 /\ frames[1] = a /\ frames[2] = b
    BY <1>3
  <2>2. OnStack(f)
    BY <1>3, <2>1 DEF OnStack
  <2>3. ASSUME Pop PROVE frames' \in Stacks
    <3>1. frames' = SubSeq(<<a, b>>, 1, 1)
      BY <1>3, <2>1, <2>3 DEF Pop
    <3> QED
      BY <3>1, ShortStacks DEF Stacks
  <2> QED
    BY <2>2, <2>3
<1> QED
  BY <1>1, <1>2, <1>3 DEF Stacks

-----------------------------------------------------------------------------
(* The actions, one lemma each.                                            *)

LEMMA IdleInRunType == IdleRun \in RunType
<1>1. NoFlush \in Flushes
  BY FlushSteps DEF DeliveryFlushes
<1> QED
  BY <1>1 DEF IdleRun, RunType, RunSteps

\* A step of the run, the tables being in order.
LEMMA RunKeepsInv ==
  ASSUME Inv, ServerInv', TablesInv', Grown, Len(events) \in Nat, Len(events') \in Nat,
         UNCHANGED <<reader, worker>>, frames' \in Stacks, due' \in BOOLEAN,
         run' \in RunType, run'.nextEvent <= Len(events'),
         run'.step = "ackDelivered" => run'.flush \in DeliveryFlushes',
         run'.step = "ackRead" => run'.flush \in ReadFlushes'
  PROVE  Inv'
<1>1. TablesInv /\ reader \in ReadFlushes /\ WorkerInv
  BY DEF Inv
<1>2. RunInv'
  BY DEF RunInv, RunType, RunSteps
<1>3. reader' \in ReadFlushes' /\ WorkerInv'
  BY <1>1, MemoryKept
<1> QED
  BY <1>2, <1>3 DEF Inv

\* A step that touches the run's memory only.
LEMMA RunMovesInv ==
  ASSUME Inv, UNCHANGED <<server, tables, reader, worker>>,
         frames' \in Stacks, due' \in BOOLEAN,
         run' \in RunType, run'.nextEvent <= Len(events),
         run'.step = "ackDelivered" => run'.flush \in DeliveryFlushes,
         run'.step = "ackRead" => run'.flush \in ReadFlushes
  PROVE  Inv'
<1>1. ServerInv /\ TablesInv /\ UNCHANGED <<server, tables>>
  BY DEF Inv
<1>2. ServerInv' /\ TablesInv' /\ Grown /\ Len(events) \in Nat /\ Len(events') \in Nat
  BY <1>1, TablesKept
<1>3. DeliveryFlushes \subseteq DeliveryFlushes' /\ ReadFlushes \subseteq ReadFlushes'
  BY <1>1, <1>2, FlushesGrow
<1>4. UNCHANGED events
  BY DEF server
<1> QED
  BY <1>2, <1>3, <1>4, RunKeepsInv

\* A step of others, or of the device's tables, that leaves the memory alone.
LEMMA MemoryKeepsInv ==
  ASSUME Inv, ServerInv', TablesInv', Grown, Len(events) \in Nat, Len(events') \in Nat,
         UNCHANGED memory
  PROVE  Inv'
<1>1. UNCHANGED <<frames, run, reader, worker, due>>
  BY DEF memory
<1>2. RunInv' /\ reader' \in ReadFlushes' /\ WorkerInv'
  BY <1>1, MemoryKept DEF Inv
<1> QED
  BY <1>1, <1>2 DEF Inv

LEMMA PeerPostsInv == ASSUME Inv, PeerPosts PROVE Inv'
<1>1. PICK m \in Messages, b \in Contents, raw \in SUBSET Clients :
        DB!StoreMessage(m, Home[m], b, raw)
  BY DEF PeerPosts
<1>2. ServerInv' /\ Extended
  BY <1>1, SameTransactions, PostEffect DEF Inv
<1>3. UNCHANGED tables /\ UNCHANGED memory
  BY DEF PeerPosts
<1> QED
  BY <1>2, <1>3, OthersStep, MemoryKeepsInv DEF Inv

LEMMA SessionChangesInv == ASSUME Inv, SessionChanges PROVE Inv'
<1>1. PICK u \in Clients, t \in {"session.online", "session.offline"} :
        DB!AppendSessionStatusEvent(t, u)
  BY DEF SessionChanges
<1>2. Store!AppendSessionStatusEvent(t, u)
  BY <1>1 DEF DB!AppendSessionStatusEvent, Store!AppendSessionStatusEvent
<1>3. ServerInv' /\ Extended
  BY <1>2, SessionEffect DEF Inv
<1>4. UNCHANGED tables /\ UNCHANGED memory
  BY DEF SessionChanges
<1> QED
  BY <1>3, <1>4, OthersStep, MemoryKeepsInv DEF Inv

LEMMA DirectArrivalInv == ASSUME Inv, NEW m \in Messages, DirectArrival(m) PROVE Inv'
<1>1. /\ inbox[m] = "absent" /\ inbox' = [inbox EXCEPT ![m] = "received"]
      /\ UNCHANGED server
      /\ UNCHANGED <<mapped, chatCursor, eventCursor, pendingDelivery, pendingRead>>
      /\ UNCHANGED memory
  BY DEF DirectArrival
<1>2. ServerInv /\ TablesInv
  BY DEF Inv
<1>3. /\ ServerInv' /\ UNCHANGED messages /\ UNCHANGED events
      /\ Len(events) \in Nat /\ Len(events') \in Nat
      /\ Store!Stored' = Store!Stored /\ \A c : Store!LatestSeq(c)' = Store!LatestSeq(c)
  BY <1>1, <1>2, ServerKept
<1>4. /\ inbox' \in [Messages -> {"absent", "received", "read"}]
      /\ \A k \in Messages : /\ inbox'[k] = "read" <=> inbox[k] = "read"
                             /\ inbox[k] # "absent" => inbox'[k] # "absent"
  BY <1>1, <1>2 DEF TablesInv
<1>5. Grown
  BY <1>1, <1>2, <1>3, <1>4 DEF Grown, TablesInv
<1>6. NothingIsSkipped'
  BY <1>1, <1>2, <1>3, <1>4 DEF TablesInv, NothingIsSkipped, DB!NoMessage
<1>7. ReportsAreTrue'
  BY <1>1, <1>2, <1>5, ReportsKept
<1>8. mapped' \subseteq {k \in Store!Stored' : inbox'[k] # "absent"}
  BY <1>1, <1>2, <1>3, <1>4 DEF TablesInv, Store!Stored
<1>9. TablesInv'
  BY <1>1, <1>2, <1>3, <1>4, <1>6, <1>7, <1>8 DEF TablesInv
<1> QED
  BY <1>1, <1>3, <1>5, <1>9, MemoryKeepsInv

LEMMA StartRunInv == ASSUME Inv, StartRun PROVE Inv'
<1>1. frames' \in Stacks
  BY StackMoves DEF Inv, StartRun
<1>2. run' \in RunType /\ run'.step = "events" /\ run'.nextEvent = 0
  BY IdleInRunType DEF StartRun, RunType, RunSteps, IdleRun
<1>3. 0 <= Len(events)
  BY EventsCounted DEF Inv
<1> QED
  BY <1>1, <1>2, <1>3, RunMovesInv DEF StartRun, Inv

LEMMA ConsumeEventsInv == ASSUME Inv, ConsumeEvents PROVE Inv'
<1> DEFINE page == DB!ListMessageEventsAfterForClient(Self, eventCursor, PageLimit)
           created == {i \in page : events[i].type = "message.created"}
           next == Max(page \cup {eventCursor})
           todo == {messages[events[i].message].conversation : i \in created}
<1>1. ServerInv /\ TablesInv /\ RunInv
  BY DEF Inv
<1>2. Len(events) \in Nat /\ eventCursor \in 0 .. Len(events) /\ DOMAIN events = 1 .. Len(events)
  BY <1>1 DEF ServerInv, Store!LogInv, Store!TypeOK, TablesInv
<1>3. page \subseteq eventCursor + 1 .. Len(events)
  BY DEF DB!ListMessageEventsAfterForClient, DB!Limited
<1>4. next \in 0 .. Len(events)
  <2>1. page \cup {eventCursor} \in SUBSET (0 .. Len(events)) /\ page \cup {eventCursor} # {}
    BY <1>2, <1>3
  <2> HIDE DEF page
  <2>2. next \in page \cup {eventCursor}
    BY <1>2, <2>1, SenderIsClient, Store!GreatestExists DEF Max
  <2> QED
    BY <2>1, <2>2
<1>5. todo \subseteq Conversations
  <2> SUFFICES ASSUME NEW i \in created
               PROVE  messages[events[i].message].conversation \in Conversations
    OBVIOUS
  <2>1. i \in DOMAIN events /\ events[i].type = "message.created"
    BY <1>2, <1>3
  <2>2. events[i].message \in Store!Stored
    BY <1>1, <2>1 DEF ServerInv
  <2>3. messages[events[i].message].conversation = Home[events[i].message]
    BY <1>1, <2>2 DEF ServerInv
  <2> QED
    BY <2>2, <2>3, HomeAssumption DEF Store!Stored
<1>6. /\ run' = [run EXCEPT !.step = "sync", !.phase = "consume", !.todo = todo,
                            !.nextEvent = next]
      /\ UNCHANGED <<server, tables, frames, reader, worker, due>>
  BY Zenon DEF ConsumeEvents
<1> HIDE DEF todo, next
<1>7. run' \in RunType /\ run'.step = "sync" /\ run'.nextEvent = next
  <2>1. run \in RunType /\ todo \in SUBSET Conversations /\ next \in Nat
    BY <1>1, <1>2, <1>4, <1>5 DEF RunInv
  <2> QED
    BY <1>6, <2>1 DEF RunType, RunSteps
<1> QED
  BY <1>2, <1>4, <1>6, <1>7, RunMovesInv DEF Inv

\* The page of listMessagesAfterSeq ends at the new cursor.
LEMMA NextPage ==
  ASSUME ServerInv, TablesInv, NEW c \in Conversations
  PROVE  LET page == Store!ListMessagesAfterSeq(c, chatCursor[c], PageLimit) IN
         /\ Store!LatestSeq(c) \in Nat
         /\ \E next \in chatCursor[c] .. Store!LatestSeq(c) :
              /\ page = {m \in Store!StoredIn(c) : messages[m].seq \in chatCursor[c] + 1 .. next}
              /\ next = Max({messages[m].seq : m \in page} \cup {chatCursor[c]})
<1> DEFINE page == Store!ListMessagesAfterSeq(c, chatCursor[c], PageLimit)
<1>1. chatCursor[c] \in Nat /\ chatCursor[c] <= Store!LatestSeq(c) /\ PageLimit \in Nat
  BY LimitsAssumption DEF TablesInv
<1>2. Store!LatestSeq(c) \in Nat
  BY <1>1, SenderIsClient, Store!PageIsNext DEF ServerInv
<1>3. PICK next \in chatCursor[c] .. Store!LatestSeq(c) :
        /\ page = {m \in Store!StoredIn(c) : messages[m].seq \in chatCursor[c] + 1 .. next}
        /\ {messages[m].seq : m \in page} = chatCursor[c] + 1 .. next
  <2>1. Store!LogInv
    BY DEF ServerInv
  <2> QED
    BY <1>1, <2>1, SenderIsClient, Store!PageIsNext, Zenon
<1> HIDE DEF page
<1>4. next \in Nat /\ chatCursor[c] <= next
  BY <1>1, <1>2
<1>5. {messages[m].seq : m \in page} \cup {chatCursor[c]} = chatCursor[c] .. next
  BY <1>1, <1>3, <1>4
<1>6. next = Max(chatCursor[c] .. next)
  <2>1. next \in chatCursor[c] .. next /\ \A y \in chatCursor[c] .. next : next >= y
    BY <1>1, <1>4
  <2>2. \A x \in chatCursor[c] .. next :
          (\A y \in chatCursor[c] .. next : x >= y) => x = next
    BY <1>1, <1>4, <2>1
  <2> QED
    BY <2>1, <2>2 DEF Max
<1> QED
  BY <1>2, <1>3, <1>5, <1>6 DEF page

LEMMA SyncConversationInv ==
  ASSUME Inv, NEW c \in Conversations, SyncConversation(c) PROVE Inv'
<1> DEFINE page == Store!ListMessagesAfterSeq(c, chatCursor[c], PageLimit)
<1>1. ServerInv /\ TablesInv /\ RunInv
  BY DEF Inv
<1>2. PICK next \in chatCursor[c] .. Store!LatestSeq(c) :
        /\ page = {m \in Store!StoredIn(c) : messages[m].seq \in chatCursor[c] + 1 .. next}
        /\ next = Max({messages[m].seq : m \in page} \cup {chatCursor[c]})
  BY <1>1, NextPage
<1>0. Store!LatestSeq(c) \in Nat
  BY <1>1, NextPage
<1>3. /\ inbox' = [m \in Messages |->
           IF m \in page /\ inbox[m] = "absent" THEN "received" ELSE inbox[m]]
      /\ mapped' = mapped \cup page
      /\ pendingDelivery' = pendingDelivery \cup page
      /\ chatCursor' = [chatCursor EXCEPT ![c] = next]
      /\ run' = [run EXCEPT !.step = "ackDelivered", !.todo = @ \ {c}, !.final = FALSE,
                   !.flush = Loaded(DeliveryAcks(pendingDelivery \cup page))]
      /\ UNCHANGED <<server, eventCursor, pendingRead, frames, reader, worker, due>>
  BY <1>2, SameQueries DEF SyncConversation, QueueWith, NextAfterSeq
<1>4. /\ ServerInv' /\ UNCHANGED messages /\ UNCHANGED events
      /\ Len(events) \in Nat /\ Len(events') \in Nat
      /\ Store!Stored' = Store!Stored /\ \A d : Store!LatestSeq(d)' = Store!LatestSeq(d)
  BY <1>1, <1>3, ServerKept
<1>5. /\ page \subseteq Store!Stored /\ chatCursor[c] \in Nat /\ next \in Nat
      /\ chatCursor[c] <= next /\ next <= Store!LatestSeq(c)
  <2>1. chatCursor[c] \in Nat
    BY <1>1 DEF TablesInv
  <2>2. page \subseteq Store!Stored
    BY <1>2 DEF Store!StoredIn
  <2> HIDE DEF page
  <2> QED
    BY <1>0, <2>1, <2>2
<1> HIDE DEF page
<1>6. /\ inbox' \in [Messages -> {"absent", "received", "read"}]
      /\ \A m \in Messages : /\ inbox'[m] = "read" <=> inbox[m] = "read"
                             /\ inbox[m] # "absent" => inbox'[m] # "absent"
                             /\ m \in page => inbox'[m] # "absent"
  BY <1>1, <1>3 DEF TablesInv
<1>7. /\ chatCursor' \in [Conversations -> Nat]
      /\ \A d \in Conversations : /\ chatCursor[d] <= chatCursor'[d]
                                  /\ chatCursor'[d] <= Store!LatestSeq(d)
                                  /\ d # c => chatCursor'[d] = chatCursor[d]
      /\ chatCursor'[c] = next
  BY <1>1, <1>3, <1>5 DEF TablesInv
<1>8. Grown
  BY <1>1, <1>3, <1>4, <1>6, <1>7 DEF Grown
<1>9. NothingIsSkipped'
  <2> SUFFICES ASSUME NEW m \in Messages, m \in Store!Stored,
                      messages[m].seq <= chatCursor'[Home[m]]
               PROVE  inbox'[m] # "absent" /\ m \in mapped \cup page
    BY <1>3, <1>4 DEF NothingIsSkipped, Store!Stored, Store!NoMessage, DB!NoMessage
  <2>1. messages[m].seq \in Nat /\ messages[m].conversation = Home[m] /\ Home[m] \in Conversations
    BY <1>1, HomeAssumption
    DEF ServerInv, Store!LogInv, Store!TypeOK, Store!MessageRow, Store!NoMessage, Store!Stored
  <2>2. CASE messages[m].seq <= chatCursor[Home[m]]
    BY <1>1, <1>6, <2>2 DEF TablesInv, NothingIsSkipped, Store!Stored, Store!NoMessage, DB!NoMessage
  <2>3. CASE ~ (messages[m].seq <= chatCursor[Home[m]])
    <3>1. Home[m] = c
      BY <1>7, <2>1, <2>3
    <3>2. m \in Store!StoredIn(c) /\ messages[m].seq \in chatCursor[c] + 1 .. next
      BY <1>5, <1>7, <2>1, <2>3, <3>1 DEF Store!StoredIn
    <3> QED
      BY <1>2, <1>6, <3>2
  <2> QED
    BY <2>2, <2>3
<1>10. ReportsAreTrue'
  BY <1>1, <1>3, <1>8, ReportsKept
<1>11. /\ mapped' \subseteq {m \in Store!Stored' : inbox'[m] # "absent"}
       /\ pendingDelivery' \subseteq mapped'
  BY <1>1, <1>3, <1>4, <1>5, <1>6 DEF TablesInv, Store!Stored
<1>12. TablesInv'
  BY <1>1, <1>3, <1>4, <1>6, <1>7, <1>9, <1>10, <1>11 DEF TablesInv
<1> DEFINE flush == Loaded(DeliveryAcks(pendingDelivery \cup page))
<1>13. flush \in Flushes /\ flush \in DeliveryFlushes'
  <2>1. pendingDelivery \cup page \in SUBSET Store!Stored
    BY <1>1, <1>5 DEF TablesInv
  <2>2. flush \in Flushes /\ \A ack \in flush.acks : ack.message \in pendingDelivery \cup page
    BY <1>1, <2>1, LoadedDeliveries
  <2> HIDE DEF flush
  <2> QED
    BY <1>3, <1>11, <2>2 DEF DeliveryFlushes
<1> HIDE DEF flush
<1>14. /\ run' \in RunType /\ run'.step = "ackDelivered"
       /\ run'.flush = flush /\ run'.nextEvent = run.nextEvent
  <2>1. run \in RunType /\ run.todo \ {c} \in SUBSET Conversations
    BY <1>1 DEF RunInv, RunType
  <2>2. run' = [run EXCEPT !.step = "ackDelivered", !.todo = run.todo \ {c}, !.final = FALSE,
                           !.flush = flush]
    BY <1>3 DEF flush
  <2> QED
    BY <1>13, <2>1, <2>2 DEF RunType, RunSteps
<1>15. run'.nextEvent <= Len(events')
  BY <1>1, <1>4, <1>14 DEF RunInv
<1>16. frames' \in Stacks /\ due' \in BOOLEAN
  BY <1>3 DEF Inv
<1> QED
  BY <1>3, <1>4, <1>8, <1>12, <1>13, <1>14, <1>15, <1>16, RunKeepsInv

LEMMA FailEventsInv == ASSUME Inv, FailEvents PROVE Inv'
<1>1. /\ run' = [run EXCEPT !.step = "conversations"]
      /\ UNCHANGED <<server, tables, frames, reader, worker, due>>
  BY DEF FailEvents
<1>2. run \in RunType /\ run.nextEvent <= Len(events) /\ frames \in Stacks /\ due \in BOOLEAN
  BY DEF Inv, RunInv
<1>3. run' \in RunType /\ run'.step = "conversations" /\ run'.nextEvent = run.nextEvent
  BY <1>1, <1>2 DEF RunType, RunSteps
<1> QED
  BY <1>1, <1>2, <1>3, RunMovesInv

LEMMA FailConversationInv ==
  ASSUME Inv, NEW c \in Conversations, FailConversation(c) PROVE Inv'
<1>1. /\ run' = [run EXCEPT !.todo = @ \ {c}, !.failed = TRUE] /\ run.step = "sync"
      /\ UNCHANGED <<server, tables, frames, reader, worker, due>>
  BY DEF FailConversation, Running
<1>2. /\ run \in RunType /\ run.nextEvent <= Len(events) /\ frames \in Stacks /\ due \in BOOLEAN
      /\ run.todo \ {c} \in SUBSET Conversations
  BY DEF Inv, RunInv, RunType
<1>3. run' \in RunType /\ run'.step = "sync" /\ run'.nextEvent = run.nextEvent
  BY <1>1, <1>2 DEF RunType, RunSteps
<1> QED
  BY <1>1, <1>2, <1>3, RunMovesInv

\* The end of a run.
LEMMA EndRunInv ==
  ASSUME Inv, OnTop("run"), EndRun, UNCHANGED <<server, tables, reader, worker>>,
         due' \in BOOLEAN
  PROVE  Inv'
<1>1. frames' \in Stacks
  BY StackMoves DEF Inv, EndRun
<1>2. run' \in RunType /\ run'.step = "idle" /\ run'.nextEvent = 0
  BY IdleInRunType DEF EndRun, IdleRun
<1>3. 0 <= Len(events)
  BY EventsCounted DEF Inv
<1> QED
  BY <1>1, <1>2, <1>3, RunMovesInv

LEMMA SyncedAllInv == ASSUME Inv, SyncedAll PROVE Inv'
<1>1. UNCHANGED <<server, tables, reader, worker, due>> /\ OnTop("run")
  BY DEF SyncedAll, Running
<1>2. /\ run \in RunType /\ run.nextEvent <= Len(events) /\ frames \in Stacks /\ due \in BOOLEAN
      /\ ServerInv /\ TablesInv
  BY DEF Inv, RunInv
<1>3. CASE EndRun
  BY <1>1, <1>2, <1>3, EndRunInv
<1> DEFINE flush == Loaded(DeliveryAcks(pendingDelivery))
<1>4. CASE /\ run' = [run EXCEPT !.step = "ackDelivered", !.final = TRUE, !.flush = flush]
           /\ UNCHANGED frames
  <2>1. flush \in Flushes /\ \A ack \in flush.acks : ack.message \in pendingDelivery
    BY <1>2, LoadedDeliveries DEF TablesInv
  <2> HIDE DEF flush
  <2>2. flush \in DeliveryFlushes
    BY <1>2, <2>1 DEF DeliveryFlushes, TablesInv
  <2>3. /\ run' \in RunType /\ run'.step = "ackDelivered" /\ run'.flush = flush
        /\ run'.nextEvent = run.nextEvent
    BY <1>2, <1>4, <2>1 DEF RunType, RunSteps
  <2> QED
    BY <1>1, <1>2, <1>4, <2>2, <2>3, RunMovesInv
<1> QED
  BY <1>3, <1>4 DEF SyncedAll

\* An acknowledgement of the run, sent from a list that was loaded earlier.
LEMMA SendAckInv ==
  ASSUME Inv, SendDeliveredAck \/ SendReadAck PROVE Inv'
<1>1. PICK ack \in run.flush.acks, outcome \in Outcomes :
        /\ \/ run.step = "ackDelivered" /\ AcknowledgeDelivered(ack, outcome)
           \/ run.step = "ackRead" /\ AcknowledgeRead(ack, outcome)
        /\ run' = [run EXCEPT !.flush = Answered(@, ack, outcome)]
  BY DEF SendDeliveredAck, SendReadAck, Running
<1>2. UNCHANGED tables /\ UNCHANGED <<frames, reader, worker, due>>
  BY DEF SendDeliveredAck, SendReadAck
<1>3. /\ ServerInv /\ TablesInv /\ frames \in Stacks /\ due \in BOOLEAN
      /\ run \in RunType /\ run.nextEvent <= Len(events) /\ run.nextEvent \in Nat
      /\ run.flush \in Flushes
      /\ run.step = "ackDelivered" => run.flush \in DeliveryFlushes
      /\ run.step = "ackRead" => run.flush \in ReadFlushes
  BY DEF Inv, RunInv, RunType
<1> DEFINE flush == Answered(run.flush, ack, outcome)
<1>4. /\ ack \in Acks /\ ack.message \in mapped
      /\ run.step = "ackRead" =>
           inbox[ack.message] = "read" /\ ack.seq <= chatCursor[Home[ack.message]]
  BY <1>1, <1>3 DEF Flushes, DeliveryFlushes, ReadFlushes
<1>5. ServerInv' /\ TablesInv' /\ Grown /\ Len(events) \in Nat /\ Len(events') \in Nat
  BY <1>1, <1>2, <1>3, <1>4, AcknowledgeStep
<1>6. DeliveryFlushes \subseteq DeliveryFlushes' /\ ReadFlushes \subseteq ReadFlushes'
  BY <1>3, <1>5, FlushesGrow
<1>7. /\ flush \in Flushes
      /\ run.step = "ackDelivered" => flush \in DeliveryFlushes'
      /\ run.step = "ackRead" => flush \in ReadFlushes'
  BY <1>1, <1>3, <1>6, FlushSteps DEF DeliveryFlushes, ReadFlushes
<1>8. run' = [run EXCEPT !.flush = flush]
  BY <1>1
<1> HIDE DEF flush
<1>9. /\ run' \in RunType /\ run'.step = run.step /\ run'.flush = flush
      /\ run'.nextEvent = run.nextEvent
  BY <1>3, <1>7, <1>8 DEF RunType
<1>10. run'.nextEvent <= Len(events')
  BY <1>3, <1>5, <1>9 DEF Grown
<1>11. frames' \in Stacks /\ due' \in BOOLEAN
  BY <1>2, <1>3
<1> QED
  BY <1>2, <1>5, <1>7, <1>9, <1>10, <1>11, RunKeepsInv

\* The reply deletes the entry, whatever the queue holds by now.
LEMMA AckReplyInv == ASSUME Inv, DeliveredAckReply \/ ReadAckReply PROVE Inv'
<1>1. /\ run' = [run EXCEPT !.flush = FlushOf(@.acks)]
      /\ UNCHANGED <<server, inbox, mapped, chatCursor, eventCursor, frames, reader, worker, due>>
  BY DEF DeliveredAckReply, ReadAckReply
<1>2. /\ ServerInv /\ TablesInv /\ frames \in Stacks /\ due \in BOOLEAN
      /\ run \in RunType /\ run.nextEvent <= Len(events) /\ run.flush \in Flushes
      /\ run.step = "ackDelivered" => run.flush \in DeliveryFlushes
      /\ run.step = "ackRead" => run.flush \in ReadFlushes
  BY DEF Inv, RunInv, RunType
<1>3. pendingDelivery' \subseteq mapped
  BY <1>2 DEF DeliveredAckReply, ReadAckReply, TablesInv
<1>4. /\ pendingRead' \in [Messages -> Nat \cup {NotQueued}]
      /\ \A m \in Messages : pendingRead'[m] = pendingRead[m] \/ pendingRead'[m] = NotQueued
  BY <1>2 DEF DeliveredAckReply, ReadAckReply, TablesInv
<1>5. eventCursor' \in 0 .. Len(events)
  BY <1>1, <1>2 DEF TablesInv
<1>6. ServerInv' /\ TablesInv' /\ Grown /\ Len(events) \in Nat /\ Len(events') \in Nat
  BY <1>1, <1>2, <1>3, <1>4, <1>5, QueueStep
<1>7. DeliveryFlushes \subseteq DeliveryFlushes' /\ ReadFlushes \subseteq ReadFlushes'
  BY <1>2, <1>6, FlushesGrow
<1> DEFINE flush == FlushOf(run.flush.acks)
<1>8. /\ flush \in Flushes
      /\ run.step = "ackDelivered" => flush \in DeliveryFlushes'
      /\ run.step = "ackRead" => flush \in ReadFlushes'
  <2>1. flush \in Flushes
    BY <1>2 DEF FlushOf, Flushes
  <2> QED
    BY <1>2, <1>7, <2>1, FlushSteps
<1>9. run' = [run EXCEPT !.flush = flush]
  BY <1>1
<1> HIDE DEF flush
<1>10. /\ run' \in RunType /\ run'.step = run.step /\ run'.flush = flush
       /\ run'.nextEvent = run.nextEvent
  BY <1>2, <1>8, <1>9 DEF RunType
<1>11. UNCHANGED events /\ frames' \in Stacks /\ due' \in BOOLEAN
  BY <1>1, <1>2 DEF server
<1> QED
  BY <1>1, <1>2, <1>6, <1>8, <1>10, <1>11, RunKeepsInv

LEMMA LoseAckInv == ASSUME Inv, LoseAck PROVE Inv'
<1>1. /\ run' = [run EXCEPT !.flush = NoFlush]
      /\ UNCHANGED <<server, tables, frames, reader, worker, due>>
  BY DEF LoseAck
<1>2. /\ run \in RunType /\ run.nextEvent <= Len(events) /\ frames \in Stacks /\ due \in BOOLEAN
  BY DEF Inv, RunInv
<1>3. NoFlush \in DeliveryFlushes /\ NoFlush \in ReadFlushes /\ NoFlush \in Flushes
  BY FlushSteps DEF DeliveryFlushes
<1>4. run' \in RunType /\ run'.flush = NoFlush /\ run'.nextEvent = run.nextEvent
  BY <1>1, <1>2, <1>3 DEF RunType
<1> QED
  BY <1>1, <1>2, <1>3, <1>4, RunMovesInv

LEMMA DeliveredAcksDoneInv == ASSUME Inv, DeliveredAcksDone PROVE Inv'
<1>1. UNCHANGED <<server, tables, frames, reader, worker, due>>
  BY DEF DeliveredAcksDone
<1>2. /\ run \in RunType /\ run.nextEvent <= Len(events) /\ frames \in Stacks /\ due \in BOOLEAN
      /\ TablesInv
  BY DEF Inv, RunInv
<1> DEFINE flush == Loaded(ReadAcks)
<1>3. flush \in ReadFlushes /\ flush \in Flushes
  BY <1>2, LoadedReads DEF ReadFlushes
<1>4. \/ run' = [run EXCEPT !.step = "ackRead", !.flush = flush]
      \/ run' = [run EXCEPT !.step = "sync"]
  BY DEF DeliveredAcksDone
<1> HIDE DEF flush
<1>5. /\ run' \in RunType /\ run'.nextEvent = run.nextEvent
      /\ \/ run'.step = "ackRead" /\ run'.flush = flush
         \/ run'.step = "sync"
  BY <1>2, <1>3, <1>4 DEF RunType, RunSteps
<1> QED
  BY <1>1, <1>2, <1>3, <1>5, RunMovesInv

LEMMA ReadAcksDoneInv == ASSUME Inv, ReadAcksDone PROVE Inv'
<1>1. /\ UNCHANGED <<server, inbox, mapped, chatCursor, pendingDelivery, pendingRead,
                     reader, worker>>
      /\ OnTop("run")
  BY DEF ReadAcksDone, Running
<1>2. /\ run \in RunType /\ run.nextEvent <= Len(events) /\ frames \in Stacks /\ due \in BOOLEAN
      /\ ServerInv /\ TablesInv
  BY DEF Inv, RunInv
<1>3. CASE EndRun /\ due' = (due /\ ~run.listed) /\ UNCHANGED eventCursor
  <2>1. UNCHANGED tables
    BY <1>1, <1>3 DEF tables
  <2> QED
    BY <1>1, <1>3, <2>1, EndRunInv
<1>4. CASE /\ eventCursor' = run.nextEvent
           /\ run' = [run EXCEPT !.step = "heartbeat"]
           /\ UNCHANGED <<frames, due>>
  <2>1. eventCursor' \in 0 .. Len(events)
    BY <1>2, <1>4, EventsCounted DEF RunType
  <2>2. ServerInv' /\ TablesInv' /\ Grown /\ Len(events) \in Nat /\ Len(events') \in Nat
    BY <1>1, <1>2, <2>1, QueueStep DEF TablesInv
  <2>3. run' \in RunType /\ run'.step = "heartbeat" /\ run'.nextEvent = run.nextEvent
    BY <1>2, <1>4 DEF RunType, RunSteps
  <2>4. UNCHANGED events
    BY <1>1 DEF server
  <2> QED
    BY <1>1, <1>2, <1>4, <2>2, <2>3, <2>4, RunKeepsInv
<1> QED
  BY <1>3, <1>4 DEF ReadAcksDone

LEMMA HeartbeatInv == ASSUME Inv, Heartbeat \/ FailHeartbeat PROVE Inv'
<1>1. UNCHANGED <<server, tables, reader, worker, due>> /\ OnTop("run")
  BY DEF Heartbeat, FailHeartbeat, Running
<1>2. run \in RunType /\ run.nextEvent <= Len(events) /\ frames \in Stacks /\ due \in BOOLEAN
  BY DEF Inv, RunInv
<1>3. CASE EndRun
  BY <1>1, <1>2, <1>3, EndRunInv
<1>4. CASE run' = [run EXCEPT !.step = "conversations"] /\ UNCHANGED frames
  <2>1. run' \in RunType /\ run'.step = "conversations" /\ run'.nextEvent = run.nextEvent
    BY <1>2, <1>4 DEF RunType, RunSteps
  <2> QED
    BY <1>1, <1>2, <1>4, <2>1, RunMovesInv
<1> QED
  BY <1>3, <1>4 DEF Heartbeat, FailHeartbeat

LEMMA ListConversationsInv == ASSUME Inv, ListConversations PROVE Inv'
<1>1. PICK listed \in BOOLEAN, todo \in SUBSET Conversations :
        \/ EndRun /\ due' = (due /\ ~listed)
        \/ /\ run' = [run EXCEPT !.step = "sync", !.phase = "reconcile", !.todo = todo,
                                 !.failed = FALSE, !.listed = listed]
           /\ UNCHANGED <<frames, due>>
  <2>1. PICK listed \in BOOLEAN :
          LET todo == IF listed THEN DB!ListConversationsForMember(Self)
                      ELSE {c \in Conversations : Local(c) # {}} IN
          \/ EndRun /\ due' = (due /\ ~listed)
          \/ /\ run' = [run EXCEPT !.step = "sync", !.phase = "reconcile", !.todo = todo,
                                   !.failed = FALSE, !.listed = listed]
             /\ UNCHANGED <<frames, due>>
    BY Zenon DEF ListConversations
  <2>2. /\ DB!ListConversationsForMember(Self) \in SUBSET Conversations
        /\ {c \in Conversations : Local(c) # {}} \in SUBSET Conversations
    BY DEF DB!ListConversationsForMember
  <2> QED
    BY <2>1, <2>2
<1>2. UNCHANGED <<server, tables, reader, worker>> /\ OnTop("run")
  BY DEF ListConversations, Running
<1>3. run \in RunType /\ run.nextEvent <= Len(events) /\ frames \in Stacks /\ due \in BOOLEAN
  BY DEF Inv, RunInv
<1>4. CASE EndRun /\ due' = (due /\ ~listed)
  BY <1>2, <1>4, EndRunInv
<1>5. CASE /\ run' = [run EXCEPT !.step = "sync", !.phase = "reconcile", !.todo = todo,
                                 !.failed = FALSE, !.listed = listed]
           /\ UNCHANGED <<frames, due>>
  <2>1. run' \in RunType /\ run'.step = "sync" /\ run'.nextEvent = run.nextEvent
    BY <1>3, <1>5 DEF RunType, RunSteps
  <2> QED
    BY <1>2, <1>3, <1>5, <2>1, RunMovesInv
<1> QED
  BY <1>1, <1>4, <1>5

LEMMA BecomeDueInv == ASSUME Inv, BecomeDue PROVE Inv'
<1>1. /\ run \in RunType /\ run.nextEvent <= Len(events) /\ frames \in Stacks
      /\ run.step = "ackDelivered" => run.flush \in DeliveryFlushes
      /\ run.step = "ackRead" => run.flush \in ReadFlushes
  BY DEF Inv, RunInv
<1>2. UNCHANGED <<server, tables, frames, run, reader, worker>> /\ due' = TRUE
  BY DEF BecomeDue
<1> QED
  BY <1>1, <1>2, RunMovesInv

\* A step of the worker or of the readReceiptsFlushed handler, the tables being in order.
LEMMA WorkerKeepsInv ==
  ASSUME Inv, ServerInv', TablesInv', Grown, Len(events) \in Nat, Len(events') \in Nat,
         UNCHANGED <<run, due>>, frames' \in Stacks, reader' \in ReadFlushes', WorkerInv'
  PROVE  Inv'
<1>1. RunInv'
  BY MemoryKept DEF Inv
<1> QED
  BY <1>1 DEF Inv

LEMMA OpenConversationInv ==
  ASSUME Inv, NEW c \in Conversations, OpenConversation(c) PROVE Inv'
<1> DEFINE targets == {m \in Local(c) : inbox[m] = "received"}
<1>1. /\ worker' = [IdleWorker EXCEPT !.step = "consume", !.conversation = c, !.targets = targets]
      /\ UNCHANGED <<server, tables, frames, run, reader, due>>
  BY DEF OpenConversation
<1>2. \A m \in targets : m \in Messages /\ Home[m] = c /\ inbox[m] # "absent"
  BY DEF Local
<1>3. UNCHANGED inbox /\ UNCHANGED chatCursor
  BY <1>1 DEF tables
<1> HIDE DEF targets
<1>4. worker' = [step |-> "consume", conversation |-> c, targets |-> targets, readSeq |-> 0]
  BY <1>1 DEF IdleWorker
<1>5. WorkerInv'
  BY <1>2, <1>3, <1>4 DEF WorkerInv
<1>6. ServerInv' /\ TablesInv' /\ Grown /\ Len(events) \in Nat /\ Len(events') \in Nat
  BY <1>1, TablesKept DEF Inv
<1>7. reader' \in ReadFlushes' /\ frames' \in Stacks
  BY <1>1, <1>6, MemoryKept DEF Inv
<1> QED
  BY <1>1, <1>5, <1>6, <1>7, WorkerKeepsInv

LEMMA ConsumeUnreadInv == ASSUME Inv, ConsumeUnread PROVE Inv'
<1> DEFINE unread == {m \in Local(worker.conversation) : inbox[m] = "received"}
<1>1. /\ worker.step = "consume"
      /\ inbox' = [m \in Messages |-> IF m \in unread THEN "read" ELSE inbox[m]]
      /\ worker' = [worker EXCEPT !.step = IF unread # {} THEN "cursor" ELSE "done"]
      /\ UNCHANGED <<server, mapped, chatCursor, eventCursor, pendingDelivery, pendingRead,
                     frames, run, reader, due>>
  BY DEF ConsumeUnread
<1>2. ServerInv /\ TablesInv /\ WorkerInv
  BY DEF Inv
<1>3. \A m \in Messages : m \in unread <=> Home[m] = worker.conversation /\ inbox[m] = "received"
  BY DEF Local
<1>4. /\ inbox' \in [Messages -> {"absent", "received", "read"}]
      /\ \A m \in Messages : /\ inbox[m] = "read" => inbox'[m] = "read"
                             /\ inbox[m] # "absent" <=> inbox'[m] # "absent"
      /\ \A m \in Messages :
           Home[m] = worker.conversation /\ inbox[m] # "absent" => inbox'[m] = "read"
  BY <1>1, <1>2, <1>3 DEF TablesInv
<1>5. PICK step \in {"cursor", "done"} : worker' = [worker EXCEPT !.step = step]
  BY <1>1
<1> HIDE DEF unread
<1>6. /\ ServerInv' /\ UNCHANGED messages /\ UNCHANGED events
      /\ Len(events) \in Nat /\ Len(events') \in Nat
      /\ Store!Stored' = Store!Stored /\ \A c : Store!LatestSeq(c)' = Store!LatestSeq(c)
  BY <1>1, <1>2, ServerKept
<1>7. Grown
  BY <1>1, <1>2, <1>4, <1>6 DEF Grown, TablesInv
<1>8. NothingIsSkipped'
  BY <1>1, <1>2, <1>4, <1>6 DEF TablesInv, NothingIsSkipped, DB!NoMessage
<1>9. ReportsAreTrue'
  BY <1>1, <1>2, <1>7, ReportsKept
<1>10. mapped' \subseteq {m \in Store!Stored' : inbox'[m] # "absent"}
  BY <1>1, <1>2, <1>4, <1>6 DEF TablesInv, Store!Stored
<1>11. TablesInv'
  BY <1>1, <1>2, <1>4, <1>6, <1>8, <1>9, <1>10 DEF TablesInv
<1>12. WorkerInv'
  <2>1. /\ worker \in [step : {"idle", "consume", "cursor", "enqueue", "done"},
                       conversation : Conversations \cup {"none"}, targets : SUBSET Messages,
                       readSeq : Nat]
        /\ worker.conversation \in Conversations
        /\ \A m \in worker.targets :
             m \in Messages /\ Home[m] = worker.conversation /\ inbox[m] # "absent"
    BY <1>1, <1>2 DEF WorkerInv
  <2>2. /\ worker' \in [step : {"idle", "consume", "cursor", "enqueue", "done"},
                        conversation : Conversations \cup {"none"}, targets : SUBSET Messages,
                        readSeq : Nat]
        /\ worker'.step = step /\ worker'.conversation = worker.conversation
        /\ worker'.targets = worker.targets
    BY <1>5, <2>1
  <2> QED
    BY <1>4, <2>1, <2>2 DEF WorkerInv
<1>13. reader' \in ReadFlushes' /\ frames' \in Stacks
  BY <1>1, <1>2, <1>7, MemoryKept DEF Inv
<1> QED
  BY <1>1, <1>6, <1>7, <1>11, <1>12, <1>13, WorkerKeepsInv

LEMMA LoadReadSeqInv == ASSUME Inv, LoadReadSeq PROVE Inv'
<1>1. /\ worker.step = "cursor"
      /\ worker' = [worker EXCEPT !.step = "enqueue", !.readSeq = chatCursor[worker.conversation]]
      /\ UNCHANGED <<server, tables, frames, run, reader, due>>
  BY DEF LoadReadSeq
<1>2. UNCHANGED inbox /\ UNCHANGED chatCursor
  BY <1>1 DEF tables
<1>3. /\ worker \in [step : {"idle", "consume", "cursor", "enqueue", "done"},
                     conversation : Conversations \cup {"none"}, targets : SUBSET Messages,
                     readSeq : Nat]
      /\ worker.conversation \in Conversations
      /\ \A m \in worker.targets :
           Home[m] = worker.conversation /\ inbox[m] # "absent" /\ inbox[m] = "read"
  BY <1>1 DEF Inv, WorkerInv
<1>4. chatCursor[worker.conversation] \in Nat
  BY <1>3 DEF Inv, TablesInv
<1>5. /\ worker' \in [step : {"idle", "consume", "cursor", "enqueue", "done"},
                      conversation : Conversations \cup {"none"}, targets : SUBSET Messages,
                      readSeq : Nat]
      /\ worker'.step = "enqueue" /\ worker'.conversation = worker.conversation
      /\ worker'.targets = worker.targets /\ worker'.readSeq = chatCursor[worker.conversation]
  BY <1>1, <1>3, <1>4
<1>6. WorkerInv'
  BY <1>2, <1>3, <1>4, <1>5 DEF WorkerInv
<1>7. ServerInv' /\ TablesInv' /\ Grown /\ Len(events) \in Nat /\ Len(events') \in Nat
  BY <1>1, TablesKept DEF Inv
<1>8. reader' \in ReadFlushes' /\ frames' \in Stacks
  BY <1>1, <1>7, MemoryKept DEF Inv
<1> QED
  BY <1>1, <1>6, <1>7, <1>8, WorkerKeepsInv

LEMMA EnqueueReadAckInv == ASSUME Inv, NEW m \in Messages, EnqueueReadAck(m) PROVE Inv'
<1>1. /\ worker.step = "enqueue" /\ m \in worker.targets
      /\ pendingRead' = IF m \in mapped THEN [pendingRead EXCEPT ![m] = worker.readSeq]
                        ELSE pendingRead
      /\ worker' = [worker EXCEPT !.targets = @ \ {m}]
      /\ UNCHANGED <<server, inbox, mapped, chatCursor, eventCursor, pendingDelivery,
                     frames, run, reader, due>>
  BY DEF EnqueueReadAck
<1>2. ServerInv /\ TablesInv /\ WorkerInv
  BY DEF Inv
<1>3. /\ worker \in [step : {"idle", "consume", "cursor", "enqueue", "done"},
                     conversation : Conversations \cup {"none"}, targets : SUBSET Messages,
                     readSeq : Nat]
      /\ worker.conversation \in Conversations /\ worker.readSeq \in Nat
      /\ \A k \in worker.targets :
           Home[k] = worker.conversation /\ inbox[k] # "absent" /\ inbox[k] = "read"
      /\ worker.readSeq <= chatCursor[worker.conversation]
  BY <1>1, <1>2 DEF WorkerInv
<1>4. /\ pendingRead' \in [Messages -> Nat \cup {NotQueued}]
      /\ \A k \in Messages :
           \/ pendingRead'[k] = pendingRead[k]
           \/ inbox[k] = "read" /\ k \in mapped /\ pendingRead'[k] <= chatCursor[Home[k]]
  BY <1>1, <1>2, <1>3 DEF TablesInv
<1>5. eventCursor' \in 0 .. Len(events) /\ pendingDelivery' \subseteq mapped
  BY <1>1, <1>2 DEF TablesInv
<1>6. ServerInv' /\ TablesInv' /\ Grown /\ Len(events) \in Nat /\ Len(events') \in Nat
  BY <1>1, <1>2, <1>4, <1>5, QueueStep
<1>7. /\ worker' \in [step : {"idle", "consume", "cursor", "enqueue", "done"},
                      conversation : Conversations \cup {"none"}, targets : SUBSET Messages,
                      readSeq : Nat]
      /\ worker'.step = worker.step /\ worker'.conversation = worker.conversation
      /\ worker'.targets = worker.targets \ {m} /\ worker'.readSeq = worker.readSeq
  <2>1. worker.targets \ {m} \in SUBSET Messages
    BY <1>3
  <2> QED
    BY <1>1, <1>3, <2>1
<1>8. WorkerInv'
  BY <1>1, <1>3, <1>7 DEF WorkerInv
<1>9. reader' \in ReadFlushes' /\ frames' \in Stacks
  BY <1>1, <1>2, <1>6, MemoryKept DEF Inv
<1> QED
  BY <1>1, <1>6, <1>8, <1>9, WorkerKeepsInv

LEMMA IdleWorkerInv == ASSUME worker' = IdleWorker PROVE WorkerInv'
BY DEF IdleWorker, WorkerInv

LEMMA HandleFlushedInv == ASSUME Inv, HandleFlushed PROVE Inv'
<1>1. /\ worker' = IdleWorker /\ UNCHANGED <<server, tables, run, due>>
      /\ \/ ~OnStack("reader") /\ Push("reader") /\ reader' = Loaded(ReadAcks)
         \/ UNCHANGED <<frames, reader>>
  BY DEF HandleFlushed
<1>2. ServerInv /\ TablesInv /\ frames \in Stacks /\ reader \in ReadFlushes
  BY DEF Inv
<1>3. ServerInv' /\ TablesInv' /\ Grown /\ Len(events) \in Nat /\ Len(events') \in Nat
  BY <1>1, <1>2, TablesKept
<1>4. ReadFlushes \subseteq ReadFlushes'
  BY <1>2, <1>3, FlushesGrow
<1>5. reader' \in ReadFlushes'
  BY <1>1, <1>2, <1>4, LoadedReads
<1>6. frames' \in Stacks
  BY <1>1, <1>2, StackMoves
<1> QED
  BY <1>1, <1>3, <1>5, <1>6, IdleWorkerInv, WorkerKeepsInv

LEMMA HandlerSendsInv == ASSUME Inv, HandlerSends PROVE Inv'
<1>1. PICK ack \in reader.acks, outcome \in Outcomes :
        AcknowledgeRead(ack, outcome) /\ reader' = Answered(reader, ack, outcome)
  BY DEF HandlerSends
<1>2. UNCHANGED tables /\ UNCHANGED <<frames, run, worker, due>>
  BY DEF HandlerSends
<1>3. ServerInv /\ TablesInv /\ frames \in Stacks /\ reader \in ReadFlushes /\ WorkerInv
  BY DEF Inv
<1>4. /\ ack \in Acks /\ ack.message \in mapped
      /\ inbox[ack.message] = "read" /\ ack.seq <= chatCursor[Home[ack.message]]
  BY <1>1, <1>3 DEF Flushes, ReadFlushes
<1>5. ServerInv' /\ TablesInv' /\ Grown /\ Len(events) \in Nat /\ Len(events') \in Nat
  BY <1>1, <1>2, <1>3, <1>4, AcknowledgeStep
<1>6. ReadFlushes \subseteq ReadFlushes' /\ WorkerInv'
  BY <1>2, <1>3, <1>5, FlushesGrow, MemoryKept
<1>7. reader' \in ReadFlushes'
  BY <1>1, <1>3, <1>6, FlushSteps
<1> QED
  BY <1>2, <1>3, <1>5, <1>6, <1>7, WorkerKeepsInv

LEMMA HandlerReplyInv == ASSUME Inv, HandlerReply PROVE Inv'
<1>1. /\ pendingRead' = [pendingRead EXCEPT ![reader.reply.message] = NotQueued]
      /\ reader' = FlushOf(reader.acks)
      /\ UNCHANGED <<server, inbox, mapped, chatCursor, eventCursor, pendingDelivery,
                     frames, run, worker, due>>
  BY DEF HandlerReply
<1>2. ServerInv /\ TablesInv /\ frames \in Stacks /\ reader \in ReadFlushes /\ WorkerInv
  BY DEF Inv
<1>3. /\ pendingRead' \in [Messages -> Nat \cup {NotQueued}]
      /\ \A m \in Messages : pendingRead'[m] = pendingRead[m] \/ pendingRead'[m] = NotQueued
      /\ eventCursor' \in 0 .. Len(events) /\ pendingDelivery' \subseteq mapped
  BY <1>1, <1>2 DEF TablesInv
<1>4. ServerInv' /\ TablesInv' /\ Grown /\ Len(events) \in Nat /\ Len(events') \in Nat
  BY <1>1, <1>2, <1>3, QueueStep
<1>5. ReadFlushes \subseteq ReadFlushes' /\ WorkerInv'
  BY <1>1, <1>2, <1>4, FlushesGrow, MemoryKept
<1>6. reader' \in ReadFlushes'
  BY <1>1, <1>2, <1>5, FlushSteps
<1> QED
  BY <1>1, <1>2, <1>4, <1>5, <1>6, WorkerKeepsInv

LEMMA HandlerEndsInv == ASSUME Inv, HandlerLosesAck \/ HandlerDone PROVE Inv'
<1>1. UNCHANGED <<server, tables, run, worker, due>>
  BY DEF HandlerLosesAck, HandlerDone
<1>2. ServerInv /\ TablesInv /\ frames \in Stacks /\ reader \in ReadFlushes /\ WorkerInv
  BY DEF Inv
<1>3. ServerInv' /\ TablesInv' /\ Grown /\ Len(events) \in Nat /\ Len(events') \in Nat
  BY <1>1, <1>2, TablesKept
<1>4. ReadFlushes \subseteq ReadFlushes' /\ WorkerInv'
  BY <1>1, <1>2, <1>3, FlushesGrow, MemoryKept
<1>5. reader' \in ReadFlushes'
  BY <1>2, <1>4, FlushSteps DEF HandlerLosesAck, HandlerDone
<1>6. frames' \in Stacks
  BY <1>2, StackMoves DEF HandlerLosesAck, HandlerDone
<1> QED
  BY <1>1, <1>3, <1>4, <1>5, <1>6, WorkerKeepsInv

LEMMA CrashInv == ASSUME Inv, Crash PROVE Inv'
<1>1. /\ UNCHANGED <<server, tables>>
      /\ frames' = << >> /\ run' = IdleRun /\ reader' = NoFlush /\ worker' = IdleWorker /\ due' = TRUE
  BY DEF Crash
<1>2. ServerInv' /\ TablesInv' /\ Grown /\ Len(events) \in Nat /\ Len(events') \in Nat
  BY <1>1, TablesKept DEF Inv
<1>3. ReadFlushes \subseteq ReadFlushes'
  BY <1>2, FlushesGrow DEF Inv
<1>4. reader' \in ReadFlushes'
  BY <1>1, <1>3, FlushSteps
<1>5. WorkerInv'
  BY <1>1, IdleWorkerInv
<1>6. run' \in RunType /\ run'.step = "idle" /\ run'.nextEvent = 0
  BY <1>1, IdleInRunType DEF IdleRun
<1>7. RunInv'
  BY <1>2, <1>6 DEF RunInv
<1>8. frames' \in Stacks
  BY <1>1 DEF Stacks
<1> QED
  BY <1>1, <1>2, <1>4, <1>5, <1>7, <1>8 DEF Inv

-----------------------------------------------------------------------------
(* The theorems.                                                           *)

LEMMA InitInv == Init => Inv
<1> SUFFICES ASSUME Init PROVE Inv
  OBVIOUS
<1>1. Store!Init /\ Store!LogInv /\ Store!ShapeInv
  BY SameTables, SenderIsClient, Store!InitLogInv, Store!InitShapeInv DEF Init
<1>2. Store!Stored = {} /\ events = << >>
  BY <1>1 DEF Store!Init, Store!Stored
<1>3. ServerInv
  BY <1>1, <1>2 DEF ServerInv
<1>4. \A c \in Conversations : Store!LatestSeq(c) \in Nat
  BY <1>3, NumbersGrow, SenderIsClient, Store!LatestSeqBounds DEF ServerInv, Store!LogInv
<1>5. /\ inbox = [m \in Messages |-> "absent"] /\ mapped = {}
      /\ chatCursor = [c \in Conversations |-> 0] /\ eventCursor = 0
      /\ pendingDelivery = {} /\ pendingRead = [m \in Messages |-> NotQueued]
  BY DEF Init
<1>6. NothingIsSkipped
  BY <1>2 DEF NothingIsSkipped, Store!Stored, Store!NoMessage, DB!NoMessage
<1>7. ReportsAreTrue
  <2>1. ASSUME NEW m \in Messages
        PROVE  /\ RowState(m) = "none" /\ cursors[Home[m]][Self].read = 0
               /\ pendingRead[m] = -1 /\ chatCursor[Home[m]] = 0
    BY <1>1, <1>5, HomeAssumption, PeersAssumption
    DEF Store!Init, Store!NoDelivery, RowState, NotQueued
  <2> QED
    BY <2>1 DEF ReportsAreTrue, ServiceIsNotAhead, ReadQueueIsTrue, NotQueued
<1>8. TablesInv
  BY <1>2, <1>4, <1>5, <1>6, <1>7 DEF TablesInv
<1>9. RunInv
  BY <1>2, IdleInRunType DEF Init, RunInv, IdleRun
<1>10. WorkerInv
  BY DEF Init, WorkerInv, IdleWorker
<1> QED
  BY <1>3, <1>8, <1>9, <1>10, FlushSteps DEF Init, Inv, Stacks

LEMMA NextInv == Inv /\ [Next]_vars => Inv'
<1> SUFFICES ASSUME Inv, [Next]_vars PROVE Inv'
  OBVIOUS
<1>1. CASE UNCHANGED vars
  <2>1. UNCHANGED <<server, tables, frames, run, reader, worker, due>>
    BY <1>1 DEF vars, memory
  <2>2. ServerInv' /\ TablesInv' /\ Grown /\ Len(events) \in Nat /\ Len(events') \in Nat
    BY <2>1, TablesKept DEF Inv
  <2> QED
    BY <2>1, <2>2, MemoryKeepsInv DEF memory
<1>2. CASE RunStep
  BY <1>2, StartRunInv, ConsumeEventsInv, FailEventsInv, SyncConversationInv,
     FailConversationInv, SyncedAllInv, SendAckInv, AckReplyInv, LoseAckInv,
     DeliveredAcksDoneInv, ReadAcksDoneInv, HeartbeatInv, ListConversationsInv DEF RunStep
<1>3. CASE WorkerStep
  BY <1>3, ConsumeUnreadInv, LoadReadSeqInv, HandleFlushedInv, EnqueueReadAckInv DEF WorkerStep
<1>4. CASE HandlerStep
  BY <1>4, HandlerSendsInv, HandlerReplyInv, HandlerEndsInv DEF HandlerStep
<1> QED
  BY <1>1, <1>2, <1>3, <1>4, PeerPostsInv, SessionChangesInv, DirectArrivalInv, BecomeDueInv,
     OpenConversationInv, CrashInv DEF Next

LEMMA Invariance == Spec => []Inv
BY InitInv, NextInv, PTL DEF Spec

\* The tables of both sides, the stack of handlers and the run hold values of their types,
\* however the handlers nest, whatever is lost and whenever the device crashes.
THEOREM TypeCorrect == Spec => []TypeOK
<1>1. ASSUME Inv PROVE TypeOK
  <2>1. DB!TypeOK
    BY <1>1, SameTables DEF Inv, ServerInv, Store!LogInv
  <2>2. Len(frames) <= 2
    <3>1. frames \in Stacks
      BY <1>1 DEF Inv
    <3>2. Len(<< >>) = 0 /\ \A a, b : Len(<<a>>) = 1 /\ Len(<<a, b>>) = 2
      OBVIOUS
    <3>3. frames = << >> \/ (\E a : frames = <<a>>) \/ (\E a, b : frames = <<a, b>>)
      BY <3>1, Zenon DEF Stacks
    <3>4. Len(frames) \in 0 .. 2
      BY <3>2, <3>3
    <3>5. \A n \in 0 .. 2 : n <= 2
      OBVIOUS
    <3> QED
      BY <3>4, <3>5, Zenon
  <2>3. mapped \in SUBSET Messages /\ pendingDelivery \in SUBSET Messages
    BY <1>1 DEF Inv, TablesInv, Store!Stored
  <2>4. run.todo \in SUBSET Conversations /\ due \in BOOLEAN
    BY <1>1 DEF Inv, RunInv, RunType
  <2> QED
    BY <1>1, <2>1, <2>2, <2>3, <2>4 DEF TypeOK, Inv, TablesInv
<1> QED
  BY <1>1, Invariance, PTL

\* syncConversation moves a conversation's cursor only over messages that its transaction has
\* stored and mapped: whatever is posted, lost or interrupted meanwhile, a message at or below
\* the cursor is on the device.
THEOREM CursorsSkipNothing == Spec => []NothingIsSkipped
<1>1. Inv => NothingIsSkipped
  BY DEF Inv, TablesInv
<1> QED
  BY <1>1, Invariance, PTL

\* What the acknowledgement flushes, the readReceiptsFlushed handler and the worker tell the
\* service is what the device has done: a delivered row's message is in the database, a read
\* row's was marked read, and no read cursor is beyond what was synced.
THEOREM ReportsStayTrue == Spec => []ReportsAreTrue
<1>1. Inv => ReportsAreTrue
  BY DEF Inv, TablesInv
<1> QED
  BY <1>1, Invariance, PTL

-----------------------------------------------------------------------------
(* The queue of delivery acknowledgements.  Two things make a device forget  *)
(* a row for good: a 404 for a transaction that failed, and a retry that     *)
(* opens a row for a message that the device has synced without one.  As     *)
(* long as neither happens, every pending row it has synced is queued.       *)

Undisturbed ==
  /\ \A m \in mapped : DB!HasRow(m, Self)' => DB!HasRow(m, Self)
  /\ budget'.serverErrors = budget.serverErrors

\* A reply that the flush of deliveries waits for is about a row that is pending no longer:
\* its entry may be deleted, whatever was queued in between.
QueueInv ==
  \A m \in mapped : RowState(m) = "pending" =>
    /\ m \in pendingDelivery
    /\ run.step = "ackDelivered" /\ Awaiting(run.flush) => run.flush.reply.message # m

Kinds == {"losses", "serverErrors", "crashes", "openings"}
BudgetInv == budget \in [Kinds -> Nat]

LEMMA BudgetStep == BudgetInv /\ [Next]_vars => BudgetInv'
<1> SUFFICES ASSUME BudgetInv, [Next]_vars PROVE BudgetInv'
  OBVIOUS
<1>1. ASSUME NEW k \in Kinds, Spend(k) PROVE BudgetInv'
  BY <1>1 DEF BudgetInv, Spend
<1>2. CASE UNCHANGED budget
  BY <1>2 DEF BudgetInv
<1>3. \A m : Refuse(m) => UNCHANGED budget \/ Spend("serverErrors")
  BY DEF Refuse
<1>4. \A ack, outcome : AcknowledgeDelivered(ack, outcome) \/ AcknowledgeRead(ack, outcome) =>
        UNCHANGED budget \/ Spend("serverErrors")
  BY <1>3 DEF AcknowledgeDelivered, AcknowledgeRead
<1>5. RunStep => UNCHANGED budget \/ \E k \in Kinds : Spend(k)
  <2>1. SendDeliveredAck \/ SendReadAck => UNCHANGED budget \/ Spend("serverErrors")
    BY <1>4 DEF SendDeliveredAck, SendReadAck
  <2>2. ListConversations \/ (\E c \in Conversations : FailConversation(c)) =>
          UNCHANGED budget \/ Spend("losses")
    BY DEF ListConversations, FailConversation
  <2> QED
    BY <2>1, <2>2 DEF RunStep, StartRun, ConsumeEvents, FailEvents, SyncConversation, SyncedAll,
       DeliveredAckReply, LoseAck, DeliveredAcksDone, ReadAckReply, ReadAcksDone, Heartbeat,
       FailHeartbeat, Kinds
<1>6. HandlerStep => UNCHANGED budget \/ \E k \in Kinds : Spend(k)
  <2>1. HandlerSends => UNCHANGED budget \/ Spend("serverErrors")
    BY <1>4 DEF HandlerSends
  <2> QED
    BY <2>1 DEF HandlerStep, HandlerReply, HandlerLosesAck, HandlerDone, Kinds
<1>7. UNCHANGED budget \/ \E k \in Kinds : Spend(k)
  BY <1>5, <1>6 DEF Next, vars, PeerPosts, SessionChanges, DirectArrival, BecomeDue,
     OpenConversation, WorkerStep, ConsumeUnread, LoadReadSeq, EnqueueReadAck, HandleFlushed,
     Crash, Kinds
<1> QED
  BY <1>1, <1>2, <1>7

\* Without failing transactions the service refuses only whom it has no row for.
LEMMA RefusedHasNoRow ==
  ASSUME BudgetInv, Undisturbed, NEW m \in Messages, Refuse(m)
  PROVE  ~DB!CanMark(m, Self)
<1>1. ~Spend("serverErrors")
  BY DEF Undisturbed, BudgetInv, Spend, Kinds
<1> QED
  BY <1>1 DEF Refuse

\* A row is pending exactly if it is there and in that state.
LEMMA PendingRow ==
  ASSUME ServerInv, NEW m \in Messages
  PROVE  RowState(m) = "pending" => DB!HasRow(m, Self)
BY SenderIsClient, SameTables, PeersAssumption, Store!RowsByState DEF ServerInv, RowState

\* An acknowledgement, whatever the service answers, takes no row back, and the message it
\* is about has no pending row afterwards.
LEMMA AcknowledgedRows ==
  ASSUME Inv, BudgetInv, Undisturbed, NEW ack \in Acks, ack.message \in mapped,
         NEW outcome \in Outcomes,
         AcknowledgeDelivered(ack, outcome) \/ AcknowledgeRead(ack, outcome)
  PROVE  \A m \in mapped : RowState(m)' = "pending" => RowState(m) = "pending" /\ m # ack.message
<1> DEFINE k == ack.message
<1>1. ServerInv /\ k \in Messages /\ ack.seq \in Nat /\ mapped \subseteq Store!Stored
  BY DEF Inv, TablesInv, Acks
<1>2. mapped \subseteq Messages
  BY <1>1 DEF Store!Stored
<1>3. CASE DB!MarkDelivered(k, Self, ack.seq) \/ DB!MarkRead(k, Self, ack.seq)
  <2>1. Marked(k)
    BY <1>1, <1>3, SameTransactions, MarkEffect
  <2> QED
    BY <1>2, <2>1 DEF Marked
<1>4. CASE Refuse(k)
  <2>1. ~DB!CanMark(k, Self)
    BY <1>1, <1>4, RefusedHasNoRow
  <2>2. ~DB!HasRow(k, Self)
    BY <1>1, <2>1, SameTables DEF DB!CanMark, DB!Stored, Store!Stored
  <2>3. \A m \in Messages : RowState(m)' = RowState(m)
    BY <1>4 DEF Refuse, server, RowState
  <2> QED
    BY <1>1, <1>2, <2>2, <2>3, PendingRow
<1> QED
  BY <1>3, <1>4 DEF AcknowledgeDelivered, AcknowledgeRead

\* What the steps without a reply to delete an entry must show.
LEMMA QueueKept ==
  ASSUME QueueInv, mapped' \subseteq mapped \cup pendingDelivery',
         \A m \in mapped : RowState(m)' = "pending" => RowState(m) = "pending",
         pendingDelivery \subseteq pendingDelivery',
         \/ mapped' \subseteq mapped /\ UNCHANGED run
         \/ run'.step # "ackDelivered" \/ ~Awaiting(run'.flush)
  PROVE  QueueInv'
BY DEF QueueInv

\* Loading a queue, dropping a reply or giving up begins no wait.
LEMMA NoWait ==
  /\ \A acks : ~Awaiting(FlushOf(acks)) /\ ~Awaiting(Loaded(acks))
  /\ ~Awaiting(NoFlush) /\ IdleRun.step = "idle"
BY DEF Awaiting, FlushOf, Loaded, NoFlush, IdleRun

\* The steps of a run that change no row and delete no entry of the queue.
LEMMA QuietRunStep ==
  ASSUME Inv, RunStep, ~SendDeliveredAck, ~DeliveredAckReply
  PROVE  run'.step # "ackDelivered" \/ ~Awaiting(run'.flush)
<1>0. run \in RunType
  BY DEF Inv, RunInv
<1>1. CASE StartRun \/ ConsumeEvents \/ FailEvents
  BY <1>0, <1>1 DEF StartRun, ConsumeEvents, FailEvents, IdleRun, RunType
<1>2. CASE \E c \in Conversations : SyncConversation(c)
  BY <1>0, <1>2, NoWait DEF SyncConversation, RunType
<1>3. CASE \E c \in Conversations : FailConversation(c)
  BY <1>0, <1>3 DEF FailConversation, Running, RunType
<1>4. CASE SyncedAll
  <2> DEFINE flush == Loaded(DeliveryAcks(pendingDelivery))
  <2>1. ~Awaiting(flush)
    BY NoWait
  <2>2. run' = IdleRun \/ run' = [run EXCEPT !.step = "ackDelivered", !.final = TRUE, !.flush = flush]
    BY <1>4 DEF SyncedAll, EndRun
  <2> HIDE DEF flush
  <2> QED
    BY <1>0, <2>1, <2>2, NoWait DEF RunType
<1>5. CASE LoseAck \/ DeliveredAcksDone
  BY <1>0, <1>5, NoWait DEF LoseAck, DeliveredAcksDone, RunType
<1>6. CASE SendReadAck \/ ReadAckReply
  BY <1>0, <1>6 DEF SendReadAck, ReadAckReply, Running, RunType
<1>7. CASE ReadAcksDone \/ Heartbeat \/ FailHeartbeat \/ ListConversations
  BY <1>0, <1>7, NoWait DEF ReadAcksDone, Heartbeat, FailHeartbeat, ListConversations, EndRun, RunType
<1> QED
  BY <1>1, <1>2, <1>3, <1>4, <1>5, <1>6, <1>7 DEF RunStep

LEMMA QueueStepInv ==
  Inv /\ Inv' /\ BudgetInv /\ QueueInv /\ [Next /\ Undisturbed]_vars => QueueInv'
<1> SUFFICES ASSUME Inv, Inv', BudgetInv, QueueInv, [Next /\ Undisturbed]_vars PROVE QueueInv'
  OBVIOUS
<1>0. mapped \subseteq Messages /\ mapped \subseteq Store!Stored /\ ServerInv /\ ServerInv'
  BY DEF Inv, TablesInv, Store!Stored
<1>1. ASSUME UNCHANGED server
      PROVE  \A m \in mapped : RowState(m)' = "pending" => RowState(m) = "pending"
  BY <1>1 DEF server, RowState
<1>2. ASSUME Undisturbed, Extended
      PROVE  \A m \in mapped : RowState(m)' = "pending" => RowState(m) = "pending"
  <2> SUFFICES ASSUME NEW m \in mapped, RowState(m)' = "pending", RowState(m) # "pending"
               PROVE  FALSE
    OBVIOUS
  <2>1. RowState(m) = "none"
    BY <1>0, <1>2 DEF Extended
  <2>2. DB!HasRow(m, Self)'
    <3>1. Store!HasRow(m, Self)'
      <4>1. deliveries'[m][Self].state # "none"
        BY DEF RowState
      <4>2. deliveries'[m][Self] # Store!NoDelivery
        BY <4>1 DEF Store!NoDelivery
      <4> QED
        BY <4>2 DEF Store!HasRow
    <3> QED
      BY <3>1 DEF Store!HasRow, DB!HasRow, Store!NoDelivery, DB!NoDelivery
  <2>3. DB!HasRow(m, Self)
    BY <1>2, <2>2 DEF Undisturbed
  <2> QED
    BY <1>0, <2>1, <2>3, SenderIsClient, SameTables, PeersAssumption, Store!RowsByState
    DEF ServerInv, RowState
<1>3. CASE UNCHANGED vars
  BY <1>3 DEF QueueInv, vars, server, tables, memory, RowState
<1>4. CASE Undisturbed /\ (PeerPosts \/ SessionChanges)
  <2>1. Extended /\ UNCHANGED <<tables, memory>>
    BY <1>0, <1>4, PostEffect, SessionEffect, SameTransactions
    DEF PeerPosts, SessionChanges, DB!AppendSessionStatusEvent, Store!AppendSessionStatusEvent
  <2> QED
    BY <1>2, <1>4, <2>1, QueueKept DEF tables, memory
<1>5. CASE Undisturbed /\ SendDeliveredAck
  <2>1. PICK ack \in run.flush.acks, outcome \in Outcomes :
          AcknowledgeDelivered(ack, outcome) /\ run' = [run EXCEPT !.flush = Answered(@, ack, outcome)]
    BY <1>5 DEF SendDeliveredAck
  <2>2. UNCHANGED tables /\ run \in RunType /\ run.flush \in DeliveryFlushes
    BY <1>5 DEF SendDeliveredAck, Running, Inv, RunInv
  <2>3. ack \in Acks /\ ack.message \in mapped
    BY <2>1, <2>2 DEF DeliveryFlushes, Flushes
  <2>4. \A m \in mapped : RowState(m)' = "pending" => RowState(m) = "pending" /\ m # ack.message
    BY <1>5, <2>1, <2>3, AcknowledgedRows
  <2>5. run'.flush.reply.message = ack.message
    BY <2>1, <2>2 DEF RunType, Answered
  <2> QED
    BY <2>2, <2>4, <2>5 DEF QueueInv, tables
<1>6. CASE DeliveredAckReply
  <2>1. /\ run.step = "ackDelivered" /\ Awaiting(run.flush)
        /\ pendingDelivery' = pendingDelivery \ {run.flush.reply.message}
        /\ run' = [run EXCEPT !.flush = FlushOf(@.acks)]
        /\ UNCHANGED <<server, mapped>>
    BY <1>6 DEF DeliveredAckReply, Running
  <2>2. run \in RunType
    BY DEF Inv, RunInv
  <2>3. ~Awaiting(run'.flush)
    BY <2>1, <2>2, NoWait DEF RunType
  <2> QED
    BY <1>1, <2>1, <2>3 DEF QueueInv
<1>7. CASE Undisturbed /\ RunStep /\ ~SendDeliveredAck /\ ~DeliveredAckReply
  <2>1. run'.step # "ackDelivered" \/ ~Awaiting(run'.flush)
    BY <1>7, QuietRunStep
  <2>2. CASE SendReadAck
    <3>1. PICK ack \in run.flush.acks, outcome \in Outcomes : AcknowledgeRead(ack, outcome)
      BY <2>2 DEF SendReadAck
    <3>2. UNCHANGED tables /\ run.flush \in ReadFlushes
      BY <2>2 DEF SendReadAck, Running, Inv, RunInv
    <3>3. ack \in Acks /\ ack.message \in mapped
      BY <3>1, <3>2 DEF ReadFlushes, Flushes
    <3>4. \A m \in mapped : RowState(m)' = "pending" => RowState(m) = "pending"
      BY <1>7, <3>1, <3>3, AcknowledgedRows
    <3> QED
      BY <2>1, <3>2, <3>4, QueueKept DEF tables
  <2>3. CASE \E c \in Conversations : SyncConversation(c)
    <3>1. /\ mapped' \subseteq mapped \cup pendingDelivery' /\ pendingDelivery \subseteq pendingDelivery'
          /\ UNCHANGED server
      BY <2>3 DEF SyncConversation, QueueWith
    <3> QED
      BY <1>1, <2>1, <3>1, QueueKept
  <2>4. CASE ~SendReadAck /\ ~\E c \in Conversations : SyncConversation(c)
    <3>1. UNCHANGED <<server, mapped, pendingDelivery>>
      BY <1>7, <2>4 DEF RunStep, StartRun, ConsumeEvents, FailEvents, FailConversation, SyncedAll,
         LoseAck, DeliveredAcksDone, ReadAckReply, ReadAcksDone, Heartbeat, FailHeartbeat,
         ListConversations, tables
    <3> QED
      BY <1>1, <2>1, <3>1, QueueKept
  <2> QED
    BY <2>2, <2>3, <2>4
<1>8. CASE Undisturbed /\ HandlerSends
  <2>1. PICK ack \in reader.acks, outcome \in Outcomes : AcknowledgeRead(ack, outcome)
    BY <1>8 DEF HandlerSends
  <2>2. UNCHANGED tables /\ UNCHANGED run /\ reader \in ReadFlushes
    BY <1>8 DEF HandlerSends, Inv
  <2>3. ack \in Acks /\ ack.message \in mapped
    BY <2>1, <2>2 DEF ReadFlushes, Flushes
  <2>4. \A m \in mapped : RowState(m)' = "pending" => RowState(m) = "pending"
    BY <1>8, <2>1, <2>3, AcknowledgedRows
  <2> QED
    BY <2>2, <2>4, QueueKept DEF tables
<1>9. CASE \/ \E m \in Messages : DirectArrival(m)
           \/ BecomeDue \/ (\E c \in Conversations : OpenConversation(c)) \/ WorkerStep
           \/ HandlerReply \/ HandlerLosesAck \/ HandlerDone
  <2>1. UNCHANGED <<server, mapped, pendingDelivery, run>>
    BY <1>9 DEF DirectArrival, BecomeDue, OpenConversation, WorkerStep, ConsumeUnread, LoadReadSeq,
       EnqueueReadAck, HandleFlushed, HandlerReply, HandlerLosesAck, HandlerDone, tables, memory
  <2> QED
    BY <1>1, <2>1, QueueKept
<1>10. CASE Crash
  <2>1. UNCHANGED <<server, mapped, pendingDelivery>> /\ run' = IdleRun
    BY <1>10 DEF Crash, tables
  <2> QED
    BY <1>1, <2>1, NoWait, QueueKept
<1> QED
  BY <1>3, <1>4, <1>5, <1>6, <1>7, <1>8, <1>9, <1>10 DEF Next, HandlerStep

\* The device forgets no delivery: whatever page stored a message, and whichever requests and
\* replies are lost or overtaken by a crash, its pending row is queued for an acknowledgement.
\* It takes that no transaction of the service fails, and that nobody becomes a recipient
\* of a message that the device has synced before.
THEOREM PendingRowsStayQueued == Spec /\ [][Undisturbed]_vars => []PendingRowsAreQueued
<1>1. Init => BudgetInv /\ QueueInv
  <2> SUFFICES ASSUME Init PROVE BudgetInv /\ QueueInv
    OBVIOUS
  <2>1. BudgetInv
    BY LimitsAssumption DEF Init, BudgetInv, Kinds
  <2> QED
    BY <2>1 DEF Init, QueueInv
<1>2. [Next]_vars /\ [Undisturbed]_vars => [Next /\ Undisturbed]_vars
  OBVIOUS
<1>3. Inv /\ Inv' /\ BudgetInv /\ QueueInv /\ [Next]_vars /\ [Undisturbed]_vars =>
        BudgetInv' /\ QueueInv'
  BY <1>2, BudgetStep, QueueStepInv
<1>4. Inv /\ QueueInv => PendingRowsAreQueued
  BY DEF QueueInv, PendingRowsAreQueued
<1> QED
  BY <1>1, <1>3, <1>4, Invariance, PTL DEF Spec
=============================================================================
