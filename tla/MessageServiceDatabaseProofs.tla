-------------------- MODULE MessageServiceDatabaseProofs --------------------
(***************************************************************************)
(* Proofs about the message store, for every set of clients, conversations *)
(* and messages and every bound.                                           *)
(***************************************************************************)
EXTENDS MessageServiceDatabase, TLAPS, FiniteSetTheorems, WellFoundedInduction

-----------------------------------------------------------------------------
(* Sequence numbers.                                                       *)

\* SeqsAreContiguous in inductive form: no Max, whose value is a CHOOSE.
Contiguous(c) ==
  /\ \E n \in Nat : Seqs(c) = 1..n
  /\ \A m, n \in StoredIn(c) : messages[m].seq = messages[n].seq => m = n

\* The newest number of a hole-free sequence is its length.
LEMMA LatestOfInterval ==
  ASSUME NEW c, NEW n \in Nat, Seqs(c) = 1..n
  PROVE  LatestSeq(c) = n
<1>1. CASE n = 0
  BY <1>1 DEF LatestSeq
<1>2. CASE n # 0
  <2>1. n \in Seqs(c) /\ \A y \in Seqs(c) : n >= y
    BY <1>2
  <2>2. \A x \in Seqs(c) : (\A y \in Seqs(c) : x >= y) => x = n
    BY <2>1
  <2>3. Max(Seqs(c)) = n
    BY <2>1, <2>2 DEF Max
  <2> QED
    BY <2>1, <2>3 DEF LatestSeq
<1> QED
  BY <1>1, <1>2

\* The inductive form says what SeqsAreContiguous says.
LEMMA ContiguousImpliesProperty ==
  ASSUME \A c \in Conversations : Contiguous(c)
  PROVE  SeqsAreContiguous
<1> SUFFICES ASSUME NEW c \in Conversations
             PROVE  /\ Seqs(c) = 1..LatestSeq(c)
                    /\ \A m, n \in StoredIn(c) : messages[m].seq = messages[n].seq => m = n
  BY DEF SeqsAreContiguous
<1>1. PICK n \in Nat : Seqs(c) = 1..n
  BY DEF Contiguous
<1>2. LatestSeq(c) = n
  BY <1>1, LatestOfInterval
<1> QED
  BY <1>1, <1>2 DEF Contiguous

\* No stored row is the empty row.
LEMMA StoredRows ==
  ASSUME TypeOK
  PROVE  \A m \in Messages : m \in Stored <=> messages[m] \in MessageRow
BY DEF TypeOK, Stored, MessageRow, NoMessage

\* Storing a new message extends its conversation by the next number and leaves the
\* other conversations alone.
LEMMA StoreExtendsConversation ==
  ASSUME TypeOK, \A c \in Conversations : Contiguous(c),
         NEW m \in Messages, NEW c \in Conversations, NEW content \in Contents,
         NEW raw \in SUBSET Clients, StoreNewMessage(m, c, content, raw)
  PROVE  /\ NextConversationSeq(c) \in Nat \ {0}
         /\ \A d \in Conversations : Contiguous(d)'
         /\ messages' \in [Messages -> MessageRow \cup {NoMessage}]
<1> DEFINE s == NextConversationSeq(c)
           row == [conversation |-> c, content |-> content, seq |-> s]
<1>1. PICK n \in Nat : Seqs(c) = 1..n
  BY DEF Contiguous
<1>2. s = n + 1
  BY <1>1, LatestOfInterval DEF NextConversationSeq
<1>3. row \in MessageRow /\ row # NoMessage
  BY <1>2 DEF MessageRow, NoMessage
<1>4. messages' = [messages EXCEPT ![m] = row] /\ m \notin Stored
  BY DEF StoreNewMessage, Stored
<1>5. messages' \in [Messages -> MessageRow \cup {NoMessage}]
  BY <1>3, <1>4 DEF TypeOK
<1> HIDE DEF s
<1>6. \A d \in Conversations :
        StoredIn(d)' = IF d = c THEN StoredIn(d) \cup {m} ELSE StoredIn(d)
  BY <1>3, <1>4 DEF StoredIn, Stored, TypeOK
<1>7. \A k \in Messages : k # m => messages'[k] = messages[k]
  BY <1>4 DEF TypeOK
<1>8. messages'[m].seq = s
  BY <1>4 DEF TypeOK
<1>9. ASSUME NEW d \in Conversations PROVE Contiguous(d)'
  <2>1. CASE d = c
    <3>1. Seqs(c)' = Seqs(c) \cup {s}
      BY <1>4, <1>6, <1>7, <1>8 DEF Seqs, StoredIn, Stored
    <3>2. Seqs(c)' = 1..(n + 1)
      BY <1>1, <1>2, <3>1
    <3>3. \A k \in StoredIn(c) : messages[k].seq # s
      BY <1>1, <1>2 DEF Seqs
    <3>4. \A k, l \in StoredIn(c)' : messages'[k].seq = messages'[l].seq => k = l
      BY <1>4, <1>6, <1>7, <1>8, <3>3 DEF Contiguous, StoredIn, Stored
    <3> QED
      BY <2>1, <3>2, <3>4 DEF Contiguous
  <2>2. CASE d # c
    <3>1. StoredIn(d)' = StoredIn(d) /\ m \notin StoredIn(d)
      BY <1>4, <1>6, <2>2 DEF StoredIn
    <3>2. \A k \in StoredIn(d) : messages'[k] = messages[k]
      BY <1>7, <3>1 DEF StoredIn, Stored
    <3>3. Seqs(d)' = Seqs(d)
      BY <3>1, <3>2 DEF Seqs
    <3> QED
      BY <3>1, <3>2, <3>3 DEF Contiguous
  <2> QED
    BY <2>1, <2>2
<1> QED
  BY <1>2, <1>5, <1>9 DEF s

-----------------------------------------------------------------------------
(* Type correctness and contiguity are proved together: the next sequence   *)
(* number is a number because the ones before it are contiguous.            *)

LogInv == TypeOK /\ \A c \in Conversations : Contiguous(c)

\* Only storeMessage's insert touches the numbers.
LEMMA ContiguousUnchanged ==
  ASSUME NEW c \in Conversations, Contiguous(c), UNCHANGED messages
  PROVE  Contiguous(c)'
BY DEF Contiguous, Seqs, StoredIn, Stored

\* The empty database is typed and numbered.
LEMMA InitLogInv == Init => LogInv
<1> SUFFICES ASSUME Init PROVE LogInv
  OBVIOUS
<1>1. TypeOK
  BY DEF Init, TypeOK, DeliveryRow, NoDelivery, Roles, Cursor
<1>2. ASSUME NEW c \in Conversations PROVE Contiguous(c)
  <2>1. Seqs(c) = {} /\ StoredIn(c) = {}
    BY DEF Init, Seqs, StoredIn, Stored, NoMessage
  <2>2. Seqs(c) = 1..0
    BY <2>1
  <2> QED
    BY <2>1, <2>2 DEF Contiguous
<1> QED
  BY <1>1, <1>2 DEF LogInv

\* The helpers of the transactions return rows of the tables' types.
LEMMA HelperTypes ==
  /\ \A rows \in [Clients -> DeliveryRow], recipients \in SUBSET Clients :
       WithPendingRows(rows, recipients) \in [Clients -> DeliveryRow]
  /\ \A roles \in [Clients -> Roles], clients \in SUBSET Clients :
       \A role \in {"member", "sender"} : WithRole(roles, clients, role) \in [Clients -> Roles]
  /\ \A old \in Cursor, received, read \in Nat : UpsertedCursor(old, received, read) \in Cursor
<1>1. \A rows \in [Clients -> DeliveryRow], recipients \in SUBSET Clients :
        WithPendingRows(rows, recipients) \in [Clients -> DeliveryRow]
  BY DEF WithPendingRows, DeliveryRow, PendingDelivery
<1>2. \A roles \in [Clients -> Roles], clients \in SUBSET Clients :
        \A role \in {"member", "sender"} : WithRole(roles, clients, role) \in [Clients -> Roles]
  BY DEF WithRole, UpsertedRole, Roles
<1>3. \A old \in Cursor, received, read \in Nat :
        UpsertedCursor(old, received, read) \in Cursor
  BY DEF UpsertedCursor, Cursor
<1> QED
  BY <1>1, <1>2, <1>3

\* The events of the transactions are rows of the log.
LEMMA EventTypes ==
  ASSUME NEW m \in Messages, NEW r \in Clients
  PROVE  /\ CreatedEvent(m) \in MessageEvent
         /\ DeliveredEvent(m, r) \in MessageEvent
         /\ ReadEvent(m, r) \in MessageEvent
         /\ \A t \in {"session.online", "session.offline"} :
              [type |-> t, client |-> r] \in SessionEvent
BY SenderAssumption
   DEF CreatedEvent, DeliveredEvent, ReadEvent, MessageEvent, SessionEvent

\* storeMessage of a new message keeps types and numbering.
LEMMA StoreNewMessageLogInv ==
  ASSUME LogInv, NEW m \in Messages, NEW c \in Conversations, NEW content \in Contents,
         NEW raw \in SUBSET Clients, StoreNewMessage(m, c, content, raw)
  PROVE  LogInv'
<1>1. /\ \A d \in Conversations : Contiguous(d)'
      /\ messages' \in [Messages -> MessageRow \cup {NoMessage}]
  BY StoreExtendsConversation DEF LogInv
<1> DEFINE recipients == NormalizedRecipients(m, raw)
<1>2. recipients \in SUBSET Clients
  BY DEF NormalizedRecipients
<1>3. deliveries' \in [Messages -> [Clients -> DeliveryRow]]
  <2>1. WithPendingRows(deliveries[m], recipients) \in [Clients -> DeliveryRow]
    BY <1>2, HelperTypes DEF LogInv, TypeOK
  <2>2. deliveries' = [deliveries EXCEPT ![m] = WithPendingRows(deliveries[m], recipients)]
    BY DEF StoreNewMessage
  <2> QED
    BY <2>1, <2>2 DEF LogInv, TypeOK
<1>4. members' \in [Conversations -> [Clients -> Roles]]
  <2> DEFINE enrolled == WithRole(members[c], {Sender[m]}, "sender")
             roles == WithRole(enrolled, recipients, "member")
  <2>1. enrolled \in [Clients -> Roles]
    <3>1. members[c] \in [Clients -> Roles] /\ {Sender[m]} \in SUBSET Clients
      BY SenderAssumption DEF LogInv, TypeOK
    <3> QED
      BY <3>1, HelperTypes
  <2>2. members' = [members EXCEPT ![c] = roles]
    BY DEF StoreNewMessage
  <2> HIDE DEF enrolled
  <2>3. roles \in [Clients -> Roles]
    BY <1>2, <2>1, HelperTypes
  <2> HIDE DEF roles
  <2> QED
    BY <2>2, <2>3 DEF LogInv, TypeOK
<1>5. cursors' \in [Conversations -> [Clients -> Cursor]]
  BY DEF StoreNewMessage, LogInv, TypeOK
<1>6. events' \in Seq(MessageEvent \cup SessionEvent)
  <2>1. CreatedEvent(m) \in MessageEvent
    BY SenderAssumption DEF CreatedEvent, MessageEvent
  <2> QED
    BY <2>1 DEF StoreNewMessage, LogInv, TypeOK
<1> QED
  BY <1>1, <1>3, <1>4, <1>5, <1>6 DEF LogInv, TypeOK

\* An appended log stays a log.
LEMMA LogTypeAfterAppend ==
  ASSUME NEW S, NEW log \in Seq(S), NEW e \in S
  PROVE  Append(log, e) \in Seq(S)
OBVIOUS

\* So does the retry that adds recipients.
LEMMA MergeDuplicateLogInv ==
  ASSUME LogInv, NEW m \in Messages, NEW c \in Conversations, NEW content \in Contents,
         NEW raw \in SUBSET Clients, MergeDuplicate(m, c, content, raw)
  PROVE  LogInv'
<1> DEFINE recipients == NormalizedRecipients(m, raw)
<1>1. recipients \in SUBSET Clients
  BY DEF NormalizedRecipients
<1>2. deliveries' \in [Messages -> [Clients -> DeliveryRow]]
  <2>1. WithPendingRows(deliveries[m], recipients) \in [Clients -> DeliveryRow]
    BY <1>1, HelperTypes DEF LogInv, TypeOK
  <2>2. deliveries' = [deliveries EXCEPT ![m] = WithPendingRows(deliveries[m], recipients)]
    BY DEF MergeDuplicate
  <2> QED
    BY <2>1, <2>2 DEF LogInv, TypeOK
<1>3. members' \in [Conversations -> [Clients -> Roles]]
  <2>1. WithRole(members[c], recipients, "member") \in [Clients -> Roles]
    BY <1>1, HelperTypes DEF LogInv, TypeOK
  <2>2. members' = [members EXCEPT ![c] = WithRole(members[c], recipients, "member")]
    BY DEF MergeDuplicate
  <2> QED
    BY <2>1, <2>2 DEF LogInv, TypeOK
<1>4. events' \in Seq(MessageEvent \cup SessionEvent)
  <2>1. CreatedEvent(m) \in MessageEvent
    BY SenderAssumption DEF CreatedEvent, MessageEvent
  <2>2. events' = events \/ events' = Append(events, CreatedEvent(m))
    BY DEF MergeDuplicate
  <2>3. events \in Seq(MessageEvent \cup SessionEvent)
    BY DEF LogInv, TypeOK
  <2>4. Append(events, CreatedEvent(m)) \in Seq(MessageEvent \cup SessionEvent)
    BY <2>1, <2>3, LogTypeAfterAppend
  <2> QED
    BY <2>2, <2>3, <2>4
<1>5. UNCHANGED <<messages, cursors>>
  BY DEF MergeDuplicate
<1> QED
  BY <1>2, <1>3, <1>4, <1>5, ContiguousUnchanged DEF LogInv, TypeOK

\* So do the two acknowledgements.
LEMMA MarkLogInv ==
  ASSUME LogInv, NEW m \in Messages, NEW r \in Clients, NEW s \in Nat,
         MarkDelivered(m, r, s) \/ MarkRead(m, r, s)
  PROVE  LogInv'
<1> DEFINE c == messages[m].conversation
           row == deliveries[m][r]
<1>1. m \in Stored /\ c \in Conversations /\ row \in DeliveryRow
  BY StoredRows DEF MarkDelivered, MarkRead, CanMark, Stored, LogInv, TypeOK, MessageRow
<1>2. deliveries' \in [Messages -> [Clients -> DeliveryRow]]
  <2>1. PICK new \in DeliveryRow : deliveries' = [deliveries EXCEPT ![m][r] = new]
    BY <1>1 DEF MarkDelivered, MarkRead, DeliveryRow
  <2> QED
    BY <2>1 DEF LogInv, TypeOK
<1>3. cursors' \in [Conversations -> [Clients -> Cursor]]
  <2>1. UpsertedCursor(cursors[c][r], s, 0) \in Cursor
        /\ UpsertedCursor(cursors[c][r], s, s) \in Cursor
    BY <1>1, HelperTypes DEF LogInv, TypeOK
  <2>2. PICK new \in Cursor : cursors' = [cursors EXCEPT ![c][r] = new]
    BY <2>1 DEF MarkDelivered, MarkRead
  <2> QED
    BY <2>2 DEF LogInv, TypeOK
<1>4. events' \in Seq(MessageEvent \cup SessionEvent)
  <2>1. DeliveredEvent(m, r) \in MessageEvent /\ ReadEvent(m, r) \in MessageEvent
    BY EventTypes
  <2>2. events' = events \/ \E e \in MessageEvent : events' = Append(events, e)
    BY <2>1 DEF MarkDelivered, MarkRead
  <2>3. events \in Seq(MessageEvent \cup SessionEvent)
    BY DEF LogInv, TypeOK
  <2> QED
    BY <2>2, <2>3, LogTypeAfterAppend
<1>5. UNCHANGED <<messages, members>>
  BY DEF MarkDelivered, MarkRead
<1> QED
  BY <1>2, <1>3, <1>4, <1>5, ContiguousUnchanged DEF LogInv, TypeOK

\* So does the session event.
LEMMA SessionStatusLogInv ==
  ASSUME LogInv, NEW u \in Clients, NEW t \in {"session.online", "session.offline"},
         AppendSessionStatusEvent(t, u)
  PROVE  LogInv'
<1>1. [type |-> t, client |-> u] \in SessionEvent
  BY DEF SessionEvent
<1> QED
  BY <1>1, ContiguousUnchanged DEF AppendSessionStatusEvent, LogInv, TypeOK

\* A delivery acknowledgement carries the number of the message it acknowledges.
LEMMA AcknowledgedSeq ==
  ASSUME LogInv, NEW m \in Stored
  PROVE  messages[m].seq \in Nat
BY StoredRows DEF LogInv, MessageRow, Stored

\* Every step of the store keeps types and numbering.
LEMMA NextLogInv == LogInv /\ [Next]_dbVars => LogInv'
<1> SUFFICES ASSUME LogInv, [Next]_dbVars PROVE LogInv'
  OBVIOUS
<1>1. ASSUME NEW m \in Messages, NEW c \in Conversations, NEW b \in Contents,
             NEW raw \in SUBSET Clients, StoreMessage(m, c, b, raw)
      PROVE  LogInv'
  <2>1. CASE StoreNewMessage(m, c, b, raw)
    BY <2>1, StoreNewMessageLogInv
  <2>2. CASE MergeDuplicate(m, c, b, raw)
    BY <2>2, MergeDuplicateLogInv
  <2>3. CASE IgnoreConflictingDuplicate(m, c, b, raw)
    BY <2>3, ContiguousUnchanged DEF IgnoreConflictingDuplicate, dbVars, LogInv, TypeOK
  <2> QED
    BY <1>1, <2>1, <2>2, <2>3 DEF StoreMessage
<1>2. ASSUME NEW m \in Messages, NEW r \in Clients, MarkDelivered(m, r, messages[m].seq)
      PROVE  LogInv'
  <2>1. m \in Stored
    BY <1>2 DEF MarkDelivered, CanMark, Stored
  <2> QED
    BY <1>2, <2>1, AcknowledgedSeq, MarkLogInv
<1>3. ASSUME NEW m \in Stored, NEW r \in Clients,
             NEW s \in 0..LatestSeq(messages[m].conversation), MarkRead(m, r, s)
      PROVE  LogInv'
  <2>1. m \in Messages /\ s \in Nat
    BY DEF Stored
  <2> QED
    BY <1>3, <2>1, MarkLogInv
<1>4. ASSUME NEW u \in Clients, NEW t \in {"session.online", "session.offline"},
             AppendSessionStatusEvent(t, u)
      PROVE  LogInv'
  BY <1>4, SessionStatusLogInv
<1>5. CASE UNCHANGED dbVars
  BY <1>5, ContiguousUnchanged DEF dbVars, LogInv, TypeOK
<1> QED
  BY <1>1, <1>2, <1>3, <1>4, <1>5 DEF Next

\* Types and numbering together are an inductive invariant of the message store.
THEOREM LogInvHolds == Spec => []LogInv
BY InitLogInv, NextLogInv, PTL DEF Spec

\* Every table of the message store keeps rows of its columns' types.
THEOREM TypeCorrect == Spec => []TypeOK
<1>1. LogInv => TypeOK
  BY DEF LogInv
<1> QED
  BY <1>1, LogInvHolds, PTL

\* storeMessage and its retries number each conversation 1, 2, ... without holes or
\* repetitions, whatever the order of requests.
THEOREM SequenceNumbersAreContiguous == Spec => []SeqsAreContiguous
<1>1. LogInv => SeqsAreContiguous
  BY ContiguousImpliesProperty DEF LogInv
<1> QED
  BY <1>1, LogInvHolds, PTL

-----------------------------------------------------------------------------
(* The two time stamps of a delivery row follow its state, and only stored   *)
(* messages have rows.  MarkDelivered and MarkRead decide by the time stamps *)
(* whether to log an event; the invariants speak of the state.               *)

Shaped(row) ==
  /\ row.deliveredAt <=> row.state \in {"delivered", "read"}
  /\ row.readAt <=> row.state = "read"

ShapeInv ==
  \A m \in Messages, r \in Clients :
    /\ Shaped(deliveries[m][r])
    /\ m \notin Stored => deliveries[m][r].state = "none"

\* The state column tells whether there is a row and which time stamps are set.
LEMMA RowsByState ==
  ASSUME LogInv, ShapeInv, NEW m \in Messages, NEW r \in Clients
  PROVE  HasRow(m, r) <=> deliveries[m][r].state # "none"
<1>1. deliveries[m][r] \in DeliveryRow /\ Shaped(deliveries[m][r])
  BY DEF LogInv, TypeOK, ShapeInv
<1> DEFINE row == deliveries[m][r]
<1>2. row = [state |-> row.state, deliveredAt |-> row.deliveredAt, readAt |-> row.readAt]
  BY <1>1 DEF DeliveryRow
<1>3. row.deliveredAt \in BOOLEAN /\ row.readAt \in BOOLEAN
  BY <1>1 DEF DeliveryRow
<1>4. ASSUME row.state = "none" PROVE row = NoDelivery
  <2>1. row.deliveredAt = FALSE /\ row.readAt = FALSE
    BY <1>1, <1>3, <1>4 DEF Shaped
  <2> QED
    BY <1>2, <1>4, <2>1 DEF NoDelivery
<1>5. ASSUME row = NoDelivery PROVE row.state = "none"
  BY <1>5 DEF NoDelivery
<1> QED
  BY <1>4, <1>5 DEF HasRow

\* There are no rows at first.
LEMMA InitShapeInv == Init => ShapeInv
BY DEF Init, ShapeInv, Shaped, NoDelivery

\* Opening rows: what StoreNewMessage and MergeDuplicate do to the table.
OpensRows(m, recipients) ==
  /\ deliveries' = [deliveries EXCEPT ![m] = WithPendingRows(@, recipients)]
  /\ messages'[m] # NoMessage
  /\ \A k \in Messages : k # m => messages'[k] = messages[k]

\* Opening pending rows keeps the shape of rows.
LEMMA OpensRowsEffect ==
  ASSUME LogInv, ShapeInv, NEW m \in Messages, NEW recipients \in SUBSET Clients,
         OpensRows(m, recipients)
  PROVE  /\ \A k \in Messages, r \in Clients :
              deliveries'[k][r] = IF k = m /\ r \in recipients /\ ~HasRow(m, r)
                                  THEN PendingDelivery ELSE deliveries[k][r]
         /\ ShapeInv'
<1>1. \A k \in Messages, r \in Clients :
        deliveries'[k][r] = IF k = m /\ r \in recipients /\ ~HasRow(m, r)
                            THEN PendingDelivery ELSE deliveries[k][r]
  <2>1. deliveries' = [deliveries EXCEPT ![m] = WithPendingRows(deliveries[m], recipients)]
    BY DEF OpensRows
  <2>2. /\ deliveries'[m] = WithPendingRows(deliveries[m], recipients)
        /\ \A k \in Messages : k # m => deliveries'[k] = deliveries[k]
    BY <2>1 DEF LogInv, TypeOK
  <2> QED
    BY <2>2 DEF WithPendingRows, HasRow
<1>2. Shaped(PendingDelivery)
  BY DEF Shaped, PendingDelivery
<1>3. \A k \in Messages : k \notin Stored' => k # m /\ k \notin Stored
  BY DEF OpensRows, Stored
<1> QED
  BY <1>1, <1>2, <1>3 DEF ShapeInv

\* Both effective outcomes of storeMessage open pending rows or change none.
LEMMA StoreOpensRows ==
  ASSUME LogInv, NEW m \in Messages, NEW c \in Conversations, NEW b \in Contents,
         NEW raw \in SUBSET Clients,
         StoreNewMessage(m, c, b, raw) \/ MergeDuplicate(m, c, b, raw)
  PROVE  OpensRows(m, NormalizedRecipients(m, raw))
<1>1. CASE StoreNewMessage(m, c, b, raw)
  <2>1. messages'[m] # NoMessage
    <3>1. NextConversationSeq(c) \in Nat \ {0}
      BY <1>1, StoreExtendsConversation DEF LogInv
    <3> QED
      BY <1>1, <3>1 DEF StoreNewMessage, NoMessage, LogInv, TypeOK
  <2> QED
    BY <1>1, <2>1 DEF StoreNewMessage, OpensRows, LogInv, TypeOK
<1>2. CASE MergeDuplicate(m, c, b, raw)
  BY <1>2 DEF MergeDuplicate, OpensRows
<1> QED
  BY <1>1, <1>2

\* Acknowledging: what MarkDelivered and MarkRead do to the table.
LEMMA MarkEffect ==
  ASSUME LogInv, ShapeInv, NEW m \in Messages, NEW r \in Clients, NEW s,
         MarkDelivered(m, r, s) \/ MarkRead(m, r, s)
  PROVE  /\ m \in Stored /\ deliveries[m][r].state # "none"
         /\ \A k \in Messages, u \in Clients :
              <<k, u>> # <<m, r>> => deliveries'[k][u] = deliveries[k][u]
         /\ MarkDelivered(m, r, s) =>
              deliveries'[m][r].state =
                IF deliveries[m][r].state = "read" THEN "read" ELSE "delivered"
         /\ MarkRead(m, r, s) => deliveries'[m][r].state = "read"
         /\ ShapeInv'
<1>1. m \in Stored /\ deliveries[m][r].state # "none"
  BY RowsByState DEF MarkDelivered, MarkRead, CanMark, Stored
<1>2. \A k \in Messages, u \in Clients :
        <<k, u>> # <<m, r>> => deliveries'[k][u] = deliveries[k][u]
  BY DEF MarkDelivered, MarkRead, LogInv, TypeOK
<1>3. ASSUME MarkDelivered(m, r, s)
      PROVE  deliveries'[m][r] =
               [state |-> IF deliveries[m][r].state = "read" THEN "read" ELSE "delivered",
                deliveredAt |-> TRUE, readAt |-> deliveries[m][r].readAt]
  BY <1>3 DEF MarkDelivered, LogInv, TypeOK
<1>4. ASSUME MarkRead(m, r, s)
      PROVE  deliveries'[m][r] = [state |-> "read", deliveredAt |-> TRUE, readAt |-> TRUE]
  BY <1>4 DEF MarkRead, LogInv, TypeOK
<1>5. Shaped(deliveries'[m][r])
  <2>1. Shaped(deliveries[m][r])
    BY DEF ShapeInv
  <2> QED
    BY <1>3, <1>4, <2>1 DEF Shaped
<1>6. Stored' = Stored
  BY DEF MarkDelivered, MarkRead, Stored
<1>7. ShapeInv'
  BY <1>1, <1>2, <1>5, <1>6 DEF ShapeInv
<1> QED
  BY <1>1, <1>2, <1>3, <1>4, <1>7

-----------------------------------------------------------------------------
(* Every step of the store is a step of the delivery ledger.                *)

Status == [m \in Messages |-> [r \in Clients |-> deliveries[m][r].state]]

\* Opening rows is the ledger's Address, or a stutter if there was nothing to open.
LEMMA OpeningIsAddress ==
  ASSUME LogInv, ShapeInv, NEW m \in Messages, NEW c \in Conversations,
         NEW b \in Contents, NEW raw \in SUBSET Clients,
         StoreNewMessage(m, c, b, raw) \/ MergeDuplicate(m, c, b, raw)
  PROVE  \/ \E R \in SUBSET Clients : Ledger!Address(m, R)
         \/ UNCHANGED <<Status, events>>
<1> DEFINE recipients == NormalizedRecipients(m, raw)
           added == {r \in recipients : ~HasRow(m, r)}
<1>1. recipients \in SUBSET Clients /\ Sender[m] \notin recipients
  BY DEF NormalizedRecipients
<1>2. \A k \in Messages, r \in Clients :
        deliveries'[k][r] = IF k = m /\ r \in recipients /\ ~HasRow(m, r)
                            THEN PendingDelivery ELSE deliveries[k][r]
  BY <1>1, StoreOpensRows, OpensRowsEffect
<1>3. \A k \in Messages, r \in Clients :
        deliveries'[k][r].state = IF k = m /\ r \in added
                                  THEN "pending" ELSE deliveries[k][r].state
  BY <1>2 DEF PendingDelivery
<1>4. CASE added = {}
  <2>1. Status' = Status
    BY <1>3, <1>4 DEF Status
  <2>2. ~StoreNewMessage(m, c, b, raw)
    <3> SUFFICES ASSUME StoreNewMessage(m, c, b, raw) PROVE FALSE
      OBVIOUS
    <3>1. m \notin Stored /\ recipients # {}
      BY DEF StoreNewMessage, Stored
    <3>2. \A r \in Clients : ~HasRow(m, r)
      BY <3>1, RowsByState DEF ShapeInv
    <3> QED
      BY <1>1, <1>4, <3>1, <3>2
  <2>3. events' = events
    BY <1>4, <2>2 DEF MergeDuplicate
  <2> QED
    BY <2>1, <2>3
<1>5. CASE added # {}
  <2>1. events' = Append(events, [type |-> "message.created", message |-> m,
                                  client |-> Sender[m]])
    BY <1>5 DEF StoreNewMessage, MergeDuplicate, CreatedEvent
  <2>2. \A r \in added : Status[m][r] = "none"
    BY <1>1, RowsByState DEF Status
  <2>3. Status' = [Status EXCEPT ![m] =
                     [r \in Clients |-> IF r \in added THEN "pending" ELSE @[r]]]
    BY <1>3 DEF Status
  <2>4. PICK R \in SUBSET Clients : R = added
    BY <1>1
  <2>5. Ledger!Address(m, R)
    BY <1>1, <1>5, <2>1, <2>2, <2>3, <2>4 DEF Ledger!Address, Ledger!Enter, Status
  <2> QED
    BY <2>5
<1> QED
  BY <1>4, <1>5

\* An acknowledgement is the ledger's Deliver or Read, or a stutter if repeated.
LEMMA MarkingIsDeliverOrRead ==
  ASSUME LogInv, ShapeInv, NEW m \in Messages, NEW r \in Clients, NEW s,
         MarkDelivered(m, r, s) \/ MarkRead(m, r, s)
  PROVE  Ledger!Deliver(m, r) \/ Ledger!Read(m, r) \/ UNCHANGED <<Status, events>>
<1> DEFINE row == deliveries[m][r]
<1>1. /\ Shaped(row) /\ row.state \in {"pending", "delivered", "read"}
      /\ row.deliveredAt \in BOOLEAN /\ row.readAt \in BOOLEAN
  BY MarkEffect DEF ShapeInv, LogInv, TypeOK, DeliveryRow
<1>2. \A new : deliveries'[m][r].state = new =>
        Status' = [Status EXCEPT ![m][r] = new]
  <2>1. \A k \in Messages, u \in Clients :
          <<k, u>> # <<m, r>> => deliveries'[k][u] = deliveries[k][u]
    BY MarkEffect
  <2>2. \A k \in Messages, u \in Clients :
          Status'[k][u] = IF k = m /\ u = r THEN deliveries'[m][r].state ELSE Status[k][u]
    BY <2>1 DEF Status
  <2>3. ASSUME NEW new, deliveries'[m][r].state = new
        PROVE  Status' = [Status EXCEPT ![m][r] = new]
    <3> DEFINE T == [Status EXCEPT ![m] = [Status[m] EXCEPT ![r] = new]]
    <3>1. /\ T = [k \in Messages |-> T[k]]
          /\ Status' = [k \in Messages |-> Status'[k]]
      BY DEF Status
    <3>2. \A k \in Messages : /\ T[k] = [u \in Clients |-> T[k][u]]
                              /\ Status'[k] = [u \in Clients |-> Status'[k][u]]
      BY DEF Status
    <3>3. \A k \in Messages, u \in Clients :
            T[k][u] = IF k = m /\ u = r THEN new ELSE Status[k][u]
      BY DEF Status
    <3> HIDE DEF T
    <3>4. \A k \in Messages, u \in Clients : Status'[k][u] = T[k][u]
      BY <2>2, <2>3, <3>3
    <3>5. \A k \in Messages : Status'[k] = T[k]
      BY <3>2, <3>4
    <3>6. Status' = T
      BY <3>1, <3>5
    <3> QED
      BY <3>6 DEF T
  <2> QED
    BY <2>3
<1>3. CASE MarkDelivered(m, r, s) /\ row.state = "pending"
  <2>1. events' = Append(events, DeliveredEvent(m, r))
    BY <1>1, <1>3 DEF MarkDelivered, Shaped
  <2>2. Status' = [Status EXCEPT ![m][r] = "delivered"]
    BY <1>2, <1>3, MarkEffect
  <2>3. Ledger!Deliver(m, r)
    BY <1>3, <2>1, <2>2 DEF Ledger!Deliver, Ledger!Enter, Status, DeliveredEvent
  <2> QED
    BY <2>3
<1>4. CASE MarkRead(m, r, s) /\ row.state # "read"
  <2>1. events' = Append(events, ReadEvent(m, r))
    BY <1>1, <1>4 DEF MarkRead, Shaped
  <2>2. Status' = [Status EXCEPT ![m][r] = "read"]
    BY <1>2, <1>4, MarkEffect
  <2>3. Ledger!Read(m, r)
    BY <1>1, <1>4, <2>1, <2>2 DEF Ledger!Read, Ledger!Enter, Status, ReadEvent
  <2> QED
    BY <2>3
<1>5. CASE \/ MarkDelivered(m, r, s) /\ row.state # "pending"
           \/ MarkRead(m, r, s) /\ row.state = "read"
  <2>1. events' = events
    BY <1>1, <1>5 DEF MarkDelivered, MarkRead, Shaped
  <2>2. deliveries'[m][r].state = row.state
    BY <1>1, <1>5, MarkEffect
  <2>3. Status' = Status
    BY <2>2, MarkEffect DEF Status
  <2> QED
    BY <2>1, <2>3
<1> QED
  BY <1>3, <1>4, <1>5

\* Every step of the store is a step of the ledger or a stutter.
LEMMA StepRefinesLedger ==
  ASSUME LogInv, ShapeInv, [Next]_dbVars
  PROVE  [Ledger!Next]_<<Status, events>> /\ ShapeInv'
<1>1. ASSUME NEW m \in Messages, NEW c \in Conversations, NEW b \in Contents,
             NEW raw \in SUBSET Clients, StoreMessage(m, c, b, raw)
      PROVE  [Ledger!Next]_<<Status, events>> /\ ShapeInv'
  <2>1. CASE StoreNewMessage(m, c, b, raw) \/ MergeDuplicate(m, c, b, raw)
    <3>1. ShapeInv'
      <4>1. NormalizedRecipients(m, raw) \in SUBSET Clients
        BY DEF NormalizedRecipients
      <4> QED
        BY <2>1, <4>1, StoreOpensRows, OpensRowsEffect
    <3> QED
      BY <2>1, <3>1, OpeningIsAddress DEF Ledger!Next
  <2>2. CASE IgnoreConflictingDuplicate(m, c, b, raw)
    BY <2>2 DEF IgnoreConflictingDuplicate, dbVars, Status, ShapeInv, Stored
  <2> QED
    BY <1>1, <2>1, <2>2 DEF StoreMessage
<1>2. ASSUME NEW m \in Messages, NEW r \in Clients, NEW s,
             MarkDelivered(m, r, s) \/ MarkRead(m, r, s)
      PROVE  [Ledger!Next]_<<Status, events>> /\ ShapeInv'
  <2>1. ShapeInv'
    BY <1>2, MarkEffect
  <2> QED
    BY <1>2, <2>1, MarkingIsDeliverOrRead DEF Ledger!Next
<1>3. ASSUME NEW u \in Clients, NEW t \in {"session.online", "session.offline"},
             AppendSessionStatusEvent(t, u)
      PROVE  [Ledger!Next]_<<Status, events>> /\ ShapeInv'
  <2>1. Ledger!ComeOrGo(t, u)
    BY <1>3 DEF AppendSessionStatusEvent, Ledger!ComeOrGo
  <2> QED
    BY <1>3, <2>1 DEF Ledger!Next, AppendSessionStatusEvent, ShapeInv, Stored
<1>4. CASE UNCHANGED dbVars
  BY <1>4 DEF dbVars, Status, ShapeInv, Stored
<1>5. CASE Next
  BY <1>1, <1>2, <1>3, <1>5 DEF Next, Stored
<1> QED
  BY <1>4, <1>5

\* The empty database is the empty ledger.
LEMMA InitRefinesLedger == Init => Ledger!Init
BY DEF Init, Ledger!Init, NoDelivery

\* The time stamps that markDelivered and markRead test agree with the state column in
\* every reachable state of the store, and a message that is not stored has no rows.
THEOREM ShapeInvHolds == Spec => [](LogInv /\ ShapeInv)
<1>1. LogInv /\ ShapeInv /\ [Next]_dbVars => ShapeInv'
  BY StepRefinesLedger
<1> QED
  BY <1>1, InitShapeInv, LogInvHolds, PTL DEF Spec

\* Whatever requests are retried, repeated or reordered, the states of the delivery
\* rows and the event log move as the delivery ledger does: each recipient forward,
\* each transition logged once.
THEOREM StoreImplementsLedger == Spec => ImplementsLedger
<1>1. LogInv /\ ShapeInv /\ [Next]_dbVars => [Ledger!Next]_<<Status, events>>
  BY StepRefinesLedger
<1>2. [Ledger!Next]_<<Status, events>> => [Ledger!Next]_Ledger!ledgerVars
  BY DEF Status, Ledger!ledgerVars
<1> QED
  BY <1>1, <1>2, InitRefinesLedger, ShapeInvHolds, PTL DEF Spec, ImplementsLedger, Ledger!Spec

-----------------------------------------------------------------------------
(* What a replay of the event log tells.  Both invariants follow from the    *)
(* ledger's steps alone.                                                     *)

Logged(log, e) == \E i \in DOMAIN log : log[i] = e

\* What is where in an appended log.
LEMMA AppendToLog ==
  ASSUME NEW S, NEW log \in Seq(S), NEW new \in S
  PROVE  LET longer == Append(log, new) IN
         /\ DOMAIN longer = 1..(Len(log) + 1)
         /\ \A i \in DOMAIN log : i <= Len(log) /\ longer[i] = log[i]
         /\ \A i \in DOMAIN longer : i \in DOMAIN log \/ i = Len(log) + 1
         /\ longer[Len(log) + 1] = new
         /\ \A e : Logged(longer, e) <=> Logged(log, e) \/ e = new
<1>1. /\ DOMAIN log = 1..Len(log) /\ Len(log) \in Nat
      /\ DOMAIN Append(log, new) = 1..(Len(log) + 1)
      /\ \A i \in DOMAIN log : Append(log, new)[i] = log[i]
      /\ Append(log, new)[Len(log) + 1] = new
  OBVIOUS
<1> QED
  BY <1>1 DEF Logged

\* EventsMatchRows and StateEventsAreOrdered, by the state column.
StatesLogged ==
  \A m \in Messages, r \in Clients :
    /\ Status[m][r] = "read" <=> Logged(events, ReadEvent(m, r))
    /\ Status[m][r] = "delivered" <=>
         Logged(events, DeliveredEvent(m, r)) /\ ~Logged(events, ReadEvent(m, r))

\* The form over Status says what EventsMatchRows says.
LEMMA StatesLoggedIsEventsMatchRows == StatesLogged <=> EventsMatchRows
BY DEF StatesLogged, EventsMatchRows, Logged, Status

\* A new event that repeats no state event and is no message.delivered after a
\* message.read keeps the log in order.
LEMMA OrderedAppend ==
  ASSUME TypeOK, StateEventsAreOrdered, NEW new \in MessageEvent \cup SessionEvent,
         events' = Append(events, new),
         new.type \in {"message.delivered", "message.read"} => ~Logged(events, new),
         new.type = "message.delivered" =>
           ~Logged(events, ReadEvent(new.message, new.client))
  PROVE  StateEventsAreOrdered'
<1> SUFFICES ASSUME NEW i \in DOMAIN events', NEW j \in DOMAIN events', i < j
             PROVE  /\ events'[i].type \in {"message.delivered", "message.read"} =>
                         events'[i] # events'[j]
                    /\ events'[i].type = "message.read"
                       /\ events'[j].type = "message.delivered" =>
                         <<events'[i].message, events'[i].client>>
                           # <<events'[j].message, events'[j].client>>
  BY DEF StateEventsAreOrdered
<1>1. events \in Seq(MessageEvent \cup SessionEvent) /\ Len(events) \in Nat
      /\ DOMAIN events = 1..Len(events)
  BY DEF TypeOK
<1>2. /\ i \in DOMAIN events /\ events'[i] = events[i]
      /\ \/ j \in DOMAIN events /\ events'[j] = events[j]
         \/ events'[j] = new
  BY <1>1, AppendToLog
<1>3. CASE j \in DOMAIN events /\ events'[j] = events[j]
  BY <1>2, <1>3 DEF StateEventsAreOrdered
<1>4. CASE events'[j] = new
  <2>1. events[i] \in MessageEvent \cup SessionEvent
    BY <1>1, <1>2
  <2>2. events[i].type = "message.read" =>
          events[i] = ReadEvent(events[i].message, events[i].client)
    BY <2>1 DEF MessageEvent, SessionEvent, ReadEvent
  <2>3. Logged(events, events[i])
    BY <1>2 DEF Logged
  <2> QED
    BY <1>2, <1>4, <2>2, <2>3
<1> QED
  BY <1>2, <1>3, <1>4

\* Status is a table of the states of the rows.
LEMMA StatusType ==
  ASSUME TypeOK
  PROVE  Status \in [Messages -> [Clients -> {"none", "pending", "delivered", "read"}]]
BY DEF TypeOK, DeliveryRow, Status

\* Different transitions are different events.
LEMMA EventsDiffer ==
  ASSUME NEW m \in Messages, NEW r \in Clients, NEW k \in Messages, NEW u \in Clients
  PROVE  /\ DeliveredEvent(m, r) # ReadEvent(k, u)
         /\ DeliveredEvent(m, r) = DeliveredEvent(k, u) => m = k /\ r = u
         /\ ReadEvent(m, r) = ReadEvent(k, u) => m = k /\ r = u
BY DEF DeliveredEvent, ReadEvent

\* Every step of the ledger keeps the log in agreement with the states, and in order.
LEMMA LedgerStepKeepsLog ==
  ASSUME TypeOK, StatesLogged, StateEventsAreOrdered, [Ledger!Next]_<<Status, events>>
  PROVE  StatesLogged' /\ StateEventsAreOrdered'
<1>0. events \in Seq(MessageEvent \cup SessionEvent)
  BY DEF TypeOK
<1>1. ASSUME NEW m \in Messages, NEW R \in SUBSET Clients, Ledger!Address(m, R)
      PROVE  StatesLogged' /\ StateEventsAreOrdered'
  <2> DEFINE new == [type |-> "message.created", message |-> m, client |-> Sender[m]]
  <2>1. /\ events' = Append(events, new)
        /\ new \in MessageEvent /\ new.type = "message.created"
    BY <1>1, SenderAssumption DEF Ledger!Address, Ledger!Enter, MessageEvent
  <2>2. \A k \in Messages, r \in Clients :
          \/ Status'[k][r] = Status[k][r]
          \/ Status[k][r] = "none" /\ Status'[k][r] = "pending"
    <3>1. /\ \A r \in R : Status[m][r] = "none"
          /\ Status' = [Status EXCEPT ![m] =
               [r \in Clients |-> IF r \in R THEN "pending" ELSE Status[m][r]]]
      BY <1>1 DEF Ledger!Address, Status
    <3> QED
      BY <3>1, StatusType
  <2> HIDE DEF new
  <2>3. \A e : Logged(events', e) <=> Logged(events, e) \/ e = new
    BY <1>0, <2>1, AppendToLog
  <2>4. \A k \in Messages, r \in Clients : new # DeliveredEvent(k, r) /\ new # ReadEvent(k, r)
    BY <2>1 DEF DeliveredEvent, ReadEvent
  <2>5. StatesLogged'
    BY <2>2, <2>3, <2>4 DEF StatesLogged
  <2> QED
    BY <2>1, <2>5, OrderedAppend
<1>2. ASSUME NEW m \in Messages, NEW r \in Clients, Ledger!Deliver(m, r)
      PROVE  StatesLogged' /\ StateEventsAreOrdered'
  <2> DEFINE new == DeliveredEvent(m, r)
  <2>1. events' = Append(events, new) /\ new \in MessageEvent
    BY <1>2, EventTypes DEF Ledger!Deliver, Ledger!Enter, DeliveredEvent
  <2>2. /\ Status[m][r] = "pending" /\ Status'[m][r] = "delivered"
        /\ \A k \in Messages, u \in Clients :
             <<k, u>> # <<m, r>> => Status'[k][u] = Status[k][u]
    <3>1. Status[m][r] = "pending" /\ Status' = [Status EXCEPT ![m][r] = "delivered"]
      BY <1>2 DEF Ledger!Deliver, Status
    <3> QED
      BY <3>1, StatusType
  <2>3. \A e : Logged(events', e) <=> Logged(events, e) \/ e = new
    BY <1>0, <2>1, AppendToLog
  <2>4. ~Logged(events, DeliveredEvent(m, r)) /\ ~Logged(events, ReadEvent(m, r))
    BY <2>2 DEF StatesLogged
  <2>5. StatesLogged'
    BY <2>2, <2>3, <2>4, EventsDiffer DEF StatesLogged
  <2>6. new.type = "message.delivered" /\ new.message = m /\ new.client = r
    BY DEF DeliveredEvent
  <2> HIDE DEF new
  <2>7. new.type \in {"message.delivered", "message.read"} => ~Logged(events, new)
    BY <2>4 DEF new
  <2> QED
    BY <2>1, <2>4, <2>5, <2>6, <2>7, OrderedAppend
<1>3. ASSUME NEW m \in Messages, NEW r \in Clients, Ledger!Read(m, r)
      PROVE  StatesLogged' /\ StateEventsAreOrdered'
  <2> DEFINE new == ReadEvent(m, r)
  <2>1. events' = Append(events, new) /\ new \in MessageEvent
    BY <1>3, EventTypes DEF Ledger!Read, Ledger!Enter, ReadEvent
  <2>2. /\ Status[m][r] \in {"pending", "delivered"} /\ Status'[m][r] = "read"
        /\ \A k \in Messages, u \in Clients :
             <<k, u>> # <<m, r>> => Status'[k][u] = Status[k][u]
    <3>1. Status[m][r] \in {"pending", "delivered"} /\ Status' = [Status EXCEPT ![m][r] = "read"]
      BY <1>3 DEF Ledger!Read, Status
    <3> QED
      BY <3>1, StatusType
  <2>3. \A e : Logged(events', e) <=> Logged(events, e) \/ e = new
    BY <1>0, <2>1, AppendToLog
  <2>4. ~Logged(events, ReadEvent(m, r))
    BY <2>2 DEF StatesLogged
  <2>5. StatesLogged'
    BY <2>2, <2>3, <2>4, EventsDiffer DEF StatesLogged
  <2>6. new.type = "message.read"
    BY DEF ReadEvent
  <2> HIDE DEF new
  <2>7. new.type \in {"message.delivered", "message.read"} => ~Logged(events, new)
    BY <2>4 DEF new
  <2> QED
    BY <2>1, <2>4, <2>5, <2>6, <2>7, OrderedAppend
<1>4. ASSUME NEW u \in Clients, NEW t \in {"session.online", "session.offline"},
             Ledger!ComeOrGo(t, u)
      PROVE  StatesLogged' /\ StateEventsAreOrdered'
  <2> DEFINE new == [type |-> t, client |-> u]
  <2>1. /\ events' = Append(events, new) /\ Status' = Status
        /\ new \in SessionEvent /\ new.type = t
    BY <1>4 DEF Ledger!ComeOrGo, Status, SessionEvent
  <2> HIDE DEF new
  <2>3. \A e : Logged(events', e) <=> Logged(events, e) \/ e = new
    BY <1>0, <2>1, AppendToLog
  <2>4. \A k \in Messages, r \in Clients : new # DeliveredEvent(k, r) /\ new # ReadEvent(k, r)
    BY <2>1 DEF DeliveredEvent, ReadEvent
  <2>5. StatesLogged'
    BY <2>1, <2>3, <2>4 DEF StatesLogged
  <2> QED
    BY <2>1, <2>5, OrderedAppend
<1>5. CASE UNCHANGED <<Status, events>>
  BY <1>5 DEF StatesLogged, StateEventsAreOrdered
<1> QED
  BY <1>1, <1>2, <1>3, <1>4, <1>5 DEF Ledger!Next

\* A client that replays the log learns the state of every delivery row, and no
\* state event is repeated or comes too late.
THEOREM LogTellsTheStates == Spec => []LogTellsStates
<1> DEFINE LogOK == StatesLogged /\ StateEventsAreOrdered
<1>1. Init => LogOK
  BY DEF Init, StatesLogged, StateEventsAreOrdered, Logged, Status, NoDelivery
<1>2. (LogInv /\ ShapeInv) /\ LogOK /\ [Next]_dbVars => LogOK'
  BY StepRefinesLedger, LedgerStepKeepsLog DEF LogInv
<1>3. LogOK => LogTellsStates
  BY StatesLoggedIsEventsMatchRows DEF LogTellsStates
<1> HIDE DEF LogOK
<1> QED
  BY <1>1, <1>2, <1>3, ShapeInvHolds, PTL DEF Spec

-----------------------------------------------------------------------------
(* Nothing is taken back.  That no cursor runs past its conversation is       *)
(* inductive together with the numbering, which says what the newest number   *)
(* is.                                                                        *)

CursorsInv ==
  \A c \in Conversations, u \in Clients : cursors[c][u].received <= LatestSeq(c)

\* The newest number of a conversation does not get smaller when the conversation grows.
LEMMA LatestSeqGrows ==
  ASSUME NEW c \in Conversations, Contiguous(c), Contiguous(c)', Seqs(c) \subseteq Seqs(c)'
  PROVE  LatestSeq(c) \in Nat /\ LatestSeq(c)' \in Nat /\ LatestSeq(c) <= LatestSeq(c)'
<1>1. ASSUME NEW S, NEW n \in Nat, S = 1..n
      PROVE  (IF S = {} THEN 0 ELSE Max(S)) = n
  <2>1. CASE n = 0
    BY <1>1, <2>1
  <2>2. CASE n # 0
    <3>1. n \in S /\ \A y \in S : n >= y
      BY <1>1, <2>2
    <3>2. \A x \in S : (\A y \in S : x >= y) => x = n
      BY <1>1, <3>1
    <3> QED
      BY <3>1, <3>2 DEF Max
  <2> QED
    BY <2>1, <2>2
<1>2. PICK n \in Nat : Seqs(c) = 1..n
  BY DEF Contiguous
<1>3. PICK k \in Nat : Seqs(c)' = 1..k
  BY DEF Contiguous
<1>4. LatestSeq(c) = n
  BY <1>2, <1>1 DEF LatestSeq
<1>5. LatestSeq(c)' = k
  BY <1>3, <1>1 DEF LatestSeq
<1>6. n <= k
  <2>1. CASE n = 0
    BY <2>1
  <2>2. CASE n # 0
    <3>1. n \in 1..k
      BY <1>2, <1>3, <2>2
    <3> QED
      BY <3>1
  <2> QED
    BY <2>1, <2>2
<1> QED
  BY <1>4, <1>5, <1>6

\* The newest number of a conversation is a number that its messages do not exceed.
LEMMA LatestSeqBounds ==
  ASSUME NEW c \in Conversations, Contiguous(c)
  PROVE  LatestSeq(c) \in Nat /\ \A m \in StoredIn(c) : messages[m].seq <= LatestSeq(c)
<1>1. PICK n \in Nat : Seqs(c) = 1..n
  BY DEF Contiguous
<1>2. LatestSeq(c) = n
  BY <1>1, LatestOfInterval
<1> QED
  BY <1>1, <1>2 DEF Seqs

\* What no step of the store may do, without the log.
TablesKept ==
  /\ \A m \in Stored : messages'[m] = messages[m]
  /\ \A m \in Messages, r \in Clients :
       StateRank[deliveries[m][r].state] <= StateRank[deliveries'[m][r].state]
  /\ \A c \in Conversations, u \in Clients :
       /\ IsConversationMember(c, u) => IsConversationMember(c, u)'
       /\ members[c][u] = "sender" => members'[c][u] = "sender"

CursorsKept ==
  \A c \in Conversations, u \in Clients :
    /\ cursors[c][u].received <= cursors'[c][u].received
    /\ cursors[c][u].read <= cursors'[c][u].read
    /\ cursors'[c][u].received <= LatestSeq(c)'

LogKept == SubSeq(events', 1, Len(events)) = events

\* Stored messages keep their rows when one is added.
LEMMA ConversationsGrow ==
  ASSUME LogInv, NEW c \in Conversations, \A m \in Stored : messages'[m] = messages[m]
  PROVE  Seqs(c) \subseteq Seqs(c)'
BY DEF Seqs, StoredIn, Stored, LogInv, TypeOK

\* Cursors that do not move stay behind their conversations.
LEMMA UnchangedCursorsKept ==
  ASSUME LogInv, LogInv', CursorsInv, UNCHANGED cursors, \A m \in Stored : messages'[m] = messages[m]
  PROVE  CursorsKept
<1>1. ASSUME NEW c \in Conversations, NEW u \in Clients
      PROVE  /\ cursors[c][u].received <= cursors'[c][u].received
             /\ cursors[c][u].read <= cursors'[c][u].read
             /\ cursors'[c][u].received <= LatestSeq(c)'
  <2>1. cursors[c][u].received \in Nat /\ cursors[c][u].read \in Nat
    BY DEF LogInv, TypeOK, Cursor
  <2>2. LatestSeq(c) \in Nat /\ LatestSeq(c)' \in Nat /\ LatestSeq(c) <= LatestSeq(c)'
    BY ConversationsGrow, LatestSeqGrows DEF LogInv
  <2>3. cursors[c][u].received <= LatestSeq(c)
    BY DEF CursorsInv
  <2> QED
    BY <2>1, <2>2, <2>3
<1> QED
  BY <1>1 DEF CursorsKept

\* Appending an event keeps what the log says already.
LEMMA AppendKeepsLog ==
  ASSUME NEW S, NEW log \in Seq(S), NEW e \in S
  PROVE  SubSeq(Append(log, e), 1, Len(log)) = log /\ SubSeq(log, 1, Len(log)) = log
OBVIOUS

\* The log only grows at its end.
LEMMA LogGrows ==
  ASSUME LogInv,
         UNCHANGED events \/ \E e \in MessageEvent \cup SessionEvent : events' = Append(events, e)
  PROVE  LogKept
<1>1. events \in Seq(MessageEvent \cup SessionEvent)
  BY DEF LogInv, TypeOK
<1>2. CASE UNCHANGED events
  BY <1>1, <1>2 DEF LogKept
<1>3. ASSUME NEW e \in MessageEvent \cup SessionEvent, events' = Append(events, e)
      PROVE  LogKept
  BY <1>1, <1>3, AppendKeepsLog DEF LogKept
<1> QED
  BY <1>2, <1>3

\* Enrolling clients takes no role from anybody but a member who becomes a sender.
LEMMA EnrollingKeepsRoles ==
  ASSUME NEW roles \in [Clients -> Roles], NEW clients \in SUBSET Clients,
         NEW role \in {"member", "sender"}, NEW u \in Clients
  PROVE  /\ roles[u] # "none" => WithRole(roles, clients, role)[u] # "none"
         /\ roles[u] = "sender" => WithRole(roles, clients, role)[u] = "sender"
         /\ u \in clients => WithRole(roles, clients, role)[u] # "none"
BY DEF WithRole, UpsertedRole

\* storeMessage and its retries only add.
LEMMA StoreKeeps ==
  ASSUME LogInv, LogInv', ShapeInv, CursorsInv, NEW m \in Messages, NEW c \in Conversations,
         NEW b \in Contents, NEW raw \in SUBSET Clients,
         StoreNewMessage(m, c, b, raw) \/ MergeDuplicate(m, c, b, raw)
  PROVE  /\ TablesKept /\ CursorsKept /\ LogKept
         /\ \A r \in NormalizedRecipients(m, raw) : IsConversationMember(c, r)'
<1> DEFINE recipients == NormalizedRecipients(m, raw)
           enrolled == WithRole(members[c], {Sender[m]}, "sender")
           roles == IF StoreNewMessage(m, c, b, raw) THEN enrolled ELSE members[c]
<1>1. recipients \in SUBSET Clients /\ {Sender[m]} \in SUBSET Clients
  BY SenderAssumption DEF NormalizedRecipients
<1>2. \A k \in Stored : messages'[k] = messages[k]
  BY DEF StoreNewMessage, MergeDuplicate, Stored, LogInv, TypeOK
<1>3. \A k \in Messages, r \in Clients :
        StateRank[deliveries[k][r].state] <= StateRank[deliveries'[k][r].state]
  <2>1. ASSUME NEW k \in Messages, NEW r \in Clients
        PROVE  StateRank[deliveries[k][r].state] <= StateRank[deliveries'[k][r].state]
    <3>1. deliveries'[k][r] = IF k = m /\ r \in recipients /\ ~HasRow(m, r)
                              THEN PendingDelivery ELSE deliveries[k][r]
      BY <1>1, StoreOpensRows, OpensRowsEffect
    <3>2. deliveries[k][r].state \in {"none", "pending", "delivered", "read"}
      BY DEF LogInv, TypeOK, DeliveryRow
    <3>3. ~HasRow(k, r) => deliveries[k][r].state = "none"
      BY RowsByState
    <3> QED
      BY <3>1, <3>2, <3>3 DEF StateRank, PendingDelivery
  <2> QED
    BY <2>1
<1>4. members[c] \in [Clients -> Roles] /\ enrolled \in [Clients -> Roles]
  BY <1>1, HelperTypes DEF LogInv, TypeOK
<1>5. members' = [members EXCEPT ![c] = WithRole(roles, recipients, "member")]
  BY DEF StoreNewMessage, MergeDuplicate
<1>6. ASSUME NEW u \in Clients
      PROVE  /\ members[c][u] # "none" => members'[c][u] # "none"
             /\ members[c][u] = "sender" => members'[c][u] = "sender"
             /\ u \in recipients => members'[c][u] # "none"
  <2>1. roles \in [Clients -> Roles]
    BY <1>4
  <2>2. /\ members[c][u] # "none" => roles[u] # "none"
        /\ members[c][u] = "sender" => roles[u] = "sender"
    BY <1>1, <1>4, EnrollingKeepsRoles
  <2>3. members'[c] = WithRole(roles, recipients, "member")
    BY <1>5 DEF LogInv, TypeOK
  <2> HIDE DEF roles, recipients
  <2> QED
    BY <1>1, <2>1, <2>2, <2>3, EnrollingKeepsRoles
<1>7. \A d \in Conversations : d # c => members'[d] = members[d]
  BY <1>5 DEF LogInv, TypeOK
<1>8. LogKept
  <2>1. events' = events \/ events' = Append(events, CreatedEvent(m))
    BY DEF StoreNewMessage, MergeDuplicate
  <2>2. CreatedEvent(m) \in MessageEvent
    BY SenderAssumption DEF CreatedEvent, MessageEvent
  <2> QED
    BY <2>1, <2>2, LogGrows
<1>9. CursorsKept
  BY <1>2, UnchangedCursorsKept DEF StoreNewMessage, MergeDuplicate
<1>10. TablesKept
  BY <1>2, <1>3, <1>6, <1>7 DEF TablesKept, IsConversationMember
<1>11. \A r \in recipients : IsConversationMember(c, r)'
  BY <1>1, <1>6 DEF IsConversationMember
<1> QED
  BY <1>8, <1>9, <1>10, <1>11

\* An acknowledgement moves its row and its cursor forward, to a number that the
\* conversation has reached.
LEMMA MarkKeeps ==
  ASSUME LogInv, LogInv', ShapeInv, CursorsInv, NEW m \in Messages, NEW r \in Clients, NEW s \in Nat,
         MarkDelivered(m, r, s) \/ MarkRead(m, r, s),
         s <= LatestSeq(messages[m].conversation)
  PROVE  TablesKept /\ CursorsKept /\ LogKept /\ UNCHANGED messages
<1> DEFINE c == messages[m].conversation
<1>1. UNCHANGED <<messages, members>>
  BY DEF MarkDelivered, MarkRead
<1>2. /\ m \in Stored
      /\ \A k \in Messages, u \in Clients :
           <<k, u>> # <<m, r>> => deliveries'[k][u] = deliveries[k][u]
      /\ \/ deliveries'[m][r].state = "read"
         \/ deliveries[m][r].state # "read" /\ deliveries'[m][r].state = "delivered"
  BY MarkEffect
<1>3. TablesKept
  <2>1. ASSUME NEW k \in Messages, NEW u \in Clients
        PROVE  StateRank[deliveries[k][u].state] <= StateRank[deliveries'[k][u].state]
    <3>1. deliveries[k][u].state \in {"none", "pending", "delivered", "read"}
      BY DEF LogInv, TypeOK, DeliveryRow
    <3> QED
      BY <1>2, <3>1 DEF StateRank
  <2> QED
    BY <1>1, <2>1 DEF TablesKept, IsConversationMember
<1>4. c \in Conversations /\ LatestSeq(c) \in Nat
  BY <1>2, StoredRows, LatestSeqBounds DEF LogInv, MessageRow
<1>5. CursorsKept
  <2>1. ASSUME NEW d \in Conversations, NEW u \in Clients
        PROVE  /\ cursors[d][u].received <= cursors'[d][u].received
               /\ cursors[d][u].read <= cursors'[d][u].read
               /\ cursors'[d][u].received <= LatestSeq(d)'
    <3>1. LatestSeq(d)' = LatestSeq(d) /\ LatestSeq(d) \in Nat
      BY <1>1, LatestSeqBounds DEF LogInv, LatestSeq, Seqs, StoredIn, Stored
    <3>2. /\ cursors[d][u].received \in Nat /\ cursors[d][u].read \in Nat
          /\ cursors[d][u].received <= LatestSeq(d)
      BY DEF LogInv, TypeOK, Cursor, CursorsInv
    <3>3. CASE d = c /\ u = r
      <4>1. \/ cursors'[d][u] = UpsertedCursor(cursors[d][u], s, 0)
            \/ cursors'[d][u] = UpsertedCursor(cursors[d][u], s, s)
        BY <1>4, <3>3 DEF MarkDelivered, MarkRead, LogInv, TypeOK
      <4> QED
        BY <3>1, <3>2, <3>3, <4>1 DEF UpsertedCursor
    <3>4. CASE ~(d = c /\ u = r)
      <4>1. cursors'[d][u] = cursors[d][u]
        BY <3>4 DEF MarkDelivered, MarkRead, LogInv, TypeOK
      <4> QED
        BY <3>1, <3>2, <4>1
    <3> QED
      BY <3>3, <3>4
  <2> QED
    BY <2>1 DEF CursorsKept
<1>6. LogKept
  <2>1. events' = events \/ \E e \in MessageEvent : events' = Append(events, e)
    BY EventTypes DEF MarkDelivered, MarkRead
  <2> QED
    BY <2>1, LogGrows
<1> QED
  BY <1>1, <1>3, <1>5, <1>6

\* A step that leaves the tables alone and may log a session event keeps everything.
LEMMA SessionStatusKeeps ==
  ASSUME LogInv, LogInv', CursorsInv, UNCHANGED <<messages, deliveries, members, cursors>>,
         \/ UNCHANGED events
         \/ \E t \in {"session.online", "session.offline"}, u \in Clients :
              events' = Append(events, [type |-> t, client |-> u])
  PROVE  TablesKept /\ CursorsKept /\ LogKept
<1>1. CursorsKept
  BY UnchangedCursorsKept
<1>2. LogKept
  <2>1. ASSUME NEW t \in {"session.online", "session.offline"}, NEW u \in Clients
        PROVE  [type |-> t, client |-> u] \in SessionEvent
    BY DEF SessionEvent
  <2> QED
    BY <2>1, LogGrows
<1>3. TablesKept
  <2>1. \A m \in Messages, r \in Clients :
          deliveries[m][r].state \in {"none", "pending", "delivered", "read"}
    BY DEF LogInv, TypeOK, DeliveryRow
  <2> QED
    BY <2>1 DEF TablesKept, IsConversationMember, StateRank
<1> QED
  BY <1>1, <1>2, <1>3

\* What each step of the store does to the tables: it keeps them, and if it opens a row it
\* announces it to a member.
Announces ==
  \A m \in Messages, r \in Clients :
    ~HasRow(m, r) /\ HasRow(m, r)' =>
      /\ events' = Append(events, CreatedEvent(m))
      /\ IsConversationMember(messages[m].conversation, r)'

\* storeMessage and its retries announce the rows they open.
LEMMA StoreAnnounces ==
  ASSUME LogInv, LogInv', ShapeInv, CursorsInv, NEW m \in Messages, NEW c \in Conversations,
         NEW b \in Contents, NEW raw \in SUBSET Clients,
         StoreNewMessage(m, c, b, raw) \/ MergeDuplicate(m, c, b, raw)
  PROVE  Announces
<1> DEFINE recipients == NormalizedRecipients(m, raw)
<1>1. recipients \in SUBSET Clients
  BY DEF NormalizedRecipients
<1>2. \A r \in recipients : IsConversationMember(c, r)'
  BY StoreKeeps
<1>3. messages'[m].conversation = c
  BY DEF StoreNewMessage, MergeDuplicate, LogInv, TypeOK
<1>4. ASSUME NEW k \in Messages, NEW r \in Clients, ~HasRow(k, r), HasRow(k, r)'
      PROVE  k = m /\ r \in recipients /\ ~HasRow(m, r)
  <2>1. deliveries'[k][r] = IF k = m /\ r \in recipients /\ ~HasRow(m, r)
                            THEN PendingDelivery ELSE deliveries[k][r]
    BY <1>1, StoreOpensRows, OpensRowsEffect
  <2> QED
    BY <1>4, <2>1 DEF HasRow
<1>5. ASSUME NEW r \in recipients, ~HasRow(m, r)
      PROVE  events' = Append(events, CreatedEvent(m))
  BY <1>5 DEF StoreNewMessage, MergeDuplicate
<1>6. ASSUME NEW k \in Messages, NEW r \in Clients, ~HasRow(k, r), HasRow(k, r)'
      PROVE  /\ events' = Append(events, CreatedEvent(k))
             /\ IsConversationMember(messages[k].conversation, r)'
  <2>1. k = m /\ r \in recipients /\ ~HasRow(m, r)
    BY <1>4, <1>6
  <2>2. IsConversationMember(c, r)'
    BY <1>2, <2>1
  <2> QED
    BY <1>3, <1>5, <2>1, <2>2 DEF IsConversationMember
<1> QED
  BY <1>6 DEF Announces

\* An acknowledgement opens no row.
LEMMA MarkOpensNothing ==
  ASSUME LogInv, ShapeInv, NEW m \in Messages, NEW r \in Clients, NEW s,
         MarkDelivered(m, r, s) \/ MarkRead(m, r, s)
  PROVE  Announces
<1>1. HasRow(m, r)
  BY DEF MarkDelivered, MarkRead, CanMark
<1>2. \A k \in Messages, u \in Clients :
        <<k, u>> # <<m, r>> => deliveries'[k][u] = deliveries[k][u]
  BY MarkEffect
<1> QED
  BY <1>1, <1>2 DEF Announces, HasRow

LEMMA StepKeeps ==
  ASSUME LogInv, LogInv', ShapeInv, CursorsInv, [Next]_dbVars
  PROVE  TablesKept /\ CursorsKept /\ LogKept /\ Announces
<1>1. ASSUME NEW m \in Messages, NEW c \in Conversations, NEW b \in Contents,
             NEW raw \in SUBSET Clients, StoreMessage(m, c, b, raw)
      PROVE  TablesKept /\ CursorsKept /\ LogKept /\ Announces
  <2>1. CASE StoreNewMessage(m, c, b, raw) \/ MergeDuplicate(m, c, b, raw)
    BY <2>1, StoreKeeps, StoreAnnounces
  <2>2. CASE IgnoreConflictingDuplicate(m, c, b, raw)
    BY <2>2, SessionStatusKeeps DEF IgnoreConflictingDuplicate, dbVars, Announces, HasRow
  <2> QED
    BY <1>1, <2>1, <2>2 DEF StoreMessage
<1>2. ASSUME NEW m \in Messages, NEW r \in Clients, MarkDelivered(m, r, messages[m].seq)
      PROVE  TablesKept /\ CursorsKept /\ LogKept /\ Announces
  <2>1. m \in Stored
    BY <1>2 DEF MarkDelivered, CanMark, Stored
  <2>2. messages[m].seq \in Nat /\ messages[m].conversation \in Conversations
    BY <2>1, StoredRows DEF LogInv, MessageRow
  <2>3. messages[m].seq <= LatestSeq(messages[m].conversation)
    BY <2>1, <2>2, LatestSeqBounds DEF LogInv, StoredIn
  <2> QED
    BY <1>2, <2>2, <2>3, MarkKeeps, MarkOpensNothing
<1>3. ASSUME NEW m \in Stored, NEW r \in Clients,
             NEW s \in 0..LatestSeq(messages[m].conversation), MarkRead(m, r, s)
      PROVE  TablesKept /\ CursorsKept /\ LogKept /\ Announces
  <2>1. m \in Messages /\ messages[m].conversation \in Conversations
    BY StoredRows DEF LogInv, MessageRow, Stored
  <2>2. LatestSeq(messages[m].conversation) \in Nat
    BY <2>1, LatestSeqBounds DEF LogInv
  <2> QED
    BY <1>3, <2>1, <2>2, MarkKeeps, MarkOpensNothing
<1>4. ASSUME NEW u \in Clients, NEW t \in {"session.online", "session.offline"},
             AppendSessionStatusEvent(t, u)
      PROVE  TablesKept /\ CursorsKept /\ LogKept /\ Announces
  BY <1>4, SessionStatusKeeps DEF AppendSessionStatusEvent, Announces, HasRow
<1>5. CASE UNCHANGED dbVars
  BY <1>5, SessionStatusKeeps DEF dbVars, Announces, HasRow
<1> QED
  BY <1>1, <1>2, <1>3, <1>4, <1>5 DEF Next

\* The cursors of the clients stay behind the newest message of the conversation.
LEMMA CursorsInvHolds == Spec => []CursorsInv
<1>1. Init => CursorsInv
  <2> SUFFICES ASSUME Init, NEW c \in Conversations, NEW u \in Clients
               PROVE  cursors[c][u].received <= LatestSeq(c)
    BY DEF CursorsInv
  <2>1. cursors[c][u].received = 0
    BY DEF Init
  <2>2. Seqs(c) = {}
    BY DEF Init, Seqs, StoredIn, Stored
  <2> QED
    BY <2>1, <2>2 DEF LatestSeq
<1>2. LogInv /\ LogInv' /\ ShapeInv /\ CursorsInv /\ [Next]_dbVars => CursorsInv'
  BY StepKeeps DEF CursorsKept, CursorsInv
<1> QED
  BY <1>1, <1>2, ShapeInvHolds, PTL DEF Spec

\* Retries, late acknowledgements and other recipients take back nothing: neither a message's
\* number, nor a row's state, a role, a cursor or an event, and no cursor runs ahead.
THEOREM NothingIsEverTakenBack == Spec => NothingIsTakenBack
<1>1. LogInv /\ LogInv' /\ ShapeInv /\ CursorsInv /\ [Next]_dbVars =>
        [/\ \A m \in Stored : messages'[m] = messages[m]
         /\ \A m \in Messages, r \in Clients :
              StateRank[deliveries[m][r].state] <= StateRank[deliveries'[m][r].state]
         /\ \A c \in Conversations, u \in Clients :
              /\ IsConversationMember(c, u) => IsConversationMember(c, u)'
              /\ members[c][u] = "sender" => members'[c][u] = "sender"
              /\ cursors[c][u].received <= cursors'[c][u].received
              /\ cursors[c][u].read <= cursors'[c][u].read
              /\ cursors'[c][u].received <= LatestSeq(c)'
         /\ SubSeq(events', 1, Len(events)) = events]_dbVars
  BY StepKeeps DEF TablesKept, CursorsKept, LogKept
<1> QED
  BY <1>1, ShapeInvHolds, CursorsInvHolds, PTL DEF Spec, NothingIsTakenBack

\* Every delivery row that a request opens is announced in the log, to a client that is then
\* a member and will find the event.
THEOREM RowsAreAlwaysAnnounced == Spec => NewRowsAreAnnounced
<1>1. LogInv /\ LogInv' /\ ShapeInv /\ CursorsInv /\ [Next]_dbVars =>
        [\A m \in Messages, r \in Clients :
           ~HasRow(m, r) /\ HasRow(m, r)' =>
             /\ events' = Append(events, CreatedEvent(m))
             /\ VisibleTo(CreatedEvent(m), r)']_dbVars
  BY StepKeeps DEF Announces, VisibleTo, CreatedEvent
<1> QED
  BY <1>1, ShapeInvHolds, CursorsInvHolds, PTL DEF Spec, NewRowsAreAnnounced
-----------------------------------------------------------------------------
(* The queries, of which clients make their cursors.                       *)

\* A set of numbers with an upper bound has a greatest element.
LEMMA GreatestExists ==
  ASSUME NEW n \in Nat, NEW S \in SUBSET (0..n), S # {}
  PROVE  \E x \in S : \A y \in S : x >= y
<1> DEFINE T == {n - x : x \in S}
           less == OpToRel(<, Nat)
<1>1. T \subseteq Nat /\ T # {}
  <2>1. PICK x \in S : TRUE
    OBVIOUS
  <2>2. n - x \in T
    BY <2>1
  <2>3. \A y \in S : n - y \in Nat
    OBVIOUS
  <2> QED
    BY <2>2, <2>3
<1>2. \E t \in T : \A u \in T : ~ (<<u, t>> \in less)
  <2>1. IsWellFoundedOn(less, Nat)
    BY NatLessThanWellFounded
  <2> HIDE DEF T, less
  <2> QED
    BY <1>1, <2>1, WFMin
<1>3. \A u, t \in T : u < t => <<u, t>> \in less
  BY <1>1 DEF OpToRel
<1>4. PICK t \in T : \A u \in T : ~ (u < t)
  BY <1>2, <1>3
<1>5. PICK x \in S : t = n - x
  OBVIOUS
<1>6. ASSUME NEW y \in S PROVE x >= y
  <2>1. n - y \in T
    OBVIOUS
  <2>2. ~ (n - y < n - x)
    BY <1>4, <1>5, <2>1
  <2> QED
    BY <2>2
<1> QED
  BY <1>5, <1>6

\* The page of listMessagesAfterSeq holds the messages from the first number after the
\* cursor up to some number, none left out.
LEMMA PageIsNext ==
  ASSUME LogInv, NEW c \in Conversations, NEW after \in Nat, after <= LatestSeq(c),
         NEW limit \in Nat
  PROVE  LET page == ListMessagesAfterSeq(c, after, limit) IN
         /\ LatestSeq(c) \in Nat
         /\ \E next \in after..LatestSeq(c) :
              /\ page = {m \in StoredIn(c) : messages[m].seq \in (after + 1)..next}
              /\ {messages[m].seq : m \in page} = (after + 1)..next
<1> DEFINE n == LatestSeq(c)
           page == ListMessagesAfterSeq(c, after, limit)
           next == IF n <= after + limit THEN n ELSE after + limit
           S == {s \in Seqs(c) : s > after}
<1>1. n \in Nat /\ Seqs(c) = 1..n
  <2>1. PICK k \in Nat : Seqs(c) = 1..k
    BY DEF LogInv, Contiguous
  <2>2. n = k
    BY <2>1, LatestOfInterval
  <2> QED
    BY <2>1, <2>2
<1>2. next \in after..n /\ S = (after + 1)..n
  BY <1>1
<1>3. ASSUME NEW i \in S PROVE Cardinality({j \in S : j <= i}) = i - after
  <2>1. {j \in S : j <= i} = (after + 1)..i /\ after + 1 \in Int /\ i \in Int /\ after + 1 <= i
    BY <1>1, <1>2
  <2>2. Cardinality((after + 1)..i) = IF after + 1 > i THEN 0 ELSE i - (after + 1) + 1
    BY <2>1, FS_Interval
  <2>3. Cardinality((after + 1)..i) = i - after
    BY <2>1, <2>2
  <2> HIDE DEF S, n
  <2> QED
    BY <2>1, <2>3
<1>4. Limited(S, limit) = (after + 1)..next
  <2>1. Limited(S, limit) = {i \in S : i - after <= limit}
    BY <1>3 DEF Limited
  <2>2. \A i \in (after + 1)..n : i - after <= limit <=> i \in (after + 1)..next
    BY <1>1
  <2>3. (after + 1)..next \subseteq (after + 1)..n
    BY <1>1, <1>2
  <2> HIDE DEF S, n, next
  <2> QED
    BY <1>2, <2>1, <2>2, <2>3
<1>5. page = {m \in StoredIn(c) : messages[m].seq \in (after + 1)..next}
  BY <1>4 DEF ListMessagesAfterSeq
<1>6. {messages[m].seq : m \in page} = (after + 1)..next
  <2>1. Seqs(c) = {messages[m].seq : m \in StoredIn(c)}
    BY DEF Seqs
  <2>2. (after + 1)..next \subseteq Seqs(c)
    BY <1>1, <1>2
  <2> HIDE DEF next
  <2> QED
    BY <1>5, <2>1, <2>2
<1> QED
  BY <1>1, <1>2, <1>5, <1>6
=============================================================================
