---------------------- MODULE DirectMessageSenderProofs ----------------------
(***************************************************************************)
(* Proofs about the sender of direct messages, for every set of messages,  *)
(* every transport mode and every bound.                                   *)
(*                                                                         *)
(* A handler that waits for the service writes a state later, over         *)
(* whatever receipts and events have written since.  Each of them carries  *)
(* a claim about the peer or the service, and the invariant says that the  *)
(* claim is true wherever it is on its way: in the reply on the stack, in  *)
(* the receipt on the socket, in the event of the service's log.           *)
(***************************************************************************)
EXTENDS DirectMessageSender, TLAPS, FiniteSetTheorems, SequenceTheorems

\* The service's store with what is proved about it.
Store == INSTANCE MessageServiceDatabaseProofs WITH
  Clients <- {Self, Peer}, Conversations <- {Conversation},
  Sender <- [m \in Messages |-> Self], Contents <- {"text"},
  MaxEvents <- 0, MaxSessionEvents <- 0

-----------------------------------------------------------------------------
(* The inductive invariant.                                                *)

\* The service reports what the peer's device reported.
EventsAreTrue ==
  \A i \in DOMAIN events :
    /\ events[i].type = "message.delivered" => peerInbox[events[i].message] # "absent"
    /\ events[i].type = "message.read" => peerInbox[events[i].message] = "read"

ServerInv == Store!LogInv /\ Store!ShapeInv

\* The tables of Self.  The cursor of the conversation is not ahead of the service's
\* numbers, or the sync would pass the next message and leave it without a mapping.
TablesInv ==
  /\ outbox \in [Messages -> {"absent", "pending", "serverAcked", "received", "read"}]
  /\ mapped \subseteq Messages
  /\ chatCursor \in Nat /\ chatCursor <= Store!LatestSeq(Conversation)
  /\ eventCursor \in Nat
  /\ ClaimsAreTrue
  /\ EventsFindTheirMessage

\* A reply is one to a post that the service has handled.
Frames ==
  {f \in Frame :
     /\ f.step \in {"post", "reply"} => f.message \in Messages
     /\ f.step = "reply" => DB!HasRow(f.message, Peer)}

\* The receipts of what the peer's device has, and of what its user has read.
Receipts ==
  {r \in [type : {"received", "read"}, message : Messages] :
     /\ peerInbox[r.message] # "absent"
     /\ r.type = "read" => peerInbox[r.message] = "read"}

PeerInv ==
  /\ peerInbox \in [Messages -> {"absent", "received", "read"}]
  /\ EventsAreTrue
  /\ fromPeer \in Seq(Receipts)

MemoryInv ==
  /\ deferred \subseteq Messages
  /\ connected \in BOOLEAN
  /\ toPeer \in Seq(Messages)
  /\ stray \subseteq Messages
  /\ budget \in [faults : Nat, connections : Nat]

Inv == ServerInv /\ TablesInv /\ PeerInv /\ frames \in Seq(Frames) /\ MemoryInv

-----------------------------------------------------------------------------
(* The store.                                                              *)

LEMMA SelfSends == [m \in Messages |-> Self] \in [Messages -> {Self, Peer}]
OBVIOUS

LEMMA SameTables ==
  /\ DB!Init => Store!Init
  /\ DB!TypeOK <=> Store!TypeOK
  /\ DB!Stored = Store!Stored /\ DB!NoMessage = Store!NoMessage
  /\ \A m, r : DB!HasRow(m, r) <=> Store!HasRow(m, r)
  /\ \A m, r : DB!CanMark(m, r) <=> Store!CanMark(m, r)
<1>1. DB!Init => Store!Init
  BY DEF DB!Init, Store!Init, DB!NoMessage, Store!NoMessage, DB!NoDelivery, Store!NoDelivery
<1>2. DB!TypeOK <=> Store!TypeOK
  BY DEF DB!TypeOK, Store!TypeOK, DB!MessageRow, Store!MessageRow, DB!NoMessage, Store!NoMessage,
     DB!DeliveryRow, Store!DeliveryRow, DB!Roles, Store!Roles, DB!Cursor, Store!Cursor,
     DB!MessageEvent, Store!MessageEvent, DB!SessionEvent, Store!SessionEvent
<1>3. DB!Stored = Store!Stored /\ DB!NoMessage = Store!NoMessage
  BY DEF DB!Stored, Store!Stored, DB!NoMessage, Store!NoMessage
<1>4. \A m, r : DB!HasRow(m, r) <=> Store!HasRow(m, r)
  BY DEF DB!HasRow, Store!HasRow, DB!NoDelivery, Store!NoDelivery
<1>5. \A m, r : DB!CanMark(m, r) <=> Store!CanMark(m, r)
  BY <1>3, <1>4 DEF DB!CanMark, Store!CanMark
<1> QED
  BY <1>1, <1>2, <1>3, <1>4, <1>5

LEMMA SameQueries ==
  /\ \A c : DB!LatestSeq(c) = Store!LatestSeq(c)
  /\ \A c, after, limit :
       DB!ListMessagesAfterSeq(c, after, limit) = Store!ListMessagesAfterSeq(c, after, limit)
<1>1. \A S : DB!Max(S) = Store!Max(S)
  BY DEF DB!Max, Store!Max
<1>2. ASSUME NEW c PROVE DB!StoredIn(c) = Store!StoredIn(c) /\ DB!Seqs(c) = Store!Seqs(c)
  BY SameTables DEF DB!StoredIn, Store!StoredIn, DB!Seqs, Store!Seqs
<1>3. ASSUME NEW c PROVE DB!LatestSeq(c) = Store!LatestSeq(c)
  BY <1>1, <1>2 DEF DB!LatestSeq, Store!LatestSeq
<1>4. \A S : DB!Cardinality(S) = Store!Cardinality(S)
  BY DEF DB!Cardinality, Store!Cardinality
<1>5. \A S, limit : DB!Limited(S, limit) = Store!Limited(S, limit)
  BY <1>4 DEF DB!Limited, Store!Limited
<1>6. ASSUME NEW c, NEW after, NEW limit
      PROVE  DB!ListMessagesAfterSeq(c, after, limit) = Store!ListMessagesAfterSeq(c, after, limit)
  BY <1>2, <1>5 DEF DB!ListMessagesAfterSeq, Store!ListMessagesAfterSeq
<1> QED
  BY <1>3, <1>6

LEMMA SameTransactions ==
  /\ \A m \in Messages : Post(m) => Store!StoreMessage(m, Conversation, "text", {Peer})
  /\ \A m, r, s : DB!MarkDelivered(m, r, s) => Store!MarkDelivered(m, r, s)
  /\ \A m, r, s : DB!MarkRead(m, r, s) => Store!MarkRead(m, r, s)
<1>1. ASSUME NEW m \in Messages, Post(m)
      PROVE  Store!StoreMessage(m, Conversation, "text", {Peer})
  <2>0. \A x : DB!NextConversationSeq(x) = Store!NextConversationSeq(x)
    BY SameQueries DEF DB!NextConversationSeq, Store!NextConversationSeq
  <2>1. CASE DB!StoreNewMessage(m, Conversation, "text", {Peer})
    BY <2>0, <2>1 DEF DB!StoreNewMessage, Store!StoreMessage, Store!StoreNewMessage,
       DB!NoMessage, Store!NoMessage, DB!NormalizedRecipients, Store!NormalizedRecipients,
       DB!WithPendingRows, Store!WithPendingRows, DB!NoDelivery, Store!NoDelivery,
       DB!PendingDelivery, Store!PendingDelivery, DB!WithRole, Store!WithRole,
       DB!UpsertedRole, Store!UpsertedRole, DB!CreatedEvent, Store!CreatedEvent
  <2>2. CASE DB!MergeDuplicate(m, Conversation, "text", {Peer})
    BY <2>2 DEF DB!MergeDuplicate, Store!StoreMessage, Store!MergeDuplicate,
       DB!NoMessage, Store!NoMessage, DB!NormalizedRecipients, Store!NormalizedRecipients,
       DB!WithPendingRows, Store!WithPendingRows, DB!NoDelivery, Store!NoDelivery,
       DB!PendingDelivery, Store!PendingDelivery, DB!WithRole, Store!WithRole,
       DB!UpsertedRole, Store!UpsertedRole, DB!CreatedEvent, Store!CreatedEvent,
       DB!HasRow, Store!HasRow
  <2>3. CASE DB!IgnoreConflictingDuplicate(m, Conversation, "text", {Peer})
    BY <2>3 DEF DB!IgnoreConflictingDuplicate, Store!StoreMessage, Store!IgnoreConflictingDuplicate,
       DB!NoMessage, Store!NoMessage, DB!NormalizedRecipients, Store!NormalizedRecipients,
       DB!dbVars, Store!dbVars
  <2> QED
    BY <1>1, <2>1, <2>2, <2>3 DEF Post, DB!StoreMessage
<1>2. \A m, r, s : DB!MarkDelivered(m, r, s) => Store!MarkDelivered(m, r, s)
  BY SameTables DEF DB!MarkDelivered, Store!MarkDelivered, DB!UpsertedCursor, Store!UpsertedCursor,
     DB!DeliveredEvent, Store!DeliveredEvent
<1>3. \A m, r, s : DB!MarkRead(m, r, s) => Store!MarkRead(m, r, s)
  BY SameTables DEF DB!MarkRead, Store!MarkRead, DB!UpsertedCursor, Store!UpsertedCursor,
     DB!ReadEvent, Store!ReadEvent
<1> QED
  BY <1>1, <1>2, <1>3

-----------------------------------------------------------------------------
(* What no step takes away.                                                *)

\* The service keeps rows and messages and numbers new messages beyond the old ones.
Extended ==
  /\ ServerInv'
  /\ \A m \in Messages : DB!HasRow(m, Peer) => DB!HasRow(m, Peer)'
  /\ \A m \in Store!Stored : messages'[m] = messages[m]
  /\ \A m \in Store!Stored' \ Store!Stored : messages'[m].seq > Store!LatestSeq(Conversation)

\* What the peer has received or read it has received or read for good.
PeerKept ==
  /\ peerInbox' \in [Messages -> {"absent", "received", "read"}]
  /\ \A m \in Messages : /\ peerInbox[m] # "absent" => peerInbox'[m] # "absent"
                         /\ peerInbox[m] = "read" => peerInbox'[m] = "read"

LEMMA ServerKept ==
  ASSUME ServerInv, UNCHANGED server
  PROVE  /\ Extended /\ UNCHANGED <<messages, deliveries, members, cursors, events>>
         /\ Store!Stored' = Store!Stored
         /\ Store!LatestSeq(Conversation)' = Store!LatestSeq(Conversation)
<1>1. UNCHANGED <<messages, deliveries, members, cursors, events>>
  BY DEF server
<1>2. /\ Store!Stored' = Store!Stored
      /\ Store!LatestSeq(Conversation)' = Store!LatestSeq(Conversation)
  BY <1>1 DEF Store!Stored, Store!LatestSeq, Store!Seqs, Store!StoredIn
<1>3. Store!LogInv'
  BY <1>1, SelfSends, Store!NextLogInv DEF ServerInv, Store!dbVars
<1>4. Store!ShapeInv'
  BY <1>1, <1>2 DEF ServerInv, Store!ShapeInv
<1> QED
  BY <1>1, <1>2, <1>3, <1>4 DEF ServerInv, Extended, DB!HasRow

\* The new numbers do not take the old ones' places.
LEMMA NumbersGrow ==
  ASSUME ServerInv, Extended
  PROVE  /\ Store!LatestSeq(Conversation) \in Nat /\ Store!LatestSeq(Conversation)' \in Nat
         /\ Store!LatestSeq(Conversation) <= Store!LatestSeq(Conversation)'
<1> DEFINE c == Conversation
<1>1. c \in {Conversation}
  OBVIOUS
<1>2. /\ Store!Contiguous(c) /\ Store!Contiguous(c)' /\ Store!Seqs(c) \subseteq Store!Seqs(c)'
  BY <1>1, SelfSends, Store!ConversationsGrow DEF ServerInv, Extended, Store!LogInv
<1> QED
  BY SelfSends, <1>1, <1>2, Store!LatestSeqGrows

\* What an event may say is what is true of the peer.
TrueEvent(e) ==
  /\ e.type = "message.delivered" => peerInbox[e.message] # "absent"
  /\ e.type = "message.read" => peerInbox[e.message] = "read"

LEMMA EventsKept ==
  ASSUME ServerInv, PeerInv, PeerKept, NEW e, events' = events \/ events' = Append(events, e),
         TrueEvent(e)'
  PROVE  EventsAreTrue'
<1> DEFINE S == Store!MessageEvent \cup Store!SessionEvent
<1>1. events \in Seq(S)
  BY DEF ServerInv, Store!LogInv, Store!TypeOK
<1>2. ASSUME NEW i \in DOMAIN events PROVE TrueEvent(events[i])'
      /\ events'[i] = events[i]
  <2>1. events[i] \in S
    BY <1>1, <1>2, ElementOfSeq
  <2>2. \/ events[i] \in Store!MessageEvent /\ events[i].message \in Messages
        \/ events[i].type \in {"session.online", "session.offline"}
    BY <2>1 DEF Store!MessageEvent, Store!SessionEvent
  <2>3. TrueEvent(events[i])
    BY <1>2 DEF PeerInv, EventsAreTrue, TrueEvent
  <2>4. events'[i] = events[i]
    BY <1>1, <1>2
  <2> QED
    BY <2>2, <2>3, <2>4 DEF TrueEvent, PeerKept
<1>3. ASSUME NEW i \in DOMAIN events' PROVE TrueEvent(events[i])'
  <2>1. CASE i \in DOMAIN events
    BY <1>2, <2>1 DEF TrueEvent
  <2>2. CASE i \notin DOMAIN events
    <3>1. events'[i] = e
      BY <1>1, <1>3, <2>2
    <3> QED
      BY <3>1 DEF TrueEvent
  <2> QED
    BY <2>1, <2>2
<1> QED
  BY <1>3 DEF EventsAreTrue, TrueEvent

\* The service handles a post, whoever waits for it: there is a row for the peer then.
LEMMA PostEffect ==
  ASSUME ServerInv, NEW m \in Messages, Post(m)
  PROVE  /\ Extended /\ DB!HasRow(m, Peer)'
         /\ events' = events \/ events' = Append(events, DB!CreatedEvent(m))
<1> DEFINE raw == {Peer}
           recipients == Store!NormalizedRecipients(m, raw)
<1>1. /\ Store!StoreMessage(m, Conversation, "text", raw) /\ raw \in SUBSET {Self, Peer}
      /\ recipients = {Peer} /\ recipients \in SUBSET {Self, Peer}
      /\ Store!LogInv /\ Store!ShapeInv
      /\ Conversation \in {Conversation} /\ "text" \in {"text"}
  BY SameTransactions, TwoParties DEF Store!NormalizedRecipients, ServerInv
<1>2. ~Store!IgnoreConflictingDuplicate(m, Conversation, "text", raw)
  BY <1>1 DEF Store!IgnoreConflictingDuplicate, Store!LogInv, Store!TypeOK, Store!MessageRow,
     Store!NoMessage
<1> HIDE DEF raw
<1>3. \/ Store!StoreNewMessage(m, Conversation, "text", raw)
      \/ Store!MergeDuplicate(m, Conversation, "text", raw)
  BY <1>1, <1>2 DEF Store!StoreMessage
<1>4. Store!LogInv'
  BY SelfSends, <1>1, <1>3, Store!StoreNewMessageLogInv, Store!MergeDuplicateLogInv
<1>5. Store!OpensRows(m, recipients)
  BY SelfSends, <1>1, <1>3, Store!StoreOpensRows
<1>6. /\ Store!ShapeInv'
      /\ \A k \in Messages, r \in {Self, Peer} :
           deliveries'[k][r] = IF k = m /\ r \in recipients /\ ~Store!HasRow(m, r)
                               THEN Store!PendingDelivery ELSE deliveries[k][r]
  BY SelfSends, <1>1, <1>5, Store!OpensRowsEffect
<1>7. \A k \in Messages : (k = m \/ DB!HasRow(k, Peer)) => DB!HasRow(k, Peer)'
  <2>1. Store!PendingDelivery # Store!NoDelivery
    BY DEF Store!PendingDelivery, Store!NoDelivery
  <2> QED
    BY <1>1, <1>6, <2>1 DEF DB!HasRow, Store!HasRow, DB!NoDelivery, Store!NoDelivery
<1>8. \A k \in Messages : k # m => messages'[k] = messages[k]
  BY <1>5 DEF Store!OpensRows
<1>9. \/ m \notin Store!Stored /\ messages'[m].seq = Store!NextConversationSeq(Conversation)
      \/ m \in Store!Stored /\ messages'[m] = messages[m]
  BY <1>1, <1>3 DEF Store!StoreNewMessage, Store!MergeDuplicate, Store!Stored,
     Store!LogInv, Store!TypeOK
<1>10. /\ \A k \in Store!Stored : messages'[k] = messages[k]
       /\ \A k \in Store!Stored' : k # m => k \in Store!Stored
  BY <1>8, <1>9 DEF Store!Stored
<1>11. Store!LatestSeq(Conversation) \in Nat
  <2>1. Store!Contiguous(Conversation) /\ Store!Contiguous(Conversation)'
    BY <1>1, <1>4 DEF Store!LogInv
  <2>2. Store!Seqs(Conversation) \subseteq Store!Seqs(Conversation)'
    BY SelfSends, <1>1, <1>10, Store!ConversationsGrow
  <2> QED
    BY SelfSends, <1>1, <2>1, <2>2, Store!LatestSeqGrows
<1>12. \A k \in Store!Stored' \ Store!Stored : messages'[k].seq > Store!LatestSeq(Conversation)
  BY <1>9, <1>10, <1>11 DEF Store!NextConversationSeq
<1>13. events' = events \/ events' = Append(events, DB!CreatedEvent(m))
  BY <1>3 DEF Store!StoreNewMessage, Store!MergeDuplicate, DB!CreatedEvent, Store!CreatedEvent
<1> QED
  BY <1>4, <1>6, <1>7, <1>10, <1>12, <1>13 DEF Extended, ServerInv

\* The peer acknowledges.
LEMMA MarkEffect ==
  ASSUME ServerInv, NEW m \in Messages,
         DB!MarkDelivered(m, Peer, messages[m].seq) \/ DB!MarkRead(m, Peer, messages[m].seq)
  PROVE  /\ Extended
         /\ DB!MarkDelivered(m, Peer, messages[m].seq) =>
              events' = events \/ events' = Append(events, DB!DeliveredEvent(m, Peer))
         /\ DB!MarkRead(m, Peer, messages[m].seq) =>
              events' = events \/ events' = Append(events, DB!ReadEvent(m, Peer))
<1> DEFINE s == messages[m].seq
<1>1. /\ Store!MarkDelivered(m, Peer, s) \/ Store!MarkRead(m, Peer, s)
      /\ Peer \in {Self, Peer} /\ Store!LogInv /\ Store!ShapeInv
  BY SameTransactions DEF ServerInv
<1>2. s \in Nat
  BY <1>1 DEF Store!LogInv, Store!TypeOK, Store!MessageRow, Store!NoMessage
<1> HIDE DEF s
<1>3. Store!LogInv'
  BY SelfSends, <1>1, <1>2, Store!MarkLogInv
<1>4. /\ Store!ShapeInv'
      /\ \A k \in Messages, u \in {Self, Peer} :
           <<k, u>> # <<m, Peer>> => deliveries'[k][u] = deliveries[k][u]
      /\ deliveries'[m][Peer].state # "none"
  BY SelfSends, <1>1, Store!MarkEffect
<1>5. \A k \in Messages : DB!HasRow(k, Peer) => DB!HasRow(k, Peer)'
  <2>1. DB!NoDelivery.state = "none"
    BY DEF DB!NoDelivery
  <2> QED
    BY <1>4, <2>1 DEF DB!HasRow
<1>6. UNCHANGED messages /\ Store!Stored' = Store!Stored
  BY <1>1 DEF Store!MarkDelivered, Store!MarkRead, Store!Stored
<1> QED
  BY <1>3, <1>4, <1>5, <1>6 DEF Extended, ServerInv, DB!MarkDelivered, DB!MarkRead

-----------------------------------------------------------------------------
(* What a step must show of each part of the invariant.                    *)

\* What Self may write, and say, about a message.
TrueState(m, state) ==
  /\ state \in {"absent", "pending", "serverAcked", "received", "read"}
  /\ state = "serverAcked" => DB!HasRow(m, Peer) /\ m \in mapped
  /\ state = "received" => peerInbox[m] # "absent"
  /\ state = "read" => peerInbox[m] = "read"

LEMMA TablesStep ==
  ASSUME ServerInv, TablesInv, Extended, PeerKept,
         mapped \subseteq mapped', mapped' \subseteq Messages,
         DOMAIN outbox' = Messages, outbox' = [m \in Messages |-> outbox'[m]],
         \A m \in Messages : outbox'[m] = outbox[m] \/ TrueState(m, outbox[m])',
         eventCursor' \in Nat,
         chatCursor' \in Nat, chatCursor' <= Store!LatestSeq(Conversation)',
         \A m \in Store!Stored : messages[m].seq <= chatCursor' => m \in mapped',
         chatCursor' <= Store!LatestSeq(Conversation)
  PROVE  TablesInv'
<1>1. \A m \in Messages : TrueState(m, outbox[m])
  BY DEF TablesInv, TrueState, ClaimsAreTrue, EventsFindTheirMessage
<1>2. \A m \in Messages : TrueState(m, outbox[m])'
  BY <1>1 DEF TrueState, Extended, PeerKept
<1>3. outbox' \in [Messages -> {"absent", "pending", "serverAcked", "received", "read"}]
  BY <1>2 DEF TrueState
<1>4. ClaimsAreTrue'
  BY <1>2 DEF TrueState, ClaimsAreTrue
<1>5. ASSUME NEW m \in Store!Stored', messages'[m].seq <= chatCursor' PROVE m \in mapped'
  <2>1. messages'[m].seq \in Nat
    BY DEF Extended, ServerInv, Store!LogInv, Store!TypeOK, Store!MessageRow, Store!NoMessage,
       Store!Stored
  <2>2. Store!LatestSeq(Conversation) \in Nat
    BY NumbersGrow
  <2>3. m \in Store!Stored
    BY <1>5, <2>1, <2>2 DEF Extended
  <2> QED
    BY <1>5, <2>3 DEF Extended
<1>6. DB!Stored' = Store!Stored'
  BY DEF DB!Stored, Store!Stored, DB!NoMessage, Store!NoMessage
<1>7. EventsFindTheirMessage'
  BY <1>2, <1>5, <1>6 DEF TrueState, EventsFindTheirMessage
<1> QED
  BY <1>3, <1>4, <1>7 DEF TablesInv

\* A step that does not sync the conversation.
LEMMA ChatKept ==
  ASSUME ServerInv, TablesInv, Extended, PeerKept, UNCHANGED chatCursor,
         mapped \subseteq mapped', mapped' \subseteq Messages,
         DOMAIN outbox' = Messages, outbox' = [m \in Messages |-> outbox'[m]],
         \A m \in Messages : outbox'[m] = outbox[m] \/ TrueState(m, outbox[m])',
         eventCursor' \in Nat
  PROVE  TablesInv'
<1>1. /\ chatCursor' \in Nat /\ chatCursor' <= Store!LatestSeq(Conversation)
      /\ chatCursor' <= Store!LatestSeq(Conversation)'
  BY NumbersGrow DEF TablesInv
<1>2. \A m \in Store!Stored : messages[m].seq <= chatCursor' => m \in mapped'
  BY SameTables DEF TablesInv, EventsFindTheirMessage, Store!Stored
<1> QED
  BY <1>1, <1>2, TablesStep

LEMMA TablesKept ==
  ASSUME ServerInv, TablesInv, Extended, PeerKept, UNCHANGED tables
  PROVE  TablesInv'
<1>1. UNCHANGED <<outbox, mapped, chatCursor, eventCursor>>
  BY DEF tables
<1> QED
  BY <1>1, ChatKept DEF TablesInv

\* The stack: what the replies tell stays true.
LEMMA FramesKept ==
  ASSUME Extended
  PROVE  Frames \subseteq Frames'
<1> SUFFICES ASSUME NEW f \in Frames PROVE f \in Frames'
  OBVIOUS
<1>1. f \in Frame /\ (f.step \in {"post", "reply"} => f.message \in Messages)
      /\ (f.step = "reply" => DB!HasRow(f.message, Peer))
  BY DEF Frames
<1>2. f.step = "reply" => DB!HasRow(f.message, Peer)'
  BY <1>1 DEF Extended
<1> QED
  BY <1>1, <1>2 DEF Frames

LEMMA TopInv ==
  ASSUME frames \in Seq(Frames), frames # << >>
  PROVE  Top \in Frames
BY DEF Top

\* What a step does to the stack.
LEMMA StackInv ==
  ASSUME frames \in Seq(Frames), Extended,
         \/ UNCHANGED frames
         \/ frames' = << >>
         \/ frames # << >> /\ Pop
         \/ \E f \in Frames' : Push(f)
         \/ \E f \in Frames', i \in DOMAIN frames : frames' = [frames EXCEPT ![i] = f]
  PROVE  frames' \in Seq(Frames')
<1> DEFINE S == Frames
           T == Frames'
<1>1. frames \in Seq(S) /\ S \subseteq T
  BY FramesKept
<1>2. \/ frames' = frames \/ frames' = << >>
      \/ frames # << >> /\ frames' = SubSeq(frames, 1, Len(frames) - 1)
      \/ \E f \in T : frames' = Append(frames, f)
      \/ \E f \in T, i \in DOMAIN frames : frames' = [frames EXCEPT ![i] = f]
  BY DEF Pop, Front, Push
<1> HIDE DEF S, T
<1>3. frames \in Seq(T)
  BY <1>1
<1>4. frames' \in Seq(T)
  <2>1. << >> \in Seq(T) /\ \A f \in T : Append(frames, f) \in Seq(T)
    BY <1>3
  <2>2. frames # << >> => SubSeq(frames, 1, Len(frames) - 1) \in Seq(T)
    BY <1>3
  <2>3. \A f \in T, i \in DOMAIN frames : [frames EXCEPT ![i] = f] \in Seq(T)
    BY <1>3
  <2> QED
    BY <1>2, <1>3, <2>1, <2>2, <2>3
<1> QED
  BY <1>4 DEF T

LEMMA ContinueInv ==
  ASSUME frames \in Seq(Frames), frames # << >>, Extended, NEW f \in Frames', Continue(f)
  PROVE  frames' \in Seq(Frames')
<1>1. Len(frames) \in DOMAIN frames
  OBVIOUS
<1> QED
  BY <1>1, StackInv DEF Continue

\* A step that changes every frame.
LEMMA EachFrameInv ==
  ASSUME frames \in Seq(Frames), NEW g, \A f \in Frames : g[f] \in Frames',
         frames' = [i \in DOMAIN frames |-> g[frames[i]]]
  PROVE  frames' \in Seq(Frames')
<1> DEFINE S == Frames
           T == Frames'
<1>1. frames \in Seq(S) /\ \A f \in S : g[f] \in T
  OBVIOUS
<1> HIDE DEF S, T
<1>2. frames' \in Seq(T)
  <2>1. DOMAIN frames = 1 .. Len(frames) /\ Len(frames) \in Nat
    BY <1>1
  <2>2. \A i \in 1 .. Len(frames) : g[frames[i]] \in T
    BY <1>1
  <2> QED
    BY <2>1, <2>2, IsASeq
<1> QED
  BY <1>2 DEF T

\* The receipts on their way.
LEMMA ReceiptsKept ==
  ASSUME fromPeer \in Seq(Receipts), PeerKept,
         \/ UNCHANGED fromPeer
         \/ fromPeer' = << >>
         \/ fromPeer # << >> /\ fromPeer' = Tail(fromPeer)
         \/ \E r \in Receipts' : fromPeer' = Append(fromPeer, r)
  PROVE  fromPeer' \in Seq(Receipts')
<1> DEFINE S == Receipts
           T == Receipts'
<1>1. fromPeer \in Seq(S) /\ S \subseteq T
  BY DEF Receipts, PeerKept
<1>2. \/ fromPeer' = fromPeer \/ fromPeer' = << >>
      \/ fromPeer # << >> /\ fromPeer' = Tail(fromPeer)
      \/ \E r \in T : fromPeer' = Append(fromPeer, r)
  OBVIOUS
<1> HIDE DEF S, T
<1>3. fromPeer \in Seq(T)
  BY <1>1
<1>4. fromPeer' \in Seq(T)
  <2>1. << >> \in Seq(T) /\ \A r \in T : Append(fromPeer, r) \in Seq(T)
    BY <1>3
  <2>2. fromPeer # << >> => Tail(fromPeer) \in Seq(T)
    BY <1>3
  <2> QED
    BY <1>2, <1>3, <2>1, <2>2
<1> QED
  BY <1>4 DEF T

LEMMA BudgetKept ==
  ASSUME MemoryInv,
         UNCHANGED budget \/ Spend("faults") \/ Spend("connections")
         \/ \E usable \in BOOLEAN : Probe(usable)
  PROVE  budget' \in [faults : Nat, connections : Nat]
<1>1. UNCHANGED budget \/ Spend("faults") \/ Spend("connections")
  BY DEF Probe
<1> QED
  BY <1>1 DEF MemoryInv, Spend

LEMMA PeerStepInv ==
  ASSUME ServerInv, PeerInv, PeerKept, NEW e, events' = events \/ events' = Append(events, e),
         TrueEvent(e)',
         \/ UNCHANGED fromPeer
         \/ fromPeer' = << >>
         \/ fromPeer # << >> /\ fromPeer' = Tail(fromPeer)
         \/ \E r \in Receipts' : fromPeer' = Append(fromPeer, r)
  PROVE  PeerInv'
<1>1. EventsAreTrue'
  BY EventsKept
<1>2. fromPeer' \in Seq(Receipts')
  BY ReceiptsKept DEF PeerInv
<1> QED
  BY <1>1, <1>2 DEF PeerInv, PeerKept

\* A step of Self leaves the service and the peer alone.
LEMMA SelfStep ==
  ASSUME ServerInv, PeerInv, UNCHANGED <<server, peerInbox>>,
         \/ UNCHANGED fromPeer
         \/ fromPeer' = << >>
         \/ fromPeer # << >> /\ fromPeer' = Tail(fromPeer)
  PROVE  ServerInv' /\ Extended /\ PeerKept /\ PeerInv'
<1>1. PeerKept
  BY DEF PeerKept, PeerInv
<1>2. Extended /\ events' = events
  BY ServerKept
<1>3. PeerInv'
  <2> DEFINE e == [type |-> "message.created"]
  <2>1. TrueEvent(e)'
    BY DEF TrueEvent
  <2> HIDE DEF e
  <2> QED
    BY <1>1, <1>2, <2>1, PeerStepInv
<1> QED
  BY <1>1, <1>2, <1>3 DEF Extended

\* One state is written, a mapping is added perhaps.
LEMMA WriteState ==
  ASSUME ServerInv, TablesInv, Extended, PeerKept, NEW m \in Messages, NEW state,
         outbox' = [outbox EXCEPT ![m] = state], TrueState(m, state)',
         mapped \subseteq mapped', mapped' \subseteq Messages, UNCHANGED <<chatCursor, eventCursor>>
  PROVE  TablesInv'
<1>1. outbox \in [Messages -> {"absent", "pending", "serverAcked", "received", "read"}]
  BY DEF TablesInv
<1>2. /\ DOMAIN outbox' = Messages /\ outbox' = [k \in Messages |-> outbox'[k]]
      /\ \A k \in Messages : outbox'[k] = IF k = m THEN state ELSE outbox[k]
  BY <1>1
<1>3. \A k \in Messages : outbox'[k] = outbox[k] \/ TrueState(k, outbox[k])'
  BY <1>2 DEF TrueState
<1>4. eventCursor' \in Nat
  BY DEF TablesInv
<1> QED
  BY <1>2, <1>3, <1>4, ChatKept

\* Only the mapping changes.
LEMMA WriteMapping ==
  ASSUME ServerInv, TablesInv, Extended, PeerKept, UNCHANGED <<outbox, chatCursor, eventCursor>>,
         mapped \subseteq mapped', mapped' \subseteq Messages
  PROVE  TablesInv'
BY ChatKept DEF TablesInv

\* The frames that handlers become.
LEMMA FrameEdits ==
  /\ \A m \in Messages, linked \in BOOLEAN : SendFrame(m, linked) \in Frames
  /\ \A todo \in SUBSET Messages, usable \in BOOLEAN, linked \in BOOLEAN :
       SweepFrame(todo, usable, linked) \in Frames
  /\ \A next \in Nat : RunFrame(next) \in Frames
  /\ \A f \in Frames, T \in SUBSET Messages :
       /\ [f EXCEPT !.step = "retry", !.message = Nothing, !.todo = T] \in Frames
       /\ [f EXCEPT !.step = "retry", !.todo = T] \in Frames
       /\ [f EXCEPT !.todo = T] \in Frames
  /\ \A f \in Frames, m \in Messages : [f EXCEPT !.step = "post", !.message = m] \in Frames
  /\ \A f \in Frames : [f EXCEPT !.linked = FALSE] \in Frames
<1>1. /\ \A m \in Messages, linked \in BOOLEAN : SendFrame(m, linked) \in Frames
      /\ \A todo \in SUBSET Messages, usable \in BOOLEAN, linked \in BOOLEAN :
           SweepFrame(todo, usable, linked) \in Frames
      /\ \A next \in Nat : RunFrame(next) \in Frames
  BY DEF SendFrame, SweepFrame, RunFrame, Frames, Frame
<1>2. \A f \in Frames, T \in SUBSET Messages :
        /\ [f EXCEPT !.step = "retry", !.message = Nothing, !.todo = T] \in Frames
        /\ [f EXCEPT !.step = "retry", !.todo = T] \in Frames
        /\ [f EXCEPT !.todo = T] \in Frames
  BY DEF Frames, Frame
<1>3. \A f \in Frames, m \in Messages : [f EXCEPT !.step = "post", !.message = m] \in Frames
  BY DEF Frames, Frame
<1>4. \A f \in Frames : [f EXCEPT !.linked = FALSE] \in Frames
  BY DEF Frames, Frame
<1> QED
  BY <1>1, <1>2, <1>3, <1>4

-----------------------------------------------------------------------------
(* The composer.                                                           *)

LEMMA SendViaServiceInv ==
  ASSUME Inv, NEW m \in Messages, SendViaService(m) PROVE Inv'
<1>1. /\ outbox' = [outbox EXCEPT ![m] = "pending"]
      /\ UNCHANGED <<server, mapped, chatCursor, eventCursor, deferred, link, stray,
                     peerInbox, budget>>
  BY DEF SendViaService, Create
<1>2. ServerInv' /\ Extended /\ PeerKept /\ PeerInv'
  BY <1>1, SelfStep DEF Inv, link
<1>3. TablesInv'
  <2>1. TrueState(m, "pending")'
    BY DEF TrueState
  <2> QED
    BY <1>1, <1>2, <2>1, WriteState DEF Inv, TablesInv
<1>4. frames' \in Seq(Frames')
  <2>1. PICK linked \in {connected, FALSE} : Push(SendFrame(m, linked))
    BY DEF SendViaService
  <2>2. SendFrame(m, linked) \in Frames'
    BY <1>2, FrameEdits, FramesKept DEF Inv, MemoryInv
  <2> QED
    BY <1>2, <2>1, <2>2, StackInv DEF Inv
<1>5. MemoryInv'
  BY <1>1 DEF Inv, MemoryInv, link
<1> QED
  BY <1>2, <1>3, <1>4, <1>5 DEF Inv

LEMMA SendViaP2PInv ==
  ASSUME Inv, NEW m \in Messages, SendViaP2P(m) PROVE Inv'
<1>1. /\ outbox' = [outbox EXCEPT ![m] = "pending"]
      /\ toPeer' = Append(toPeer, m)
      /\ UNCHANGED <<server, mapped, chatCursor, eventCursor, frames, deferred, connected,
                     fromPeer, stray, peerInbox>>
  BY DEF SendViaP2P, Create, Transmit, memory
<1>2. ServerInv' /\ Extended /\ PeerKept /\ PeerInv'
  BY <1>1, SelfStep DEF Inv
<1>3. TablesInv'
  <2>1. TrueState(m, "pending")'
    BY DEF TrueState
  <2> QED
    BY <1>1, <1>2, <2>1, WriteState DEF Inv, TablesInv
<1>4. frames' \in Seq(Frames')
  BY <1>1, <1>2, StackInv DEF Inv
<1>5. MemoryInv'
  <2>1. budget' \in [faults : Nat, connections : Nat]
    BY BudgetKept DEF Inv, SendViaP2P
  <2>2. toPeer' \in Seq(Messages)
    BY <1>1 DEF Inv, MemoryInv
  <2> QED
    BY <1>1, <2>1, <2>2 DEF Inv, MemoryInv
<1> QED
  BY <1>2, <1>3, <1>4, <1>5 DEF Inv

LEMMA SendNowhereInv ==
  ASSUME Inv, NEW m \in Messages, SendNowhere(m) PROVE Inv'
<1>1. /\ outbox' = [outbox EXCEPT ![m] = "pending"]
      /\ UNCHANGED <<server, mapped, chatCursor, eventCursor, frames, deferred, connected,
                     toPeer, fromPeer, stray, peerInbox>>
  BY DEF SendNowhere, Create, memory, link
<1>2. ServerInv' /\ Extended /\ PeerKept /\ PeerInv'
  BY <1>1, SelfStep DEF Inv
<1>3. TablesInv'
  <2>1. TrueState(m, "pending")'
    BY DEF TrueState
  <2> QED
    BY <1>1, <1>2, <2>1, WriteState DEF Inv, TablesInv
<1>4. frames' \in Seq(Frames')
  BY <1>1, <1>2, StackInv DEF Inv
<1>5. MemoryInv'
  <2>1. budget' \in [faults : Nat, connections : Nat]
    BY BudgetKept DEF Inv, SendNowhere
  <2> QED
    BY <1>1, <2>1 DEF Inv, MemoryInv
<1> QED
  BY <1>2, <1>3, <1>4, <1>5 DEF Inv

-----------------------------------------------------------------------------
(* sendViaMessageService.                                                  *)

\* What a post does to the service and to what is known about the peer.
LEMMA PostInv ==
  ASSUME Inv, NEW m \in Messages, Post(m), UNCHANGED <<tables, deferred, link, peerInbox, budget>>
  PROVE  /\ ServerInv' /\ Extended /\ TablesInv' /\ PeerInv' /\ DB!HasRow(m, Peer)'
         /\ stray' \subseteq stray => MemoryInv'
<1>1. /\ Extended /\ DB!HasRow(m, Peer)'
      /\ events' = events \/ events' = Append(events, DB!CreatedEvent(m))
  BY PostEffect DEF Inv
<1>2. PeerKept
  BY DEF PeerKept, Inv, PeerInv
<1>3. TrueEvent(DB!CreatedEvent(m))'
  BY DEF TrueEvent, DB!CreatedEvent
<1>4. PeerInv'
  BY <1>1, <1>2, <1>3, PeerStepInv DEF Inv, link
<1>5. TablesInv'
  BY <1>1, <1>2, TablesKept DEF Inv
<1>6. stray' \subseteq stray => MemoryInv'
  BY DEF Inv, MemoryInv, link
<1> QED
  BY <1>1, <1>4, <1>5, <1>6 DEF Extended

LEMMA HandlePostInv ==
  ASSUME Inv, HandlePost PROVE Inv'
<1>1. PICK i \in DOMAIN frames :
        /\ frames[i].step = "post"
        /\ Post(frames[i].message)
        /\ frames' = [frames EXCEPT ![i].step = "reply"]
  BY DEF HandlePost
<1>2. UNCHANGED <<tables, deferred, link, stray, peerInbox, budget>>
  BY DEF HandlePost
<1>3. frames[i] \in Frames
  BY <1>1, ElementOfSeq DEF Inv
<1>4. PICK m \in Messages : m = frames[i].message
  BY <1>1, <1>3 DEF Frames
<1>5. ServerInv' /\ Extended /\ TablesInv' /\ PeerInv' /\ DB!HasRow(m, Peer)' /\ MemoryInv'
  BY <1>1, <1>2, <1>4, PostInv
<1>6. frames' \in Seq(Frames')
  <2> DEFINE f == [frames[i] EXCEPT !.step = "reply"]
  <2>1. f \in Frame /\ f.message = m /\ f.step = "reply"
    BY <1>3, <1>4 DEF Frames, Frame
  <2>2. frames' = [frames EXCEPT ![i] = f]
    BY <1>1
  <2> HIDE DEF f
  <2>3. f \in Frames'
    BY <1>5, <2>1 DEF Frames
  <2> QED
    BY <1>5, <2>2, <2>3, StackInv DEF Inv
<1> QED
  BY <1>5, <1>6 DEF Inv

LEMMA HandleStrayPostInv ==
  ASSUME Inv, HandleStrayPost PROVE Inv'
<1>1. PICK m \in stray : Post(m) /\ stray' = stray \ {m}
  BY DEF HandleStrayPost
<1>2. UNCHANGED <<tables, frames, deferred, link, peerInbox, budget>> /\ m \in Messages
  BY DEF HandleStrayPost, memory, Inv, MemoryInv
<1>3. ServerInv' /\ Extended /\ TablesInv' /\ PeerInv' /\ MemoryInv'
  BY <1>1, <1>2, PostInv
<1>4. frames' \in Seq(Frames')
  BY <1>2, <1>3, StackInv DEF Inv
<1> QED
  BY <1>3, <1>4 DEF Inv

\* The attempt ends, one way or another.
LEMMA EndOfAttempt ==
  ASSUME Inv, Extended, OnTop("post") \/ OnTop("reply"), Succeed \/ Fail \/ FellBack
  PROVE  frames' \in Seq(Frames') /\ deferred' \subseteq Messages
<1>1. frames # << >> /\ Top \in Frames /\ Top.step \in {"post", "reply"}
  BY TopInv DEF OnTop, Inv
<1>2. Top.message \in Messages /\ Top.todo \in SUBSET Messages
  BY <1>1 DEF Frames, Frame
<1>3. deferred' \subseteq Messages
  BY <1>2 DEF Succeed, Fail, FellBack, Inv, MemoryInv
<1> DEFINE f == [Top EXCEPT !.step = "retry", !.message = Nothing, !.todo = @ \ {Top.message}]
<1>4. f \in Frames'
  <2>1. [Top EXCEPT !.step = "retry", !.message = Nothing, !.todo = Top.todo \ {Top.message}] \in Frames
    BY <1>1, <1>2, FrameEdits
  <2> QED
    BY <2>1, FramesKept
<1>5. Pop \/ Continue(f)
  BY DEF Succeed, Fail, FellBack
<1> HIDE DEF f
<1> QED
  BY <1>1, <1>3, <1>4, <1>5, StackInv, ContinueInv DEF Inv

LEMMA FinishPostInv ==
  ASSUME Inv, FinishPost PROVE Inv'
<1>1. /\ OnTop("reply")
      /\ mapped' = mapped \cup {Top.message}
      /\ outbox' = [outbox EXCEPT ![Top.message] = "serverAcked"]
      /\ Succeed
      /\ UNCHANGED <<server, chatCursor, eventCursor, connected, toPeer, fromPeer, stray,
                     peerInbox, budget>>
  BY DEF FinishPost, link
<1>2. Top \in Frames /\ Top.step = "reply"
  BY <1>1, TopInv DEF Inv, OnTop
<1>3. PICK m \in Messages : m = Top.message
  BY <1>2 DEF Frames
<1>4. ServerInv' /\ Extended /\ PeerKept /\ PeerInv'
  BY <1>1, SelfStep DEF Inv
<1>5. TablesInv'
  <2>1. DB!HasRow(m, Peer)' /\ m \in mapped'
    BY <1>1, <1>2, <1>3, <1>4 DEF Frames, Extended
  <2>2. TrueState(m, "serverAcked")'
    BY <2>1 DEF TrueState
  <2> QED
    BY <1>1, <1>3, <1>4, <2>2, WriteState DEF Inv, TablesInv
<1>6. frames' \in Seq(Frames') /\ deferred' \subseteq Messages
  BY <1>1, <1>4, EndOfAttempt
<1>7. MemoryInv'
  BY <1>1, <1>6 DEF Inv, MemoryInv
<1> QED
  BY <1>4, <1>5, <1>6, <1>7 DEF Inv

LEMMA FailToFinishInv ==
  ASSUME Inv, FailToFinish PROVE Inv'
<1>1. /\ OnTop("reply") /\ Spend("faults")
      /\ mapped' \in {mapped, mapped \cup {Top.message}}
      /\ Fail
      /\ UNCHANGED <<server, outbox, chatCursor, eventCursor, connected, toPeer, fromPeer,
                     stray, peerInbox>>
  BY DEF FailToFinish, link
<1>2. Top.message \in Messages
  BY <1>1, TopInv DEF Inv, OnTop, Frames
<1>3. ServerInv' /\ Extended /\ PeerKept /\ PeerInv'
  BY <1>1, SelfStep DEF Inv
<1>4. TablesInv'
  BY <1>1, <1>2, <1>3, WriteMapping DEF Inv, TablesInv
<1>5. frames' \in Seq(Frames') /\ deferred' \subseteq Messages
  BY <1>1, <1>3, EndOfAttempt
<1>6. budget' \in [faults : Nat, connections : Nat]
  BY <1>1, BudgetKept DEF Inv
<1>7. MemoryInv'
  BY <1>1, <1>5, <1>6 DEF Inv, MemoryInv
<1> QED
  BY <1>3, <1>4, <1>5, <1>7 DEF Inv

LEMMA LosePostInv ==
  ASSUME Inv, LosePost PROVE Inv'
<1>1. /\ OnTop("post") \/ OnTop("reply")
      /\ Spend("faults")
      /\ Succeed \/ Fail \/ FellBack
      /\ UNCHANGED <<server, tables, connected, fromPeer, peerInbox>>
  BY DEF LosePost
<1>2. Top.message \in Messages
  BY <1>1, TopInv DEF Inv, OnTop, Frames
<1>3. ServerInv' /\ Extended /\ PeerKept /\ PeerInv'
  BY <1>1, SelfStep DEF Inv
<1>4. TablesInv'
  BY <1>1, <1>3, TablesKept DEF Inv
<1>5. frames' \in Seq(Frames') /\ deferred' \subseteq Messages
  BY <1>1, <1>3, EndOfAttempt
<1>6. budget' \in [faults : Nat, connections : Nat]
  BY <1>1, BudgetKept DEF Inv
<1>7. stray' \subseteq Messages
  BY <1>2 DEF LosePost, Inv, MemoryInv
<1>8. toPeer' \in Seq(Messages)
  <2>1. toPeer' = toPeer \/ toPeer' = Append(toPeer, Top.message)
    BY DEF LosePost, Transmit
  <2> QED
    BY <1>2, <2>1 DEF Inv, MemoryInv
<1>9. MemoryInv'
  BY <1>1, <1>5, <1>6, <1>7, <1>8 DEF Inv, MemoryInv
<1> QED
  BY <1>3, <1>4, <1>5, <1>9 DEF Inv

-----------------------------------------------------------------------------
(* retryPendingDirectMessagesForAvailableRoute.                            *)

\* A step of a sweep that writes no table.
LEMMA SweepStep ==
  ASSUME Inv, UNCHANGED <<server, tables, connected, fromPeer, stray, peerInbox>>,
         UNCHANGED budget \/ \E usable \in BOOLEAN : Probe(usable),
         deferred' \subseteq Messages,
         UNCHANGED toPeer \/ \E m \in Messages : Transmit(m),
         Extended => frames' \in Seq(Frames')
  PROVE  Inv'
<1>1. ServerInv' /\ Extended /\ PeerKept /\ PeerInv'
  BY SelfStep DEF Inv
<1>2. TablesInv'
  BY <1>1, TablesKept DEF Inv
<1>3. budget' \in [faults : Nat, connections : Nat]
  BY BudgetKept DEF Inv
<1>4. toPeer' \in Seq(Messages)
  BY DEF Transmit, Inv, MemoryInv
<1>5. MemoryInv'
  BY <1>3, <1>4 DEF Inv, MemoryInv
<1> QED
  BY <1>1, <1>2, <1>5 DEF Inv

LEMMA StartSweepInv ==
  ASSUME Inv, StartSweep PROVE Inv'
<1>1. PICK usable \in BOOLEAN :
        Probe(usable) /\ Push(SweepFrame(Pending \ deferred, usable, connected))
  BY DEF StartSweep
<1>2. UNCHANGED <<server, tables, deferred, connected, toPeer, fromPeer, stray, peerInbox>>
  BY DEF StartSweep, link
<1>3. ASSUME Extended PROVE frames' \in Seq(Frames')
  <2>1. SweepFrame(Pending \ deferred, usable, connected) \in Frames'
    <3>1. Pending \ deferred \in SUBSET Messages /\ connected \in BOOLEAN
      BY DEF Pending, Inv, MemoryInv
    <3> QED
      BY <1>3, <3>1, FrameEdits, FramesKept
  <2> QED
    BY <1>1, <1>3, <2>1, StackInv DEF Inv
<1> QED
  BY <1>1, <1>2, <1>3, SweepStep DEF Inv, MemoryInv

LEMMA SweepingTop ==
  ASSUME Inv, Sweeping
  PROVE  frames # << >> /\ Top \in Frames /\ Top.todo \in SUBSET Messages
BY TopInv DEF Inv, Sweeping, OnTop, Frames, Frame

LEMMA RetryViaServiceInv ==
  ASSUME Inv, RetryViaService PROVE Inv'
<1>1. PICK m \in Retryable : Continue([Top EXCEPT !.step = "post", !.message = m])
  BY DEF RetryViaService
<1>2. UNCHANGED <<server, tables, deferred, connected, toPeer, fromPeer, stray, peerInbox, budget>>
  BY DEF RetryViaService, link
<1>3. frames # << >> /\ Top \in Frames /\ m \in Messages
  BY SweepingTop DEF RetryViaService, Retryable
<1>4. ASSUME Extended PROVE frames' \in Seq(Frames')
  <2>1. [Top EXCEPT !.step = "post", !.message = m] \in Frames'
    BY <1>3, <1>4, FrameEdits, FramesKept
  <2> QED
    BY <1>1, <1>3, <1>4, <2>1, ContinueInv DEF Inv
<1> QED
  BY <1>2, <1>4, SweepStep DEF Inv, MemoryInv

LEMMA RetryViaP2PInv ==
  ASSUME Inv, RetryViaP2P PROVE Inv'
<1>1. PICK m \in Retryable :
        /\ Transmit(m)
        /\ deferred' = deferred \cup {m}
        /\ Continue([Top EXCEPT !.step = "retry", !.todo = @ \ {m}])
  BY DEF RetryViaP2P
<1>2. UNCHANGED <<server, tables, connected, fromPeer, stray, peerInbox, budget>>
  BY DEF RetryViaP2P
<1>3. frames # << >> /\ Top \in Frames /\ m \in Messages /\ Top.todo \in SUBSET Messages
  BY SweepingTop DEF RetryViaP2P, Retryable
<1>4. ASSUME Extended PROVE frames' \in Seq(Frames')
  <2>1. [Top EXCEPT !.step = "retry", !.todo = Top.todo \ {m}] \in Frames'
    BY <1>3, <1>4, FrameEdits, FramesKept
  <2>2. Continue([Top EXCEPT !.step = "retry", !.todo = Top.todo \ {m}])
    BY <1>1
  <2> QED
    BY <1>3, <1>4, <2>1, <2>2, ContinueInv DEF Inv
<1> QED
  BY <1>1, <1>2, <1>3, <1>4, SweepStep DEF Inv, MemoryInv

LEMMA LeaveSweepInv ==
  ASSUME Inv, RetryNowhere \/ EndSweep PROVE Inv'
<1>1. /\ UNCHANGED <<server, tables, connected, toPeer, fromPeer, stray, peerInbox, budget>>
      /\ Pop /\ Sweeping
      /\ deferred' = deferred \/ \E m \in Retryable : deferred' = deferred \cup {m}
  BY DEF RetryNowhere, EndSweep, link
<1>2. frames # << >> /\ deferred' \subseteq Messages
  BY <1>1, SweepingTop DEF Retryable, Inv, MemoryInv
<1>3. ASSUME Extended PROVE frames' \in Seq(Frames')
  BY <1>1, <1>2, <1>3, StackInv DEF Inv
<1> QED
  BY <1>1, <1>2, <1>3, SweepStep

LEMMA BackoffExpiresInv ==
  ASSUME Inv, NEW m \in Messages, BackoffExpires(m) PROVE Inv'
<1>1. /\ deferred' = deferred \ {m}
      /\ frames' = [i \in DOMAIN frames |-> [frames[i] EXCEPT !.todo = @ \ {m}]]
      /\ UNCHANGED <<server, tables, connected, toPeer, fromPeer, stray, peerInbox, budget>>
  BY DEF BackoffExpires, link
<1>2. ASSUME Extended PROVE frames' \in Seq(Frames')
  <2> DEFINE g == [f \in Frames |-> [f EXCEPT !.todo = f.todo \ {m}]]
  <2>1. \A f \in Frames : g[f] \in Frames'
    <3>1. \A f \in Frames : f.todo \ {m} \in SUBSET Messages
      BY DEF Frames, Frame
    <3> QED
      BY <1>2, <3>1, FrameEdits, FramesKept
  <2>2. \A i \in DOMAIN frames : frames[i] \in Frames
    BY ElementOfSeq DEF Inv
  <2>3. frames' = [i \in DOMAIN frames |-> g[frames[i]]]
    BY <1>1, <2>2
  <2> HIDE DEF g
  <2> QED
    BY <2>1, <2>3, EachFrameInv DEF Inv
<1>3. deferred' \subseteq Messages
  BY <1>1 DEF Inv, MemoryInv
<1> QED
  BY <1>1, <1>2, <1>3, SweepStep

-----------------------------------------------------------------------------
(* The P2P connection.                                                     *)

LEMMA ListedSet ==
  ASSUME NEW S \in SUBSET Messages
  PROVE  SetToSeq(S) \in Seq(Messages)
<1>1. IsFiniteSet(S)
  BY MessagesAssumption, FS_Subset
<1>2. Cardinality(S) \in Nat /\ ExistsBijection(1..Cardinality(S), S)
  BY <1>1, FS_CardinalityType
<1>3. \E f \in [1..Cardinality(S) -> S] : IsInjective(f)
  BY <1>2 DEF ExistsBijection, Bijection, Injection, IsInjective
<1>4. SetToSeq(S) \in [1..Cardinality(S) -> S]
  BY <1>3 DEF SetToSeq
<1>5. SetToSeq(S) \in [1..Cardinality(S) -> Messages]
  BY <1>4
<1> QED
  BY <1>2, <1>5, IsASeq

LEMMA ConnectInv ==
  ASSUME Inv, Connect PROVE Inv'
<1>1. /\ Spend("connections") /\ connected' = TRUE /\ toPeer' = SetToSeq(Pending)
      /\ deferred' = deferred \cup Pending
      /\ UNCHANGED <<server, tables, frames, fromPeer, stray, peerInbox>>
  BY DEF Connect
<1>2. ServerInv' /\ Extended /\ PeerKept /\ PeerInv'
  BY <1>1, SelfStep DEF Inv
<1>3. TablesInv'
  BY <1>1, <1>2, TablesKept DEF Inv
<1>4. frames' \in Seq(Frames')
  BY <1>1, <1>2, StackInv DEF Inv
<1>5. MemoryInv'
  <2>1. Pending \in SUBSET Messages
    BY DEF Pending
  <2>2. toPeer' \in Seq(Messages)
    BY <1>1, <2>1, ListedSet
  <2>3. budget' \in [faults : Nat, connections : Nat]
    BY <1>1, BudgetKept DEF Inv
  <2> QED
    BY <1>1, <2>1, <2>2, <2>3 DEF Inv, MemoryInv
<1> QED
  BY <1>2, <1>3, <1>4, <1>5 DEF Inv

LEMMA DisconnectInv ==
  ASSUME Inv, Disconnect PROVE Inv'
<1>1. /\ Spend("faults") /\ connected' = FALSE /\ toPeer' = << >> /\ fromPeer' = << >>
      /\ frames' = [i \in DOMAIN frames |-> [frames[i] EXCEPT !.linked = FALSE]]
      /\ UNCHANGED <<server, tables, deferred, stray, peerInbox>>
  BY DEF Disconnect
<1>2. ServerInv' /\ Extended /\ PeerKept /\ PeerInv'
  BY <1>1, SelfStep DEF Inv
<1>3. TablesInv'
  BY <1>1, <1>2, TablesKept DEF Inv
<1>4. frames' \in Seq(Frames')
  <2> DEFINE g == [f \in Frames |-> [f EXCEPT !.linked = FALSE]]
  <2>1. \A f \in Frames : g[f] \in Frames'
    BY <1>2, FrameEdits, FramesKept
  <2>2. \A i \in DOMAIN frames : frames[i] \in Frames
    BY ElementOfSeq DEF Inv
  <2>3. frames' = [i \in DOMAIN frames |-> g[frames[i]]]
    BY <1>1, <2>2
  <2> HIDE DEF g
  <2> QED
    BY <2>1, <2>3, EachFrameInv DEF Inv
<1>5. MemoryInv'
  <2>1. budget' \in [faults : Nat, connections : Nat]
    BY <1>1, BudgetKept DEF Inv
  <2>2. toPeer' \in Seq(Messages) /\ connected' \in BOOLEAN
    BY <1>1, EmptySeq
  <2> QED
    BY <1>1, <2>1, <2>2 DEF Inv, MemoryInv
<1> QED
  BY <1>2, <1>3, <1>4, <1>5 DEF Inv

LEMMA ReceiveReceiptInv ==
  ASSUME Inv, ReceiveReceipt PROVE Inv'
<1>1. /\ fromPeer # << >>
      /\ outbox' = [outbox EXCEPT ![Head(fromPeer).message] = Head(fromPeer).type]
      /\ fromPeer' = Tail(fromPeer)
      /\ UNCHANGED <<server, mapped, chatCursor, eventCursor, frames, deferred, connected, toPeer,
                     stray, peerInbox, budget>>
  BY DEF ReceiveReceipt, memory
<1>2. PICK r \in Receipts : r = Head(fromPeer)
  BY <1>1 DEF Inv, PeerInv
<1>3. ServerInv' /\ Extended /\ PeerKept /\ PeerInv'
  BY <1>1, SelfStep DEF Inv
<1>4. TablesInv'
  <2>1. r.message \in Messages
    BY DEF Receipts
  <2>2. TrueState(r.message, r.type)'
    BY <1>1 DEF Receipts, TrueState
  <2> QED
    BY <1>1, <1>2, <1>3, <2>1, <2>2, WriteState DEF Inv, TablesInv
<1>5. frames' \in Seq(Frames')
  BY <1>1, <1>3, StackInv DEF Inv
<1>6. MemoryInv'
  BY <1>1 DEF Inv, MemoryInv
<1> QED
  BY <1>3, <1>4, <1>5, <1>6 DEF Inv

-----------------------------------------------------------------------------
(* runRemoteMessageSync on the sender's device.                            *)

\* The cursor behind a page.
LEMMA GreatestOf ==
  ASSUME NEW n \in Nat, NEW S \in SUBSET (0 .. n), S # {}
  PROVE  Max(S) \in Nat
<1>1. \E x \in S : \A y \in S : x >= y
  BY SelfSends, Store!GreatestExists
<1>2. Max(S) \in S
  BY <1>1 DEF Max
<1>3. \A x \in S : x \in Nat
  OBVIOUS
<1> QED
  BY <1>2, <1>3, Zenon

LEMMA ConsumeEventsInv ==
  ASSUME Inv, ConsumeEvents PROVE Inv'
<1>1. PICK limit \in 1..Len(events) :
        LET page == DB!ListMessageEventsAfterForClient(Self, eventCursor, limit)
            last == Max(page \cup {eventCursor})
        IN  /\ page # {}
            /\ ApplyStateEvents(page)
            /\ IF \E i \in page : events[i].type = "message.created"
                 THEN Push(RunFrame(last)) /\ UNCHANGED eventCursor
                 ELSE eventCursor' = last /\ UNCHANGED frames
  BY DEF ConsumeEvents
<1> DEFINE page == DB!ListMessageEventsAfterForClient(Self, eventCursor, limit)
           last == Max(page \cup {eventCursor})
<1>2. UNCHANGED <<server, mapped, chatCursor, deferred, link, stray, peerInbox, budget>>
  BY DEF ConsumeEvents
<1>3. Len(events) \in Nat /\ DOMAIN events = 1..Len(events) /\ eventCursor \in Nat
  BY DEF Inv, ServerInv, Store!LogInv, Store!TypeOK, TablesInv
<1>4. page \subseteq (eventCursor + 1)..Len(events) /\ page \subseteq DOMAIN events
  <2>1. page \subseteq (eventCursor + 1)..Len(events)
    BY DEF DB!ListMessageEventsAfterForClient, DB!Limited
  <2> HIDE DEF page
  <2> QED
    BY <1>3, <2>1
<1>5. /\ ApplyStateEvents(page)
      /\ \/ Push(RunFrame(last)) /\ UNCHANGED eventCursor
         \/ eventCursor' = last /\ UNCHANGED frames
  BY <1>1
<1> HIDE DEF page
<1>6. last \in Nat
  <2> DEFINE n == Len(events) + eventCursor
  <2>1. n \in Nat /\ page \cup {eventCursor} \in SUBSET (0 .. n) /\ page \cup {eventCursor} # {}
    BY <1>3, <1>4
  <2> HIDE DEF n
  <2> QED
    BY <2>1, GreatestOf
<1> HIDE DEF last
<1>7. ServerInv' /\ Extended /\ PeerKept /\ PeerInv'
  BY <1>2, SelfStep DEF Inv, link
<1>8. TablesInv'
  <2>1. outbox' = [m \in Messages |->
          IF m \in mapped
            THEN StateAfter(outbox[m], {events[i].type : i \in {j \in page : events[j].message = m}})
            ELSE outbox[m]]
    BY <1>5 DEF ApplyStateEvents
  <2>2. DOMAIN outbox' = Messages /\ outbox' = [m \in Messages |-> outbox'[m]]
    BY <2>1
  <2>3. ASSUME NEW m \in Messages PROVE outbox'[m] = outbox[m] \/ TrueState(m, outbox[m])'
    <3> DEFINE types == {events[i].type : i \in {j \in page : events[j].message = m}}
    <3>1. /\ "message.read" \in types => peerInbox[m] = "read"
          /\ "message.delivered" \in types => peerInbox[m] # "absent"
      BY <1>4 DEF Inv, PeerInv, EventsAreTrue
    <3>2. outbox'[m] = outbox[m] \/ outbox'[m] = StateAfter(outbox[m], types)
      BY <2>1
    <3> HIDE DEF types
    <3>3. \/ outbox'[m] = outbox[m]
          \/ outbox'[m] = "read" /\ peerInbox[m] = "read"
          \/ outbox'[m] = "received" /\ peerInbox[m] # "absent"
      BY <3>1, <3>2 DEF StateAfter
    <3>4. peerInbox' = peerInbox
      BY <1>2
    <3> QED
      BY <3>3, <3>4 DEF TrueState
  <2>4. eventCursor' \in Nat
    BY <1>3, <1>5, <1>6
  <2> QED
    BY <1>2, <1>7, <2>2, <2>3, <2>4, ChatKept DEF Inv, TablesInv
<1>9. frames' \in Seq(Frames')
  <2>1. RunFrame(last) \in Frames'
    BY <1>6, <1>7, FrameEdits, FramesKept
  <2> QED
    BY <1>5, <1>7, <2>1, StackInv DEF Inv
<1>10. MemoryInv'
  BY <1>2 DEF Inv, MemoryInv, link
<1> QED
  BY <1>7, <1>8, <1>9, <1>10 DEF Inv

\* The sync maps what it passes, and passes no number that the service has yet to give.
LEMMA MapListedInv ==
  ASSUME ServerInv, TablesInv, Extended, PeerKept, MapListed, UNCHANGED <<server, outbox>>,
         eventCursor' \in Nat
  PROVE  TablesInv'
<1> DEFINE c == Conversation
           n == Store!LatestSeq(c)
           limit == Cardinality(Messages)
           page == Store!ListMessagesAfterSeq(c, chatCursor, limit)
<1>1. /\ chatCursor \in Nat /\ chatCursor <= n /\ limit \in Nat /\ c \in {Conversation}
      /\ Store!LogInv
  BY MessagesAssumption, FS_CardinalityType DEF TablesInv, ServerInv
<1>2. n \in Nat
  BY NumbersGrow
<1>3. PICK next \in chatCursor..n :
        /\ page = {m \in Store!StoredIn(c) : messages[m].seq \in (chatCursor + 1)..next}
        /\ {messages[m].seq : m \in page} = (chatCursor + 1)..next
  BY <1>1, SelfSends, Store!PageIsNext, Zenon
<1>4. /\ mapped' = mapped \cup page
      /\ chatCursor' = Max({messages[m].seq : m \in page} \cup {chatCursor})
  BY SameQueries DEF MapListed
<1>5. page \subseteq Messages
  BY <1>3 DEF Store!StoredIn, Store!Stored
<1> HIDE DEF page, n
<1>6. next \in Nat /\ chatCursor <= next /\ next <= n
  BY <1>1, <1>2
<1>7. chatCursor' = next
  <2>1. {messages[m].seq : m \in page} \cup {chatCursor} = chatCursor..next
    BY <1>1, <1>3, <1>6
  <2>2. next \in chatCursor..next /\ \A y \in chatCursor..next : next >= y
    BY <1>1, <1>6
  <2>3. \A x \in chatCursor..next : (\A y \in chatCursor..next : x >= y) => x = next
    BY <1>1, <1>6, <2>2
  <2> QED
    BY <1>4, <2>1, <2>2, <2>3 DEF Max
<1>8. ASSUME NEW m \in Store!Stored, messages[m].seq <= chatCursor' PROVE m \in mapped'
  <2>1. messages[m].seq \in Nat /\ m \in Store!StoredIn(c) /\ m \in Messages
    BY <1>1 DEF Store!LogInv, Store!TypeOK, Store!MessageRow, Store!NoMessage, Store!Stored,
       Store!StoredIn
  <2>2. CASE messages[m].seq <= chatCursor
    BY <1>4, <2>1, <2>2, SameTables DEF TablesInv, EventsFindTheirMessage
  <2>3. CASE ~(messages[m].seq <= chatCursor)
    <3>1. messages[m].seq \in (chatCursor + 1)..next
      BY <1>1, <1>6, <1>7, <1>8, <2>1, <2>3
    <3>2. m \in page
      BY <1>3, <2>1, <3>1
    <3> QED
      BY <1>4, <3>2
  <2> QED
    BY <2>2, <2>3
<1>9. n' = n
  BY ServerKept DEF n
<1>10. mapped \subseteq mapped' /\ mapped' \subseteq Messages
  BY <1>4, <1>5 DEF TablesInv
<1>11. chatCursor' \in Nat /\ chatCursor' <= n /\ chatCursor' <= n'
  BY <1>6, <1>7, <1>9
<1> QED
  BY <1>8, <1>10, <1>11, TablesStep DEF n, TablesInv

LEMMA SyncInv ==
  ASSUME Inv, Sync PROVE Inv'
<1>1. /\ OnTop("sync") /\ eventCursor' = Top.next /\ Pop
      /\ UNCHANGED <<server, outbox, deferred, link, stray, peerInbox>>
      /\ \/ MapListed /\ UNCHANGED budget
         \/ Spend("faults") /\ UNCHANGED <<mapped, chatCursor>>
  BY DEF Sync
<1>2. frames # << >> /\ eventCursor' \in Nat
  BY <1>1, TopInv DEF Inv, OnTop, Frames, Frame
<1>3. ServerInv' /\ Extended /\ PeerKept /\ PeerInv'
  BY <1>1, SelfStep DEF Inv, link
<1>4. TablesInv'
  <2>1. CASE MapListed
    BY <1>1, <1>2, <1>3, <2>1, MapListedInv DEF Inv
  <2>2. CASE UNCHANGED <<mapped, chatCursor>>
    BY <1>1, <1>2, <1>3, <2>2, ChatKept DEF Inv, TablesInv
  <2> QED
    BY <1>1, <2>1, <2>2
<1>5. frames' \in Seq(Frames')
  BY <1>1, <1>2, <1>3, StackInv DEF Inv
<1>6. MemoryInv'
  <2>1. budget' \in [faults : Nat, connections : Nat]
    BY <1>1, BudgetKept DEF Inv
  <2> QED
    BY <1>1, <2>1 DEF Inv, MemoryInv, link
<1> QED
  BY <1>3, <1>4, <1>5, <1>6 DEF Inv

LEMMA ReconcileInv ==
  ASSUME Inv, Reconcile PROVE Inv'
<1>1. /\ MapListed
      /\ UNCHANGED <<server, outbox, eventCursor, frames, deferred, link, stray, peerInbox, budget>>
  BY DEF Reconcile, memory
<1>2. ServerInv' /\ Extended /\ PeerKept /\ PeerInv'
  BY <1>1, SelfStep DEF Inv, link
<1>3. TablesInv'
  <2>1. eventCursor' \in Nat
    BY <1>1 DEF Inv, TablesInv
  <2> QED
    BY <1>1, <1>2, <2>1, MapListedInv DEF Inv
<1>4. frames' \in Seq(Frames')
  BY <1>1, <1>2, StackInv DEF Inv
<1>5. MemoryInv'
  BY <1>1 DEF Inv, MemoryInv, link
<1> QED
  BY <1>2, <1>3, <1>4, <1>5 DEF Inv

LEMMA CrashInv ==
  ASSUME Inv, Crash PROVE Inv'
<1>1. /\ Spend("faults") /\ frames' = << >> /\ deferred' = {}
      /\ connected' = FALSE /\ toPeer' = << >> /\ fromPeer' = << >>
      /\ UNCHANGED <<server, outbox, eventCursor, peerInbox>>
      /\ UNCHANGED <<mapped, chatCursor>> \/ MapListed
  BY DEF Crash, Restart
<1>2. ServerInv' /\ Extended /\ PeerKept /\ PeerInv'
  BY <1>1, SelfStep DEF Inv
<1>3. TablesInv'
  <2>1. eventCursor' \in Nat
    BY <1>1 DEF Inv, TablesInv
  <2>2. CASE MapListed
    BY <1>1, <1>2, <2>1, <2>2, MapListedInv DEF Inv
  <2>3. CASE UNCHANGED <<mapped, chatCursor>>
    BY <1>1, <1>2, <2>1, <2>3, ChatKept DEF Inv, TablesInv
  <2> QED
    BY <1>1, <2>2, <2>3
<1>4. frames' \in Seq(Frames')
  BY <1>1, <1>2, StackInv DEF Inv
<1>5. stray' \subseteq Messages
  <2> DEFINE posted == {frames[i].message : i \in {j \in DOMAIN frames : frames[j].step = "post"}}
  <2>1. PICK S \in SUBSET posted : stray' = stray \cup S
    BY DEF Crash, Restart
  <2>2. \A i \in DOMAIN frames : frames[i] \in Frames
    BY ElementOfSeq DEF Inv
  <2>3. posted \subseteq Messages
    BY <2>2 DEF Frames
  <2> QED
    BY <2>1, <2>3 DEF Inv, MemoryInv
<1>6. MemoryInv'
  <2>1. budget' \in [faults : Nat, connections : Nat]
    BY <1>1, BudgetKept DEF Inv
  <2>2. toPeer' \in Seq(Messages) /\ connected' \in BOOLEAN /\ deferred' \subseteq Messages
    BY <1>1, EmptySeq
  <2> QED
    BY <1>5, <2>1, <2>2 DEF MemoryInv
<1> QED
  BY <1>2, <1>3, <1>4, <1>6 DEF Inv

-----------------------------------------------------------------------------
(* The peer's device.                                                      *)

LEMMA KeepEffect ==
  ASSUME Inv, NEW m \in Messages, Keep(m)
  PROVE  PeerKept /\ peerInbox'[m] # "absent"
BY DEF Keep, PeerKept, Inv, PeerInv

LEMMA PeerReceivesInv ==
  ASSUME Inv, PeerReceives PROVE Inv'
<1>1. PICK m \in Messages : m = Head(toPeer)
  BY DEF PeerReceives, Inv, MemoryInv
<1>2. /\ Keep(m) /\ fromPeer' = Append(fromPeer, Receipt("received", m))
      /\ toPeer # << >> /\ toPeer' = Tail(toPeer)
      /\ UNCHANGED <<server, tables, frames, deferred, connected, stray, budget>>
  BY <1>1 DEF PeerReceives, Reply, memory
<1>3. PeerKept /\ peerInbox'[m] # "absent"
  BY <1>2, KeepEffect
<1>4. Extended /\ events' = events
  BY <1>2, ServerKept DEF Inv
<1>5. PeerInv'
  <2>1. Receipt("received", m) \in Receipts'
    BY <1>3 DEF Receipts, Receipt
  <2>2. TrueEvent([type |-> "message.created"])'
    BY DEF TrueEvent
  <2> QED
    BY <1>2, <1>3, <1>4, <2>1, <2>2, PeerStepInv DEF Inv
<1>6. TablesInv'
  BY <1>2, <1>3, <1>4, TablesKept DEF Inv
<1>7. frames' \in Seq(Frames')
  BY <1>2, <1>4, StackInv DEF Inv
<1>8. MemoryInv'
  BY <1>2 DEF Inv, MemoryInv
<1> QED
  BY <1>4, <1>5, <1>6, <1>7, <1>8 DEF Inv, Extended

LEMMA PeerSyncsInv ==
  ASSUME Inv, PeerSyncs PROVE Inv'
<1>1. PICK m \in Messages : DB!MarkDelivered(m, Peer, messages[m].seq) /\ Keep(m)
  BY DEF PeerSyncs
<1>2. UNCHANGED <<tables, frames, deferred, link, stray, budget>>
  BY DEF PeerSyncs, memory
<1>3. PeerKept /\ peerInbox'[m] # "absent"
  BY <1>1, KeepEffect
<1>4. /\ Extended
      /\ events' = events \/ events' = Append(events, DB!DeliveredEvent(m, Peer))
  BY <1>1, MarkEffect DEF Inv
<1>5. PeerInv'
  <2>1. TrueEvent(DB!DeliveredEvent(m, Peer))'
    BY <1>3 DEF TrueEvent, DB!DeliveredEvent
  <2> QED
    BY <1>2, <1>3, <1>4, <2>1, PeerStepInv DEF Inv, link
<1>6. TablesInv'
  BY <1>2, <1>3, <1>4, TablesKept DEF Inv
<1>7. frames' \in Seq(Frames')
  BY <1>2, <1>4, StackInv DEF Inv
<1>8. MemoryInv'
  BY <1>2 DEF Inv, MemoryInv, link
<1> QED
  BY <1>4, <1>5, <1>6, <1>7, <1>8 DEF Inv, Extended

LEMMA PeerReadsInv ==
  ASSUME Inv, PeerReads PROVE Inv'
<1>1. PICK m \in Messages :
        /\ peerInbox' = [peerInbox EXCEPT ![m] = "read"]
        /\ UNCHANGED fromPeer \/ fromPeer' = Append(fromPeer, Receipt("read", m))
  BY DEF PeerReads, Reply
<1>2. UNCHANGED <<server, tables, frames, deferred, connected, toPeer, stray, budget>>
  BY DEF PeerReads, memory
<1>3. PeerKept /\ peerInbox'[m] = "read"
  BY <1>1 DEF Inv, PeerInv, PeerKept
<1>4. Extended /\ events' = events
  BY <1>2, ServerKept DEF Inv
<1>5. PeerInv'
  <2>1. Receipt("read", m) \in Receipts'
    BY <1>3 DEF Receipts, Receipt
  <2>2. TrueEvent([type |-> "message.created"])'
    BY DEF TrueEvent
  <2> QED
    BY <1>1, <1>3, <1>4, <2>1, <2>2, PeerStepInv DEF Inv
<1>6. TablesInv'
  BY <1>2, <1>3, <1>4, TablesKept DEF Inv
<1>7. frames' \in Seq(Frames')
  BY <1>2, <1>4, StackInv DEF Inv
<1>8. MemoryInv'
  BY <1>2 DEF Inv, MemoryInv
<1> QED
  BY <1>4, <1>5, <1>6, <1>7, <1>8 DEF Inv, Extended

LEMMA PeerReportsInv ==
  ASSUME Inv, PeerReports PROVE Inv'
<1>1. PICK m \in Messages : peerInbox[m] = "read" /\ DB!MarkRead(m, Peer, messages[m].seq)
  BY DEF PeerReports
<1>2. UNCHANGED <<tables, frames, deferred, link, stray, peerInbox, budget>>
  BY DEF PeerReports, memory
<1>3. PeerKept
  BY <1>2 DEF PeerKept, Inv, PeerInv
<1>4. /\ Extended
      /\ events' = events \/ events' = Append(events, DB!ReadEvent(m, Peer))
  BY <1>1, MarkEffect DEF Inv
<1>5. PeerInv'
  <2>1. TrueEvent(DB!ReadEvent(m, Peer))'
    BY <1>1, <1>2 DEF TrueEvent, DB!ReadEvent
  <2> QED
    BY <1>2, <1>3, <1>4, <2>1, PeerStepInv DEF Inv, link
<1>6. TablesInv'
  BY <1>2, <1>3, <1>4, TablesKept DEF Inv
<1>7. frames' \in Seq(Frames')
  BY <1>2, <1>4, StackInv DEF Inv
<1>8. MemoryInv'
  BY <1>2 DEF Inv, MemoryInv, link
<1> QED
  BY <1>4, <1>5, <1>6, <1>7, <1>8 DEF Inv, Extended

-----------------------------------------------------------------------------
(* The theorems.                                                           *)

LEMMA InitInv == Init => Inv
<1> SUFFICES ASSUME Init PROVE Inv
  OBVIOUS
<1>1. Store!Init
  BY SameTables DEF Init
<1>2. Store!LogInv /\ Store!ShapeInv
  BY SelfSends, <1>1, Store!InitLogInv, Store!InitShapeInv
<1>3. events = << >> /\ Store!Stored = {}
  BY <1>1 DEF Store!Init, Store!Stored
<1>4. chatCursor <= Store!LatestSeq(Conversation)
  BY <1>3 DEF Init, Store!LatestSeq, Store!Seqs, Store!StoredIn
<1>5. EventsFindTheirMessage
  BY <1>3, SameTables DEF EventsFindTheirMessage, Init
<1>6. TablesInv
  BY <1>4, <1>5 DEF TablesInv, Init, ClaimsAreTrue
<1>7. PeerInv
  <2>1. fromPeer \in Seq(Receipts)
    BY EmptySeq DEF Init
  <2> QED
    BY <1>3, <2>1 DEF PeerInv, EventsAreTrue, Init
<1>8. frames \in Seq(Frames)
  BY EmptySeq DEF Init
<1>9. MemoryInv
  <2>1. toPeer \in Seq(Messages)
    BY EmptySeq DEF Init
  <2> QED
    BY <2>1, BoundsAssumption DEF MemoryInv, Init
<1> QED
  BY <1>2, <1>6, <1>7, <1>8, <1>9 DEF Inv, ServerInv

LEMMA NextInv == Inv /\ [Next]_vars => Inv'
<1> SUFFICES ASSUME Inv, [Next]_vars PROVE Inv'
  OBVIOUS
<1>1. CASE SendStep
  BY <1>1, SendViaServiceInv, SendViaP2PInv, SendNowhereInv DEF SendStep
<1>2. CASE HandlePost \/ HandleStrayPost \/ StartSweep
  BY <1>2, HandlePostInv, HandleStrayPostInv, StartSweepInv
<1>3. CASE HandlerStep
  BY <1>3, FinishPostInv, RetryViaServiceInv, RetryViaP2PInv, LeaveSweepInv DEF HandlerStep
<1>4. CASE \E m \in Messages : BackoffExpires(m)
  BY <1>4, BackoffExpiresInv
<1>5. CASE Connect \/ ReceiveReceipt
  BY <1>5, ConnectInv, ReceiveReceiptInv
<1>6. CASE RunStep
  BY <1>6, ConsumeEventsInv, SyncInv, ReconcileInv DEF RunStep
<1>7. CASE PeerStep \/ PeerReads
  BY <1>7, PeerReceivesInv, PeerSyncsInv, PeerReportsInv, PeerReadsInv DEF PeerStep
<1>8. CASE FaultStep
  BY <1>8, FailToFinishInv, LosePostInv, DisconnectInv, CrashInv DEF FaultStep
<1>9. CASE UNCHANGED vars
  BY <1>9, SweepStep, StackInv DEF vars, memory, link, Inv, MemoryInv
<1> QED
  BY <1>1, <1>2, <1>3, <1>4, <1>5, <1>6, <1>7, <1>8, <1>9 DEF Next

LEMMA Invariance == Spec => []Inv
BY InitInv, NextInv, PTL DEF Spec

\* The tables of the sender, the stack of its handlers, the channels and the service's
\* tables hold values of their types.
THEOREM TypeCorrect == Spec => []TypeOK
<1>1. ASSUME Inv PROVE TypeOK
  <2>1. DB!TypeOK
    BY <1>1, SameTables DEF Inv, ServerInv, Store!LogInv
  <2>2. frames \in Seq(Frame)
    <3>1. Frames \subseteq Frame
      BY DEF Frames
    <3> DEFINE S == Frames
               T == Frame
    <3>2. frames \in Seq(S) /\ S \subseteq T
      BY <1>1, <3>1 DEF Inv
    <3> HIDE DEF S, T
    <3>3. frames \in Seq(T)
      BY <3>2
    <3> QED
      BY <3>3 DEF T
  <2>3. fromPeer \in Seq([type : {"received", "read"}, message : Messages])
    <3> DEFINE S == Receipts
               T == [type : {"received", "read"}, message : Messages]
    <3>1. fromPeer \in Seq(S) /\ S \subseteq T
      BY <1>1 DEF Inv, PeerInv, Receipts
    <3> HIDE DEF S, T
    <3>2. fromPeer \in Seq(T)
      BY <3>1
    <3> QED
      BY <3>2 DEF T
  <2> QED
    BY <1>1, <2>1, <2>2, <2>3 DEF TypeOK, Inv, TablesInv, PeerInv, MemoryInv
<1> QED
  BY <1>1, Invariance, PTL

\* What Self shows of a message is true of the peer: markMessageServerAcked, the P2P
\* receipts and the service's events overwrite each other's states in any order, and none
\* of them says more than has happened.
THEOREM StatesAreTrue == Spec => []ClaimsAreTrue
<1>1. Inv => ClaimsAreTrue
  BY DEF Inv, TablesInv
<1> QED
  BY <1>1, Invariance, PTL

\* The events of the service find the mapping of their message: it is saved before the
\* message is marked, and the cursor of the conversation passes no message that the sync
\* has not mapped, whatever fails in between.
THEOREM EventsAreNotLost == Spec => []EventsFindTheirMessage
<1>1. Inv => EventsFindTheirMessage
  BY DEF Inv, TablesInv
<1> QED
  BY <1>1, Invariance, PTL
=============================================================================
