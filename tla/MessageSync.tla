----------------------------- MODULE MessageSync -----------------------------
(***************************************************************************)
(* One device, Self, that receives messages through the message service:   *)
(* runRemoteMessageSync of LeyoApplication with RemoteMessageEventConsumer, *)
(* RemoteMessageSyncCoordinator and MessageSyncService, the DatabaseWorker *)
(* that marks messages read, and the service's store                       *)
(* (MessageServiceDatabase), which other clients change at any time.       *)
(*                                                                         *)
(* Every HTTP call of the device runs a nested event loop on its GUI       *)
(* thread, so other handlers run while a call is in flight, and a handler  *)
(* that was interrupted continues only after the one that interrupted it.  *)
(* The worker has a thread and a database connection of its own.           *)
(*                                                                         *)
(* A page is applied in the step that fetches it: between the two, others  *)
(* only change rows that the page does not hold.  An acknowledgement       *)
(* changes the service, so its request and its reply are steps of their    *)
(* own.  Presence, the device's own messages, mutations, reactions and     *)
(* pins are not part of this module.                                       *)
(***************************************************************************)
EXTENDS Integers, Sequences, FiniteSets, FiniteSetsExt

CONSTANTS
  Clients, Conversations, Messages, Sender, Contents,
  Self,            \* the client whose device this is
  Home,            \* the conversation of each message
  DirectMessages,  \* messages that also arrive over P2P, by fallback
  PageLimit        \* of event pages and of message pages

CONSTANTS          \* bounds for model checking
  MaxEvents,         \* length of the service's event log
  MaxSessionEvents,  \* session events in it
  MaxLosses,         \* failed calls
  MaxServerErrors,   \* acknowledgements whose transaction fails
  MaxCrashes,        \* crashes of the device
  MaxOpenings        \* conversations opened by the user

ASSUME PeersAssumption == Self \in Clients /\ Sender \in [Messages -> Clients \ {Self}]
ASSUME HomeAssumption == Home \in [Messages -> Conversations]
ASSUME LimitsAssumption ==
  /\ PageLimit \in Nat \ {0}
  /\ {MaxLosses, MaxServerErrors, MaxCrashes, MaxOpenings} \subseteq Nat

VARIABLES
  \* the service's tables
  messages, deliveries, members, cursors, events,
  \* the device's tables
  inbox,            \* table messages: delivery_state
  mapped,           \* table remote_message_id_map
  chatCursor,       \* table remote_chat_cursors
  eventCursor,      \* table remote_message_event_cursors
  pendingDelivery,  \* table pending_remote_delivery_acks
  pendingRead,      \* table pending_remote_read_acks: read_seq of the queued ones
  \* the device's memory
  frames,           \* the handlers on the GUI thread's stack
  run,              \* runRemoteMessageSync
  reader,           \* the readReceiptsFlushed handler
  worker,           \* DatabaseWorker::flushReadReceipts
  due,              \* the next run reconciles
  budget            \* what is left of the bounds

DB == INSTANCE MessageServiceDatabase

server == <<messages, deliveries, members, cursors, events>>
tables == <<inbox, mapped, chatCursor, eventCursor, pendingDelivery, pendingRead>>
memory == <<frames, run, reader, worker, due>>
vars == <<server, tables, memory, budget>>

Local(c) == {m \in Messages : Home[m] = c /\ inbox[m] # "absent"}
NotQueued == -1

\* A flush works through the list of acknowledgements it loaded when it started.
NoReply == [message |-> "none"]
NoFlush == [acks |-> {}, reply |-> NoReply]
FlushOf(acks) == [acks |-> acks, reply |-> NoReply]
Outcomes == {"Acknowledged", "MessageNotFound"}

IdleRun ==
  [step |-> "idle", phase |-> "consume", todo |-> {}, failed |-> FALSE,
   listed |-> FALSE, nextEvent |-> 0, final |-> FALSE, flush |-> NoFlush]
IdleWorker == [step |-> "idle", conversation |-> "none", targets |-> {}, readSeq |-> 0]

Init ==
  /\ DB!Init
  /\ inbox = [m \in Messages |-> "absent"]
  /\ mapped = {}
  /\ chatCursor = [c \in Conversations |-> 0]
  /\ eventCursor = 0
  /\ pendingDelivery = {}
  /\ pendingRead = [m \in Messages |-> NotQueued]
  /\ frames = << >>
  /\ run = IdleRun
  /\ reader = NoFlush
  /\ worker = IdleWorker
  /\ due = TRUE
  /\ budget = [losses |-> MaxLosses, serverErrors |-> MaxServerErrors,
               crashes |-> MaxCrashes, openings |-> MaxOpenings]

\* Spends one unit of a bound.
Spend(kind) == budget[kind] > 0 /\ budget' = [budget EXCEPT ![kind] = @ - 1]

OnTop(frame) == frames # << >> /\ frames[Len(frames)] = frame
OnStack(frame) == \E i \in DOMAIN frames : frames[i] = frame
Push(frame) == frames' = Append(frames, frame)
Pop == frames' = SubSeq(frames, 1, Len(frames) - 1)

-----------------------------------------------------------------------------
(* Operators whose comment begins with "Faulty" are versions of the next   *)
(* definition with a plausible mistake, as in MessageServiceDatabase.       *)

(* The service, as other clients and sessions change it.                   *)

PeerPosts ==
  /\ Len(events) < MaxEvents
  /\ \E m \in Messages, b \in Contents, raw \in SUBSET Clients :
       DB!StoreMessage(m, Home[m], b, raw)
  /\ UNCHANGED <<tables, memory, budget>>

SessionChanges ==
  /\ Len(events) < MaxEvents /\ DB!SessionEventCount < MaxSessionEvents
  /\ \E u \in Clients, type \in {"session.online", "session.offline"} :
       DB!AppendSessionStatusEvent(type, u)
  /\ UNCHANGED <<tables, memory, budget>>

\* A message that the sender, when its post failed or its reply was lost, sent over
\* P2P to one of the recipients it knew.
DirectArrival(m) ==
  /\ m \in DirectMessages /\ inbox[m] = "absent"
  /\ messages[m] = DB!NoMessage \/ DB!HasRow(m, Self)
  /\ inbox' = [inbox EXCEPT ![m] = "received"]
  /\ UNCHANGED <<server, mapped, chatCursor, eventCursor, pendingDelivery, pendingRead,
                 memory, budget>>

-----------------------------------------------------------------------------
(* Flushing acknowledgements.                                              *)

\* flushPendingDeliveryAcks and flushPendingReadAcks load the queue first.
DeliveryAcks(queue) == [m \in queue |-> messages[m].seq]
QueuedReads == {m \in Messages : pendingRead[m] # NotQueued}
ReadAcks == [m \in QueuedReads |-> pendingRead[m]]
Loaded(acks) == FlushOf({[message |-> m, seq |-> acks[m]] : m \in DOMAIN acks})

\* The service answers 404 for a message without a row of this client, and when
\* the transaction of the acknowledgement fails.
Refuse(m) ==
  /\ \/ ~DB!CanMark(m, Self) /\ UNCHANGED budget
     \/ DB!CanMark(m, Self) /\ Spend("serverErrors")
  /\ UNCHANGED server

AcknowledgeDelivered(ack, outcome) ==
  \/ /\ outcome = "Acknowledged"
     /\ DB!MarkDelivered(ack.message, Self, ack.seq)
     /\ UNCHANGED budget
  \/ outcome = "MessageNotFound" /\ Refuse(ack.message)

AcknowledgeRead(ack, outcome) ==
  \/ /\ outcome = "Acknowledged"
     /\ DB!MarkRead(ack.message, Self, ack.seq)
     /\ UNCHANGED budget
  \/ outcome = "MessageNotFound" /\ Refuse(ack.message)

\* The flush after the service handled an acknowledgement.
Answered(flush, ack, outcome) ==
  [acks |-> flush.acks \ {ack}, reply |-> [message |-> ack.message, outcome |-> outcome]]

Awaiting(flush) == flush.reply # NoReply
Finished(flush) == flush = NoFlush

-----------------------------------------------------------------------------
(* A run of runRemoteMessageSync: consumeOnce, then the reconciliation if it *)
(* failed or is due.                                                       *)

Running(step) == OnTop("run") /\ run.step = step

\* Faulty: without the in-progress flag.
StartRunInRun ==
  /\ Push("run")
  /\ run' = [IdleRun EXCEPT !.step = "events"]
  /\ UNCHANGED <<server, tables, reader, worker, due, budget>>

\* The poll timer or the retry timer, in whatever event loop is the innermost.
StartRun ==
  /\ ~OnStack("run")
  /\ Push("run")
  /\ run' = [IdleRun EXCEPT !.step = "events"]
  /\ UNCHANGED <<server, tables, reader, worker, due, budget>>

EndRun ==
  /\ Pop
  /\ run' = IdleRun

\* listEvents: the conversations of the message.created events are to be synced.
ConsumeEvents ==
  /\ Running("events")
  /\ LET page == DB!ListMessageEventsAfterForClient(Self, eventCursor, PageLimit)
         created == {i \in page : events[i].type = "message.created"}
     IN  run' = [run EXCEPT
           !.step = "sync", !.phase = "consume",
           !.todo = {messages[events[i].message].conversation : i \in created},
           !.nextEvent = Max(page \cup {eventCursor})]
  /\ UNCHANGED <<server, tables, frames, reader, worker, due, budget>>

FailEvents ==
  /\ Running("events")
  /\ Spend("losses")
  /\ run' = [run EXCEPT !.step = "conversations"]
  /\ UNCHANGED <<server, tables, frames, reader, worker, due>>

\* Faulty: the page's cursor is the end of the conversation, not of the page.
LatestAfterSeq(c, page) == DB!LatestSeq(c)
\* nextAfterSeq of the page, and never less than the cursor.
NextAfterSeq(c, page) == Max({messages[m].seq : m \in page} \cup {chatCursor[c]})

\* enqueueIncomingDeliveryAck for each record, stored now or a duplicate.
QueueWith(page) == pendingDelivery \cup page

\* syncConversation: one transaction stores the page with its id mappings, queues
\* the delivery acknowledgements and moves the cursor; then the queue is flushed.
SyncConversation(c) ==
  /\ Running("sync") /\ c \in run.todo
  /\ DB!IsConversationMember(c, Self)
  /\ LET page == DB!ListMessagesAfterSeq(c, chatCursor[c], PageLimit)
         queue == QueueWith(page)
     IN
     /\ inbox' = [m \in Messages |->
          IF m \in page /\ inbox[m] = "absent" THEN "received" ELSE inbox[m]]
     /\ mapped' = mapped \cup page
     /\ pendingDelivery' = queue
     /\ chatCursor' = [chatCursor EXCEPT ![c] = NextAfterSeq(c, page)]
     /\ run' = [run EXCEPT !.step = "ackDelivered", !.todo = @ \ {c}, !.final = FALSE,
                           !.flush = Loaded(DeliveryAcks(queue))]
  /\ UNCHANGED <<server, eventCursor, pendingRead, frames, reader, worker, due, budget>>

\* 403 for a client that is no member, a lost call, or a failed transaction.
FailConversation(c) ==
  /\ Running("sync") /\ c \in run.todo
  /\ \/ ~DB!IsConversationMember(c, Self) /\ UNCHANGED budget
     \/ Spend("losses")
  /\ run' = [run EXCEPT !.todo = @ \ {c}, !.failed = TRUE]
  /\ UNCHANGED <<server, tables, frames, reader, worker, due>>

\* consumeOnce flushes both queues whatever failed, syncDirectConversations only if
\* nothing did; otherwise the run ends and the retry timer starts.
SyncedAll ==
  /\ Running("sync") /\ run.todo = {}
  /\ IF run.phase = "reconcile" /\ run.failed
     THEN EndRun
     ELSE /\ run' = [run EXCEPT !.step = "ackDelivered", !.final = TRUE,
                                !.flush = Loaded(DeliveryAcks(pendingDelivery))]
          /\ UNCHANGED frames
  /\ UNCHANGED <<server, tables, reader, worker, due, budget>>

SendDeliveredAck ==
  /\ Running("ackDelivered") /\ ~Awaiting(run.flush)
  /\ \E ack \in run.flush.acks, outcome \in Outcomes :
       /\ AcknowledgeDelivered(ack, outcome)
       /\ run' = [run EXCEPT !.flush = Answered(@, ack, outcome)]
  /\ UNCHANGED <<tables, frames, reader, worker, due>>

\* Acknowledged and MessageNotFound both end the wait: the entry is deleted.
DeliveredAckReply ==
  /\ Running("ackDelivered") /\ Awaiting(run.flush)
  /\ pendingDelivery' = pendingDelivery \ {run.flush.reply.message}
  /\ run' = [run EXCEPT !.flush = FlushOf(@.acks)]
  /\ UNCHANGED <<server, inbox, mapped, chatCursor, eventCursor, pendingRead,
                 frames, reader, worker, due, budget>>

\* Faulty: the entry is deleted before the request is sent.
LoseAckWithEntry ==
  /\ Running("ackDelivered") \/ Running("ackRead")
  /\ ~Finished(run.flush)
  /\ Spend("losses")
  /\ \E ack \in run.flush.acks : pendingDelivery' = pendingDelivery \ {ack.message}
  /\ run' = [run EXCEPT !.flush = NoFlush]
  /\ UNCHANGED <<server, inbox, mapped, chatCursor, eventCursor, pendingRead,
                 frames, reader, worker, due>>

\* A request or a reply is lost: the flush stops and the queue keeps the rest.
LoseAck ==
  /\ Running("ackDelivered") \/ Running("ackRead")
  /\ ~Finished(run.flush)
  /\ Spend("losses")
  /\ run' = [run EXCEPT !.flush = NoFlush]
  /\ UNCHANGED <<server, tables, frames, reader, worker, due>>

DeliveredAcksDone ==
  /\ Running("ackDelivered") /\ Finished(run.flush)
  /\ run' = IF run.final
            THEN [run EXCEPT !.step = "ackRead", !.flush = Loaded(ReadAcks)]
            ELSE [run EXCEPT !.step = "sync"]
  /\ UNCHANGED <<server, tables, frames, reader, worker, due, budget>>

SendReadAck ==
  /\ Running("ackRead") /\ ~Awaiting(run.flush)
  /\ \E ack \in run.flush.acks, outcome \in Outcomes :
       /\ AcknowledgeRead(ack, outcome)
       /\ run' = [run EXCEPT !.flush = Answered(@, ack, outcome)]
  /\ UNCHANGED <<tables, frames, reader, worker, due>>

\* deletePendingRemoteReadAck deletes by message, whatever read_seq is queued now.
ReadAckReply ==
  /\ Running("ackRead") /\ Awaiting(run.flush)
  /\ pendingRead' = [pendingRead EXCEPT ![run.flush.reply.message] = NotQueued]
  /\ run' = [run EXCEPT !.flush = FlushOf(@.acks)]
  /\ UNCHANGED <<server, inbox, mapped, chatCursor, eventCursor, pendingDelivery,
                 frames, reader, worker, due, budget>>

\* consumeOnce saves the event cursor even if a conversation failed; a reconciliation
\* that listed the conversations and synced them all is done for five minutes.
ReadAcksDone ==
  /\ Running("ackRead") /\ Finished(run.flush)
  /\ \/ /\ run.phase = "consume"
        /\ eventCursor' = run.nextEvent
        /\ run' = [run EXCEPT !.step = "heartbeat"]
        /\ UNCHANGED <<frames, due>>
     \/ /\ run.phase = "reconcile"
        /\ due' = (due /\ ~run.listed)
        /\ EndRun
        /\ UNCHANGED eventCursor
  /\ UNCHANGED <<server, inbox, mapped, chatCursor, pendingDelivery, pendingRead,
                 reader, worker, budget>>

Heartbeat ==
  /\ Running("heartbeat")
  /\ IF run.failed \/ due
     THEN run' = [run EXCEPT !.step = "conversations"] /\ UNCHANGED frames
     ELSE EndRun
  /\ UNCHANGED <<server, tables, reader, worker, due, budget>>

FailHeartbeat ==
  /\ Running("heartbeat")
  /\ Spend("losses")
  /\ run' = [run EXCEPT !.step = "conversations"]
  /\ UNCHANGED <<server, tables, frames, reader, worker, due>>

\* Faulty: the reconciliation takes only the conversations the device knows.
ListLocalConversations ==
  /\ Running("conversations")
  /\ LET todo == {c \in Conversations : Local(c) # {}} IN
       IF todo = {}
       THEN EndRun /\ due' = FALSE
       ELSE /\ run' = [run EXCEPT !.step = "sync", !.phase = "reconcile", !.todo = todo,
                                  !.failed = FALSE, !.listed = TRUE]
            /\ UNCHANGED <<frames, due>>
  /\ UNCHANGED <<server, tables, reader, worker, budget>>

\* The reconciliation takes the conversations the service lists, or, if the call
\* fails, those the device knows.
ListConversations ==
  /\ Running("conversations")
  /\ \E listed \in BOOLEAN :
       LET todo == IF listed THEN DB!ListConversationsForMember(Self)
                   ELSE {c \in Conversations : Local(c) # {}}
       IN
       /\ IF listed THEN UNCHANGED budget ELSE Spend("losses")
       /\ IF todo = {}
          THEN EndRun /\ due' = (due /\ ~listed)
          ELSE /\ run' = [run EXCEPT !.step = "sync", !.phase = "reconcile", !.todo = todo,
                                     !.failed = FALSE, !.listed = listed]
               /\ UNCHANGED <<frames, due>>
  /\ UNCHANGED <<server, tables, reader, worker>>

RunStep ==
  \/ StartRun \/ ConsumeEvents \/ FailEvents
  \/ \E c \in Conversations : SyncConversation(c) \/ FailConversation(c)
  \/ SyncedAll
  \/ SendDeliveredAck \/ DeliveredAckReply \/ LoseAck \/ DeliveredAcksDone
  \/ SendReadAck \/ ReadAckReply \/ ReadAcksDone
  \/ Heartbeat \/ FailHeartbeat \/ ListConversations

\* Five minutes after the last reconciliation.
BecomeDue ==
  /\ ~due
  /\ due' = TRUE
  /\ UNCHANGED <<server, tables, frames, run, reader, worker, budget>>

-----------------------------------------------------------------------------
(* Reading: the user opens a conversation, and the worker marks it read.   *)

\* Also called for a visible conversation that a run has synced.
\* loadMessages: the messages that will need a read acknowledgement.
OpenConversation(c) ==
  /\ worker.step = "idle"
  /\ Spend("openings")
  /\ worker' = [IdleWorker EXCEPT
       !.step = "consume", !.conversation = c,
       !.targets = {m \in Local(c) : inbox[m] = "received"}]
  /\ UNCHANGED <<server, tables, frames, run, reader, due>>

\* consumeConversationUnread: one transaction marks what is received by now.
ConsumeUnread ==
  LET unread == {m \in Local(worker.conversation) : inbox[m] = "received"} IN
  /\ worker.step = "consume"
  /\ inbox' = [m \in Messages |-> IF m \in unread THEN "read" ELSE inbox[m]]
  /\ worker' = [worker EXCEPT !.step = IF unread # {} THEN "cursor" ELSE "done"]
  /\ UNCHANGED <<server, mapped, chatCursor, eventCursor, pendingDelivery, pendingRead,
                 frames, run, reader, due, budget>>

\* Faulty: the read sequence number is the service's newest.
LoadLatestSeq ==
  /\ worker.step = "cursor"
  /\ worker' = [worker EXCEPT !.step = "enqueue",
                              !.readSeq = DB!LatestSeq(worker.conversation)]
  /\ UNCHANGED <<server, tables, frames, run, reader, due, budget>>

LoadReadSeq ==
  /\ worker.step = "cursor"
  /\ worker' = [worker EXCEPT !.step = "enqueue", !.readSeq = chatCursor[worker.conversation]]
  /\ UNCHANGED <<server, tables, frames, run, reader, due, budget>>

\* A target without a mapping is passed over.
EnqueueReadAck(m) ==
  /\ worker.step = "enqueue" /\ m \in worker.targets
  /\ pendingRead' = IF m \in mapped THEN [pendingRead EXCEPT ![m] = worker.readSeq]
                    ELSE pendingRead
  /\ worker' = [worker EXCEPT !.targets = @ \ {m}]
  /\ UNCHANGED <<server, inbox, mapped, chatCursor, eventCursor, pendingDelivery,
                 frames, run, reader, due, budget>>

\* readReceiptsFlushed: the handler flushes the queue, unless the user has left the
\* conversation or the service was not reachable lately.
HandleFlushed ==
  /\ \/ worker.step = "enqueue" /\ worker.targets = {}
     \/ worker.step = "done"
  /\ worker' = IdleWorker
  /\ \/ /\ ~OnStack("reader")
        /\ Push("reader")
        /\ reader' = Loaded(ReadAcks)
     \/ UNCHANGED <<frames, reader>>
  /\ UNCHANGED <<server, tables, run, due, budget>>

WorkerStep ==
  \/ ConsumeUnread \/ LoadReadSeq \/ HandleFlushed
  \/ \E m \in Messages : EnqueueReadAck(m)

HandlerSends ==
  /\ OnTop("reader") /\ ~Awaiting(reader)
  /\ \E ack \in reader.acks, outcome \in Outcomes :
       /\ AcknowledgeRead(ack, outcome)
       /\ reader' = Answered(reader, ack, outcome)
  /\ UNCHANGED <<tables, frames, run, worker, due>>

HandlerReply ==
  /\ OnTop("reader") /\ Awaiting(reader)
  /\ pendingRead' = [pendingRead EXCEPT ![reader.reply.message] = NotQueued]
  /\ reader' = FlushOf(reader.acks)
  /\ UNCHANGED <<server, inbox, mapped, chatCursor, eventCursor, pendingDelivery,
                 frames, run, worker, due, budget>>

\* Faulty: the entry is deleted although the call failed.
HandlerLosesAckWithEntry ==
  /\ OnTop("reader") /\ ~Finished(reader)
  /\ Spend("losses")
  /\ pendingRead' = [m \in Messages |->
       IF \E ack \in reader.acks : ack.message = m THEN NotQueued ELSE pendingRead[m]]
  /\ reader' = NoFlush
  /\ UNCHANGED <<server, inbox, mapped, chatCursor, eventCursor, pendingDelivery,
                 frames, run, worker, due>>

HandlerLosesAck ==
  /\ OnTop("reader") /\ ~Finished(reader)
  /\ Spend("losses")
  /\ reader' = NoFlush
  /\ UNCHANGED <<server, tables, frames, run, worker, due>>

HandlerDone ==
  /\ OnTop("reader") /\ Finished(reader)
  /\ Pop
  /\ UNCHANGED <<server, tables, run, reader, worker, due, budget>>

HandlerStep == HandlerSends \/ HandlerReply \/ HandlerLosesAck \/ HandlerDone

-----------------------------------------------------------------------------
\* The device's tables survive, its memory does not.
Crash ==
  /\ Spend("crashes")
  /\ frames' = << >>
  /\ run' = IdleRun
  /\ reader' = NoFlush
  /\ worker' = IdleWorker
  /\ due' = TRUE
  /\ UNCHANGED <<server, tables>>

Next ==
  \/ PeerPosts
  \/ SessionChanges
  \/ \E m \in Messages : DirectArrival(m)
  \/ RunStep
  \/ BecomeDue
  \/ \E c \in Conversations : OpenConversation(c)
  \/ WorkerStep
  \/ HandlerStep
  \/ Crash

Spec == Init /\ [][Next]_vars

\* Timers fire, calls end by a reply or a timeout, and the worker's queue moves.
\* Nothing forces a peer, a user, a loss or a crash.
Fairness == WF_vars(RunStep) /\ WF_vars(BecomeDue) /\ WF_vars(WorkerStep) /\ WF_vars(HandlerStep)

FairSpec == Spec /\ Fairness

-----------------------------------------------------------------------------
(* Properties.                                                             *)

Owned == {m \in Messages : messages[m] # DB!NoMessage /\ DB!HasRow(m, Self)}
RowState(m) == deliveries[m][Self].state

\* The tables, the stack, the run and the store hold values of their types.
TypeOK ==
  /\ DB!TypeOK
  /\ inbox \in [Messages -> {"absent", "received", "read"}]
  /\ mapped \in SUBSET Messages
  /\ chatCursor \in [Conversations -> Nat]
  /\ eventCursor \in 0..Len(events)
  /\ pendingDelivery \in SUBSET Messages
  /\ pendingRead \in [Messages -> Nat \cup {NotQueued}]
  /\ Len(frames) <= 2
  /\ run.todo \in SUBSET Conversations
  /\ due \in BOOLEAN

\* A conversation cursor is moved only together with the messages it passes: every
\* message at or below it is on the device and mapped to its server id.
NothingIsSkipped ==
  \A m \in Messages :
    messages[m] # DB!NoMessage /\ messages[m].seq <= chatCursor[Home[m]] =>
      inbox[m] # "absent" /\ m \in mapped

\* The service never hears of a delivery before the message is in the device's
\* database, nor of a read before it was marked read there; a crash between the two
\* loses no message that the sender believes delivered.
ServiceIsNotAhead ==
  \A m \in Messages :
    /\ RowState(m) \in {"delivered", "read"} => inbox[m] # "absent"
    /\ RowState(m) = "read" => inbox[m] = "read"

\* Every synced message that is still pending at the service is queued for a delivery
\* acknowledgement: lost replies, timeouts and crashes do not make the device forget.
PendingRowsAreQueued ==
  \A m \in Owned : m \in mapped /\ RowState(m) = "pending" => m \in pendingDelivery

\* The service does not count as read, by its cursor, a message beyond those synced,
\* and what is queued to be reported read is read.
ReadQueueIsTrue ==
  \A m \in Messages :
    /\ pendingRead[m] # NotQueued => inbox[m] = "read" /\ m \in mapped
    /\ pendingRead[m] <= chatCursor[Home[m]]
    /\ cursors[Home[m]][Self].read <= chatCursor[Home[m]]

\* What the device says of a message is what it has done with it.
ReportsAreTrue == ServiceIsNotAhead /\ ReadQueueIsTrue

\* Every message addressed to this client reaches the device and is acknowledged,
\* although events, pages and acknowledgements are lost and the device crashes.
EventuallyDelivered ==
  \A m \in Messages :
    (m \in Owned) ~> inbox[m] # "absent" /\ RowState(m) \in {"delivered", "read"}

\* What the device queued as read is eventually read at the service.
EventuallyReported ==
  \A m \in Messages : pendingRead[m] # NotQueued ~> RowState(m) = "read"
=============================================================================
