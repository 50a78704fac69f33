------------------------- MODULE DirectMessageSender -------------------------
(***************************************************************************)
(* The device of Self sends text messages to one Peer in their direct      *)
(* conversation: the composer's send handler, the sweep that retries what  *)
(* is still pending, ReliableDirectMessageSender below both, the P2P       *)
(* connection with its receipts, and the run that consumes the service's   *)
(* delivered and read events.  The service is its store,                   *)
(* MessageServiceDatabase; the peer's device is the environment.           *)
(*                                                                         *)
(* Every HTTP call spins a nested event loop on the GUI thread: frames is  *)
(* the stack of the handlers that wait in one.  The service answers any of *)
(* them, but only the top one continues.  A message has one fixed id and   *)
(* body, and the query of the peer's capabilities, whose answer is cached, *)
(* is one of the things that make the service usable or not.               *)
(***************************************************************************)
EXTENDS Integers, Sequences, FiniteSets, FiniteSetsExt, SequencesExt

CONSTANTS
  Self, Peer, Messages, Conversation,
  Mode,              \* RemoteChatTransportMode
  AllowP2PFallback   \* RemoteChatServiceSettings::allowP2PFallback

CONSTANTS            \* bounds for model checking
  MaxFaults,         \* lost calls, outages, failed writes, disconnections, crashes
  MaxConnections,    \* P2P connections with a hello
  MaxInFlight        \* copies, or receipts, on their way

ASSUME TwoParties == Self # Peer
ASSUME MessagesAssumption == IsFiniteSet(Messages)
ASSUME ModeAssumption ==
  Mode \in {"P2POnly", "ServerPreferred", "ServerOnly"} /\ AllowP2PFallback \in BOOLEAN
ASSUME BoundsAssumption == MaxFaults \in Nat /\ MaxConnections \in Nat

VARIABLES
  \* the service's tables
  messages, deliveries, members, cursors, events,
  \* the tables of Self
  outbox,        \* table messages: delivery_state
  mapped,        \* table remote_message_id_map
  chatCursor,    \* table remote_chat_cursors, of the conversation
  eventCursor,   \* table remote_message_event_cursors
  \* the memory of Self
  frames,        \* the handlers on the GUI thread's stack
  deferred,      \* the messages whose pendingDirectRetryNotBeforeMs is to come
  \* the environment
  connected, toPeer, fromPeer,   \* the P2P connection and what is in flight on it
  stray,         \* posts the service may still handle though nobody waits for them
  peerInbox,     \* what the peer's device has and has read
  budget         \* what is left of the bounds

server == <<messages, deliveries, members, cursors, events>>
tables == <<outbox, mapped, chatCursor, eventCursor>>
memory == <<frames, deferred>>
link == <<connected, toPeer, fromPeer>>
vars == <<server, tables, memory, link, stray, peerInbox, budget>>

DB == INSTANCE MessageServiceDatabase WITH
  Clients <- {Self, Peer}, Conversations <- {Conversation},
  Sender <- [m \in Messages |-> Self], Contents <- {"text"},
  MaxEvents <- 0, MaxSessionEvents <- 0   \* of DB!Next, which is not used here

Pending == {m \in Messages : outbox[m] = "pending"}

\* usable and linked are what a handler learnt when it began: the service is configured,
\* reachable and serves the peer, and there is a connection (FALSE once that one is lost).
Nothing == [of |-> "nothing"]
SendFrame(m, linked) ==
  [handler |-> "send", step |-> "post", message |-> m, todo |-> {},
   usable |-> TRUE, linked |-> linked, next |-> 0]
SweepFrame(todo, usable, linked) ==
  [handler |-> "sweep", step |-> "query", message |-> Nothing, todo |-> todo,
   usable |-> usable, linked |-> linked, next |-> 0]
RunFrame(next) ==
  [handler |-> "run", step |-> "sync", message |-> Nothing, todo |-> {},
   usable |-> TRUE, linked |-> FALSE, next |-> next]

Init ==
  /\ DB!Init
  /\ outbox = [m \in Messages |-> "absent"]
  /\ mapped = {}
  /\ chatCursor = 0 /\ eventCursor = 0
  /\ frames = << >> /\ deferred = {}
  /\ connected = FALSE /\ toPeer = << >> /\ fromPeer = << >>
  /\ stray = {}
  /\ peerInbox = [m \in Messages |-> "absent"]
  /\ budget = [faults |-> MaxFaults, connections |-> MaxConnections]

Spend(kind) == budget[kind] > 0 /\ budget' = [budget EXCEPT ![kind] = @ - 1]

Top == frames[Len(frames)]
OnTop(step) == frames # << >> /\ Top.step = step
OnStack(handler) == \E i \in DOMAIN frames : frames[i].handler = handler
\* The event loop runs: no handler is between two calls of its own.
Interruptible == ~OnTop("retry")
Push(frame) == frames' = Append(frames, frame)
Pop == frames' = Front(frames)
Continue(frame) == frames' = [frames EXCEPT ![Len(frames)] = frame]

-----------------------------------------------------------------------------
(* An operator whose comment begins with "Faulty" is a version of the next *)
(* definition with a plausible mistake, as in MessageServiceDatabase.      *)

(* TransportPolicy::chooseDirectTextChannel and mayFallbackToP2P.          *)

MayUseP2P == Mode = "P2POnly" \/ (Mode = "ServerPreferred" /\ AllowP2PFallback)
ChoosesService(usable) == Mode # "P2POnly" /\ usable
ChoosesP2P(usable, linked) == ~ChoosesService(usable) /\ MayUseP2P /\ linked
MayFallBack(linked) == MayUseP2P /\ linked

\* What a handler learns of the service; an outage is a fault.
Probe(usable) ==
  \/ usable /\ UNCHANGED budget
  \/ ~usable /\ Spend("faults")

\* The p2pSendCallback: a copy on the socket.
Transmit(m) == toPeer' = Append(toPeer, m)
Room(queue) == Len(queue) < MaxInFlight

-----------------------------------------------------------------------------
(* The composer: createOutgoingMessage, then sendPersistedText.            *)

Create(m) == outbox[m] = "absent" /\ outbox' = [outbox EXCEPT ![m] = "pending"]

SendViaService(m) ==
  /\ Interruptible /\ Create(m)
  /\ ChoosesService(TRUE)
  /\ \E linked \in {connected, FALSE} : Push(SendFrame(m, linked))
  /\ UNCHANGED <<server, mapped, chatCursor, eventCursor, deferred, link, stray,
                 peerInbox, budget>>

\* Faulty: requireP2PDeliveryReceipt is FALSE, so the copy on the socket counts.
SendViaP2PAsSent(m) ==
  /\ Interruptible /\ outbox[m] = "absent"
  /\ outbox' = [outbox EXCEPT ![m] = "sent"]
  /\ connected /\ Room(toPeer) /\ Transmit(m)
  /\ \E usable \in BOOLEAN : Probe(usable) /\ ChoosesP2P(usable, TRUE)
  /\ UNCHANGED <<server, mapped, chatCursor, eventCursor, memory, connected, fromPeer,
                 stray, peerInbox>>

\* The message stays pending until its receipt arrives.
SendViaP2P(m) ==
  /\ Interruptible /\ Create(m)
  /\ connected /\ Room(toPeer) /\ Transmit(m)
  /\ \E usable \in BOOLEAN : Probe(usable) /\ ChoosesP2P(usable, TRUE)
  /\ UNCHANGED <<server, mapped, chatCursor, eventCursor, memory, connected, fromPeer,
                 stray, peerInbox>>

SendNowhere(m) ==
  /\ Interruptible /\ Create(m)
  /\ \E usable \in BOOLEAN :
       Probe(usable) /\ ~ChoosesService(usable) /\ ~ChoosesP2P(usable, connected)
  /\ UNCHANGED <<server, mapped, chatCursor, eventCursor, memory, link, stray, peerInbox>>

-----------------------------------------------------------------------------
(* sendViaMessageService, for the composer and for the sweep.              *)

Post(m) == DB!StoreMessage(m, Conversation, "text", {Peer})

\* The service handles a post, whichever frame waits for it.
HandlePost ==
  /\ \E i \in DOMAIN frames :
       /\ frames[i].step = "post"
       /\ Post(frames[i].message)
       /\ frames' = [frames EXCEPT ![i].step = "reply"]
  /\ UNCHANGED <<tables, deferred, link, stray, peerInbox, budget>>

HandleStrayPost ==
  /\ \E m \in stray : Post(m) /\ stray' = stray \ {m}
  /\ UNCHANGED <<tables, memory, link, peerInbox, budget>>

\* The attempt ends: the composer's handler returns; a sweep goes on after a success
\* and gives up after a failure. A success over the service clears the backoff, any
\* other end of a sweep's attempt starts it.
Succeed ==
  \/ /\ Top.handler = "send" /\ Pop
     /\ UNCHANGED deferred
  \/ /\ Top.handler = "sweep"
     /\ Continue([Top EXCEPT !.step = "retry", !.message = Nothing, !.todo = @ \ {Top.message}])
     /\ deferred' = deferred \ {Top.message}

Fail ==
  /\ Pop
  /\ deferred' = IF Top.handler = "sweep" THEN deferred \cup {Top.message} ELSE deferred

FellBack ==
  \/ /\ Top.handler = "send" /\ Pop
     /\ UNCHANGED deferred
  \/ /\ Top.handler = "sweep"
     /\ Continue([Top EXCEPT !.step = "retry", !.message = Nothing, !.todo = @ \ {Top.message}])
     /\ deferred' = deferred \cup {Top.message}

\* Faulty: the message is marked although the mapping could not be saved.
FinishMarkingFirst ==
  /\ OnTop("reply")
  /\ mapped' \in {mapped, mapped \cup {Top.message}}
  /\ outbox' = [outbox EXCEPT ![Top.message] = "serverAcked"]
  /\ Succeed
  /\ UNCHANGED <<server, chatCursor, eventCursor, link, stray, peerInbox, budget>>

\* The reply: saveRemoteMessageIdMapping, then markMessageServerAcked, which
\* overwrites whatever the state has become in the meantime.
FinishPost ==
  /\ OnTop("reply")
  /\ mapped' = mapped \cup {Top.message}
  /\ outbox' = [outbox EXCEPT ![Top.message] = "serverAcked"]
  /\ Succeed
  /\ UNCHANGED <<server, chatCursor, eventCursor, link, stray, peerInbox, budget>>

\* AcceptedButLocalFinalizeFailed: one of the two writes fails; no fallback to P2P.
FailToFinish ==
  /\ OnTop("reply") /\ Spend("faults")
  /\ mapped' \in {mapped, mapped \cup {Top.message}}
  /\ Fail
  /\ UNCHANGED <<server, outbox, chatCursor, eventCursor, link, stray, peerInbox>>

\* Faulty: a call that timed out counts as accepted.
AcceptLostPost ==
  /\ OnTop("post") \/ OnTop("reply")
  /\ Spend("faults")
  /\ outbox' = [outbox EXCEPT ![Top.message] = "serverAcked"]
  /\ Succeed
  /\ UNCHANGED <<server, mapped, chatCursor, eventCursor, link, stray, peerInbox>>

\* Faulty: a message is given up after its first failed attempt.
GiveUpLostPost ==
  /\ OnTop("post") \/ OnTop("reply")
  /\ Spend("faults")
  /\ outbox' = [outbox EXCEPT ![Top.message] = "failed"]
  /\ Fail
  /\ UNCHANGED <<server, mapped, chatCursor, eventCursor, link, stray, peerInbox>>

\* FailedBeforeAck: the request or the reply is lost or late, or the service fails.
\* What the service got it may still handle. Then the fallback, if the connection that
\* the handler knows is still there.
LosePost ==
  /\ OnTop("post") \/ OnTop("reply")
  /\ Spend("faults")
  /\ \/ UNCHANGED stray
     \/ OnTop("post") /\ stray' = stray \cup {Top.message}
  /\ \/ MayFallBack(Top.linked) /\ Transmit(Top.message) /\ FellBack
     \/ ~MayFallBack(Top.linked) /\ UNCHANGED toPeer /\ Fail
  /\ UNCHANGED <<server, tables, connected, fromPeer, peerInbox>>

-----------------------------------------------------------------------------
(* retryPendingDirectMessagesForAvailableRoute, of runPendingDeliverySweep. *)

\* The list of messages to try is loaded once; retryText does not look at their
\* states again.
StartSweep ==
  /\ Interruptible /\ ~OnStack("sweep") /\ Room(toPeer)
  /\ Pending \ deferred # {}
  /\ \E usable \in BOOLEAN :
       Probe(usable) /\ Push(SweepFrame(Pending \ deferred, usable, connected))
  /\ UNCHANGED <<server, tables, deferred, link, stray, peerInbox>>

Sweeping == OnTop("query") \/ OnTop("retry")
Retryable == Top.todo \ deferred

RetryViaService ==
  /\ Sweeping /\ ChoosesService(Top.usable)
  /\ \E m \in Retryable : Continue([Top EXCEPT !.step = "post", !.message = m])
  /\ UNCHANGED <<server, tables, deferred, link, stray, peerInbox, budget>>

RetryViaP2P ==
  /\ Sweeping /\ ChoosesP2P(Top.usable, Top.linked)
  /\ \E m \in Retryable :
       /\ Transmit(m)
       /\ deferred' = deferred \cup {m}
       /\ Continue([Top EXCEPT !.step = "retry", !.todo = @ \ {m}])
  /\ UNCHANGED <<server, tables, connected, fromPeer, stray, peerInbox, budget>>

RetryNowhere ==
  /\ Sweeping /\ ~ChoosesService(Top.usable) /\ ~ChoosesP2P(Top.usable, Top.linked)
  /\ \E m \in Retryable : deferred' = deferred \cup {m}
  /\ Pop
  /\ UNCHANGED <<server, tables, link, stray, peerInbox, budget>>

EndSweep ==
  /\ Sweeping /\ Retryable = {}
  /\ Pop
  /\ UNCHANGED <<server, tables, deferred, link, stray, peerInbox, budget>>

\* A sweep under way compares with the time it began at and still skips the message.
BackoffExpires(m) ==
  /\ m \in deferred /\ deferred' = deferred \ {m}
  /\ frames' = [i \in DOMAIN frames |-> [frames[i] EXCEPT !.todo = @ \ {m}]]
  /\ UNCHANGED <<server, tables, link, stray, peerInbox, budget>>

-----------------------------------------------------------------------------
(* The P2P connection.                                                     *)

\* A connection, its hello and flushPendingMessagesForTarget: every pending message is
\* sent, in mode P2POnly, and backed off.
Connect ==
  /\ Interruptible /\ ~connected /\ Spend("connections")
  /\ connected' = TRUE
  /\ toPeer' = SetToSeq(Pending)
  /\ deferred' = deferred \cup Pending
  /\ UNCHANGED <<server, tables, frames, fromPeer, stray, peerInbox>>

Disconnect ==
  /\ connected /\ Spend("faults")
  /\ connected' = FALSE /\ toPeer' = << >> /\ fromPeer' = << >>
  /\ frames' = [i \in DOMAIN frames |-> [frames[i] EXCEPT !.linked = FALSE]]
  /\ UNCHANGED <<server, tables, deferred, stray, peerInbox>>

Receipt(type, m) == [type |-> type, message |-> m]

\* Both receipts write the state as it comes.
ReceiveReceipt ==
  /\ Interruptible /\ fromPeer # << >>
  /\ outbox' = [outbox EXCEPT ![Head(fromPeer).message] = Head(fromPeer).type]
  /\ fromPeer' = Tail(fromPeer)
  /\ UNCHANGED <<server, mapped, chatCursor, eventCursor, memory, connected, toPeer,
                 stray, peerInbox, budget>>

-----------------------------------------------------------------------------
(* runRemoteMessageSync on the sender's device.  It begins here with the   *)
(* answer of listEvents: a run that still waits for it has done nothing.   *)

\* updateDeliveryStatePreservingRead for the events of one message, in their order.
StateAfter(state, types) ==
  IF "message.read" \in types THEN "read"
  ELSE IF "message.delivered" \in types /\ state # "read" THEN "received"
  ELSE state

\* applyDeliveredEvent and applyReadEvent pass over a message without a mapping.
ApplyStateEvents(page) ==
  outbox' = [m \in Messages |->
    IF m \in mapped
      THEN StateAfter(outbox[m], {events[i].type : i \in {j \in page : events[j].message = m}})
      ELSE outbox[m]]

\* The page is one the service had when it answered, perhaps some time ago. Its state
\* events come first. If a message was created the conversation is synced next.
ConsumeEvents ==
  /\ Interruptible /\ ~OnStack("run")
  /\ \E limit \in 1..Len(events) :
       LET page == DB!ListMessageEventsAfterForClient(Self, eventCursor, limit)
           last == Max(page \cup {eventCursor})
       IN  /\ page # {}
           /\ ApplyStateEvents(page)
           /\ IF \E i \in page : events[i].type = "message.created"
                THEN Push(RunFrame(last)) /\ UNCHANGED eventCursor
                ELSE eventCursor' = last /\ UNCHANGED frames
  /\ UNCHANGED <<server, mapped, chatCursor, deferred, link, stray, peerInbox, budget>>

\* syncConversation: the device's own messages exist already and get their mapping.
MapListed ==
  LET page == DB!ListMessagesAfterSeq(Conversation, chatCursor, Cardinality(Messages)) IN
  /\ mapped' = mapped \cup page
  /\ chatCursor' = Max({messages[m].seq : m \in page} \cup {chatCursor})

\* The event cursor is saved whether or not the sync succeeded.
Sync ==
  /\ OnTop("sync")
  /\ \/ MapListed /\ UNCHANGED budget
     \/ Spend("faults") /\ UNCHANGED <<mapped, chatCursor>>
  /\ eventCursor' = Top.next
  /\ Pop
  /\ UNCHANGED <<server, outbox, deferred, link, stray, peerInbox>>

\* The process ends, at any point of its handlers, and starts again. What it has
\* posted may be handled yet.
Restart ==
  /\ Spend("faults")
  /\ frames' = << >> /\ deferred' = {}
  /\ connected' = FALSE /\ toPeer' = << >> /\ fromPeer' = << >>
  /\ LET posted == {frames[i].message : i \in {j \in DOMAIN frames : frames[j].step = "post"}}
     IN  \E S \in SUBSET posted : stray' = stray \cup S
  /\ UNCHANGED <<server, outbox, eventCursor, peerInbox>>

\* Also between the sync and saveRemoteMessageEventCursor.
Crash ==
  /\ Restart
  /\ \/ UNCHANGED <<mapped, chatCursor>>
     \/ OnTop("sync") /\ MapListed

\* The reconciliation at the end of a run syncs the conversation too.
Reconcile ==
  /\ Interruptible /\ ~OnStack("run")
  /\ MapListed
  /\ UNCHANGED <<server, outbox, eventCursor, memory, link, stray, peerInbox, budget>>

-----------------------------------------------------------------------------
(* The peer's device: it receives over P2P and from the service, its user   *)
(* reads, and it reports both ways.                                        *)

Keep(m) == peerInbox' = [peerInbox EXCEPT ![m] = IF @ = "absent" THEN "received" ELSE @]
Reply(type, m) ==
  Room(fromPeer) /\ fromPeer' = Append(fromPeer, Receipt(type, m))

PeerReceives ==
  /\ toPeer # << >>
  /\ Keep(Head(toPeer)) /\ Reply("received", Head(toPeer))
  /\ toPeer' = Tail(toPeer)
  /\ UNCHANGED <<server, tables, memory, connected, stray, budget>>

PeerSyncs ==
  /\ \E m \in Messages :
       /\ DB!HasRow(m, Peer) /\ deliveries[m][Peer].state = "pending"
       /\ DB!MarkDelivered(m, Peer, messages[m].seq)
       /\ Keep(m)
  /\ UNCHANGED <<tables, memory, link, stray, budget>>

PeerReads ==
  /\ \E m \in Messages :
       /\ peerInbox[m] = "received"
       /\ peerInbox' = [peerInbox EXCEPT ![m] = "read"]
       /\ \/ connected /\ Reply("read", m)
          \/ ~connected /\ UNCHANGED fromPeer
  /\ UNCHANGED <<server, tables, memory, connected, toPeer, stray, budget>>

PeerReports ==
  /\ \E m \in Messages :
       /\ peerInbox[m] = "read" /\ DB!HasRow(m, Peer)
       /\ deliveries[m][Peer].state # "read"
       /\ DB!MarkRead(m, Peer, messages[m].seq)
  /\ UNCHANGED <<tables, memory, link, stray, peerInbox, budget>>

-----------------------------------------------------------------------------
SendStep == \E m \in Messages : SendViaService(m) \/ SendViaP2P(m) \/ SendNowhere(m)
HandlerStep == FinishPost \/ RetryViaService \/ RetryViaP2P \/ RetryNowhere \/ EndSweep
RunStep == ConsumeEvents \/ Sync \/ Reconcile
PeerStep == PeerReceives \/ PeerSyncs \/ PeerReports
FaultStep == FailToFinish \/ LosePost \/ Disconnect \/ Crash

Next ==
  \/ SendStep \/ HandlePost \/ HandleStrayPost
  \/ StartSweep \/ HandlerStep \/ \E m \in Messages : BackoffExpires(m)
  \/ Connect \/ ReceiveReceipt
  \/ RunStep
  \/ PeerStep \/ PeerReads
  \/ FaultStep

Spec == Init /\ [][Next]_vars

\* Timers fire, the service and the peer's device work, and a handler whose call has
\* ended returns once the handlers above it have: strongly fair, since timers put new
\* ones above it. Nobody must send, read, connect or handle a post that was given up.
Fairness ==
  /\ WF_vars(HandlePost) /\ WF_vars(PeerStep)
  /\ SF_vars(HandlerStep) /\ SF_vars(StartSweep)
  /\ \A m \in Messages : WF_vars(BackoffExpires(m))
  /\ SF_vars(ReceiveReceipt) /\ SF_vars(RunStep)

FairSpec == Spec /\ Fairness

-----------------------------------------------------------------------------
(* Properties.                                                             *)

Frame ==
  [handler : {"send", "sweep", "run"},
   step : {"post", "reply", "query", "retry", "sync"},
   message : Messages \cup {Nothing}, todo : SUBSET Messages,
   usable : BOOLEAN, linked : BOOLEAN, next : Nat]

\* The tables, the stack and the channels hold values of their types.
TypeOK ==
  /\ DB!TypeOK
  /\ outbox \in [Messages -> {"absent", "pending", "serverAcked", "received", "read"}]
  /\ mapped \subseteq Messages
  /\ chatCursor \in Nat /\ eventCursor \in Nat
  /\ frames \in Seq(Frame) /\ deferred \subseteq Messages
  /\ connected \in BOOLEAN
  /\ toPeer \in Seq(Messages)
  /\ fromPeer \in Seq([type : {"received", "read"}, message : Messages])
  /\ stray \subseteq Messages
  /\ peerInbox \in [Messages -> {"absent", "received", "read"}]
  /\ budget \in [faults : Nat, connections : Nat]

\* The delivery state that the sender shows is true, however posts, copies, receipts
\* and events cross: "serverAcked" only if the service keeps the message for the peer,
\* "received" only if the peer's device has it, "read" only if its user has read it.
ClaimsAreTrue ==
  \A m \in Messages :
    /\ outbox[m] = "serverAcked" => DB!HasRow(m, Peer)
    /\ outbox[m] = "received" => peerInbox[m] # "absent"
    /\ outbox[m] = "read" => peerInbox[m] = "read"

\* The service's later events find the message: what the service has acknowledged, and
\* what the conversation cursor has passed, is mapped, in spite of crashes and of
\* writes that fail between the reply and the state.
EventsFindTheirMessage ==
  \A m \in Messages :
    outbox[m] = "serverAcked" \/ (m \in DB!Stored /\ messages[m].seq <= chatCursor)
      => m \in mapped

\* Every message that was sent leaves the outbox, and the peer has it, after any finite
\* number of lost calls, outages, failed writes, disconnections and crashes.
EventuallyDelivered ==
  \A m \in Messages :
    outbox[m] = "pending" ~> outbox[m] # "pending" /\ peerInbox[m] # "absent"
=============================================================================
