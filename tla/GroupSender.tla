----------------------------- MODULE GroupSender -----------------------------
(***************************************************************************)
(* The device of Self sends to a group: a text of the composer             *)
(* (ReliableGroupMessageSender), or an envelope, a card or a signal        *)
(* (ReliableGroupEnvelopeSender).  The recipients are split between the    *)
(* message service and P2P connections; a row of pending_group_envelopes   *)
(* waits for each one that neither has taken over, and is sent again at a  *)
(* hello and by the sweep.  The service is its store,                      *)
(* MessageServiceDatabase; the peers' devices are the environment.         *)
(*                                                                         *)
(* A card is stored as a message (a resource reference, sticker, forward   *)
(* or nudge), a signal is not (a reaction or a pin).  frames is the stack  *)
(* of handlers that wait in the nested event loop of an HTTP call, as in   *)
(* DirectMessageSender.  A text begins when its capability query has       *)
(* ended: before, nothing is stored.                                       *)
(***************************************************************************)
EXTENDS Integers, Sequences, FiniteSets, FiniteSetsExt, SequencesExt

CONSTANTS
  Self, Peers, Messages, Group,
  Settings,     \* the transport settings a behaviour may have
  MaxFaults     \* bound: lost calls, outages, failed writes, disconnections, crashes

\* "serverOnly" stands for ServerPreferred without allowP2PFallback, too.
ASSUME SettingsAssumption == Settings \subseteq {"serverPreferred", "serverOnly", "p2pOnly"}
ASSUME SelfIsNoPeer == Self \notin Peers
ASSUME FaultsAssumption == MaxFaults \in Nat

VARIABLES
  \* the service's tables
  messages, deliveries, members, cursors, events,
  \* the tables of Self
  kind,          \* what each message is, once it was sent
  outbox,        \* table messages: delivery_state
  mapped,        \* table remote_message_id_map
  rows,          \* table pending_group_envelopes: pairs of message and peer
  \* the memory of Self
  settings, frames,
  \* the environment
  modern,            \* the peers whose client uses the service and sends receipts
  connected, greeted,   \* the P2P connections, and those with a hello
  receipts,          \* pairs of message and peer: on their way to Self
  stray,             \* posts the service may still handle though nobody waits for them
  settled,           \* pairs: the peer has the message, or its row left after a write,
                     \* with no receipt to come
  faults             \* what is left of the bound

server == <<messages, deliveries, members, cursors, events>>
tables == <<kind, outbox, mapped, rows>>
link == <<connected, greeted, receipts>>
vars == <<server, tables, settings, frames, modern, link, stray, settled, faults>>

DB == INSTANCE MessageServiceDatabase WITH
  Clients <- {Self} \cup Peers, Conversations <- {Group},
  Sender <- [m \in Messages |-> Self], Contents <- {"text", "envelope"},
  MaxEvents <- 0, MaxSessionEvents <- 0   \* of DB!Next, which is not used here

Nothing == [of |-> "nothing"]
\* service are the recipients of the post; todo the rows that a sweep loaded.
Frame(handler, step, m, service, todo) ==
  [handler |-> handler, step |-> step, message |-> m, service |-> service, todo |-> todo]

Init ==
  /\ DB!Init
  /\ kind = [m \in Messages |-> "unsent"]
  /\ outbox = [m \in Messages |-> "absent"]
  /\ mapped = {} /\ rows = {}
  /\ settings \in Settings /\ frames = << >>
  /\ modern \in SUBSET Peers
  /\ connected = {} /\ greeted = {}
  /\ receipts = {}
  /\ stray = {} /\ settled = {}
  /\ faults = MaxFaults

Spend == faults > 0 /\ faults' = faults - 1
\* Free of charge if ok.
SpendUnless(ok) == IF ok THEN UNCHANGED faults ELSE Spend

Top == frames[Len(frames)]
OnTop(step) == frames # << >> /\ Top.step = step
OnStack(handler) == \E i \in DOMAIN frames : frames[i].handler = handler
\* The event loop runs: a sweep with nothing left to post does not return to it. (The end
\* of a sweep is a step of its own, EndSweep. A hello or a receipt that comes before this
\* step might as well have come before the step that led to it, so they need no guard.)
Interruptible == ~(OnTop("retry") /\ Top.todo = {})
Push(frame) == frames' = Append(frames, frame)
Pop == frames' = Front(frames)
Continue(frame) == frames' = [frames EXCEPT ![Len(frames)] = frame]

-----------------------------------------------------------------------------
(* An operator whose comment begins with "Faulty" is a version of the next *)
(* definition with a plausible mistake, as in MessageServiceDatabase.      *)

Pairs(m, peers) == {m} \X peers
TargetsIn(pairs, m) == {p \in Peers : <<m, p>> \in pairs}

\* The P2P half is allowed, and needs no open connection: a row may wait.
P2PAllowed == settings # "serverOnly"
ServiceUsable == settings # "p2pOnly"

\* Whom partitionRecipientsForMessageService gives to the service: at most those that
\* have registered. A query that fails and a cache that is behind leave some to P2P.
Partition(recipients) ==
  IF ServiceUsable THEN SUBSET (recipients \cap modern) ELSE {{}}

\* peerDeliveryReceiptCapabilities: known from the hello until the disconnection.
Receipting == greeted \cap modern

\* Faulty: a row that was written leaves without regard to receipts.
UnconfirmedAll(pairs) == pairs
\* clearDeliveredGroupFanOutPending: the rows that leave when they have been written.
Unconfirmed(pairs) == {x \in pairs : x[2] \notin Receipting}

\* A set of pairs, whose rows are among all, is written. What arrives the peer keeps and,
\* if its client sends receipts and it is no signal, confirms; a copy may be lost with the
\* connection, or not be kept.
Write(pairs, arrived, all) ==
  /\ rows' = all \ Unconfirmed(pairs)
  /\ settled' = settled \cup arrived \cup {x \in pairs : x[2] \notin Receipting}
  /\ receipts' = receipts \cup {x \in arrived : x[2] \in modern /\ kind[x[1]] # "signal"}

-----------------------------------------------------------------------------
(* The composer: sendText.                                                 *)

Create(m, type, state) ==
  /\ kind[m] = "unsent" /\ kind' = [kind EXCEPT ![m] = type]
  /\ outbox' = [outbox EXCEPT ![m] = state]

\* In the P2POnly mode the message is stored with the rows, as received.
SendTextP2POnly(m) ==
  /\ Interruptible /\ ~ServiceUsable
  /\ Create(m, "text", "received")
  /\ \E W \in SUBSET connected : \E A \in SUBSET W :
       SpendUnless(A = connected) /\ Write(Pairs(m, W), Pairs(m, A), rows \cup Pairs(m, Peers))
  /\ UNCHANGED <<server, mapped, settings, frames, modern, connected, greeted, stray>>

\* The early return: a recipient the service does not serve and no P2P for it. The
\* message stays pending, and no row is there for anybody.
StrandText(m) ==
  /\ Interruptible /\ ServiceUsable /\ ~P2PAllowed
  /\ Create(m, "text", "pending")
  /\ \E S \in Partition(Peers) : S # Peers
  /\ UNCHANGED <<server, mapped, rows, settings, frames, modern, link, stray, settled, faults>>

SendTextViaService(m) ==
  /\ Interruptible /\ Peers \in Partition(Peers)
  /\ Create(m, "text", "pending")
  /\ Push(Frame("send", "post", m, Peers, {}))
  /\ UNCHANGED <<server, mapped, rows, settings, modern, link, stray, settled, faults>>

\* The P2P half comes first: persistOutgoingGroupFanOut, then the writes. A peer without
\* a connection is queued; one write that fails keeps the service half from being tried.
SendTextMixed(m) ==
  /\ Interruptible /\ ServiceUsable /\ P2PAllowed
  /\ \E S \in Partition(Peers) \ {Peers} :
     \E W \in SUBSET (connected \ S) : \E A \in SUBSET W :
       LET failed == W # connected \ S
           allWritten == S = {} /\ W = Peers
       IN  /\ SpendUnless(A = connected \ S)
           /\ Write(Pairs(m, W), Pairs(m, A), rows \cup Pairs(m, Peers \ S))
           /\ Create(m, "text", IF allWritten THEN "sent" ELSE "pending")
           /\ IF failed \/ S = {} THEN UNCHANGED frames
                                  ELSE Push(Frame("send", "post", m, S, {}))
  /\ UNCHANGED <<server, mapped, settings, modern, connected, greeted, stray>>

-----------------------------------------------------------------------------
(* Envelopes: the rows of all recipients are stored first, with the        *)
(* message of a card; then sendPersistedGroupEnvelopes.                    *)

PersistEnvelope(m) ==
  /\ Interruptible
  /\ \/ Create(m, "card", "received")
     \/ Create(m, "signal", "absent")
  /\ rows' = rows \cup Pairs(m, Peers)
  /\ Push(Frame("envelope", "query", m, {}, {}))
  /\ UNCHANGED <<server, mapped, settings, modern, link, stray, settled, faults>>

\* Faulty: whatever was sent is marked.
MarkedAlways(m, state) == [outbox EXCEPT ![m] = state]

\* markExistingMessageState: a signal is no message.
Marked(m, state) ==
  IF kind[m] = "signal" THEN outbox ELSE [outbox EXCEPT ![m] = state]

\* The capability query has ended. Here a peer without a connection counts as failed, so
\* that the service half is posted only after all of the P2P half was written.
SendEnvelope ==
  /\ OnTop("query")
  /\ \E S \in Partition(Peers) :
       LET m == Top.message
           P == Peers \ S
           post == Continue([Top EXCEPT !.step = "post", !.service = S])
       IN  \/ /\ P = {} /\ post
              /\ UNCHANGED <<rows, outbox, receipts, settled, faults>>
           \/ /\ P # {} /\ ~P2PAllowed /\ Pop
              /\ UNCHANGED <<rows, outbox, receipts, settled, faults>>
           \/ /\ P # {} /\ P2PAllowed
              /\ \E W \in SUBSET (P \cap connected) : \E A \in SUBSET W :
                   /\ SpendUnless(A = P \cap connected)
                   /\ Write(Pairs(m, W), Pairs(m, A), rows)
                   /\ IF W = P /\ S # {} THEN post ELSE Pop
                   /\ outbox' = IF W = P /\ S = {} THEN Marked(m, "sent") ELSE outbox
  /\ UNCHANGED <<server, kind, mapped, settings, modern, connected, greeted, stray>>

-----------------------------------------------------------------------------
(* sendViaMessageService of both classes, for a post of any handler.       *)

\* The composer posts the text's fields, the others the envelope's body as payload.
Content(handler) == IF handler = "send" THEN "text" ELSE "envelope"
StrayPost(f) == [message |-> f.message, content |-> Content(f.handler), service |-> f.service]
Post(post) == DB!StoreMessage(post.message, Group, post.content, post.service)

\* The service handles a post, whichever frame waits for it.
HandlePost ==
  /\ \E i \in DOMAIN frames :
       /\ frames[i].step = "post"
       /\ Post(StrayPost(frames[i]))
       /\ frames' = [frames EXCEPT ![i].step = "reply"]
  /\ UNCHANGED <<tables, settings, modern, link, stray, settled, faults>>

HandleStrayPost ==
  /\ \E post \in stray : Post(post) /\ stray' = stray \ {post}
  /\ UNCHANGED <<tables, settings, frames, modern, link, settled, faults>>

\* A sweep goes on with its next message; the other handlers return.
Succeed ==
  IF Top.handler = "sweep"
    THEN Continue(Frame("sweep", "retry", Nothing, {},
                        {x \in Top.todo : x[1] # Top.message}))
    ELSE Pop

\* A sweep posts no more.
Fail ==
  IF Top.handler = "sweep" THEN Continue(Frame("sweep", "retry", Nothing, {}, {})) ELSE Pop

\* The reply: the mapping and the state, then clearPendingFanOutForRecipients.
FinishPost ==
  /\ OnTop("reply")
  /\ mapped' = IF kind[Top.message] = "signal" THEN mapped ELSE mapped \cup {Top.message}
  /\ outbox' = Marked(Top.message, "serverAcked")
  /\ rows' = IF Top.handler = "send" THEN rows
             ELSE rows \ Pairs(Top.message, Top.service)
  /\ Succeed
  /\ UNCHANGED <<server, kind, settings, modern, link, stray, settled, faults>>

\* AcceptedButLocalFinalizeFailed: one of the two writes fails; no fallback to P2P.
FailToFinish ==
  /\ OnTop("reply") /\ kind[Top.message] # "signal" /\ Spend
  /\ mapped' \in {mapped, mapped \cup {Top.message}}
  /\ Fail
  /\ UNCHANGED <<server, kind, outbox, rows, settings, modern, link, stray, settled>>

\* FailedBeforeAck: the request or the reply is lost, or the service fails. What the
\* service got it may still handle. The fallback of the composer stores rows for the
\* service's half first; a sweep has none.
LosePost ==
  /\ OnTop("post") \/ OnTop("reply")
  /\ Spend
  /\ \/ UNCHANGED stray
     \/ OnTop("post") /\ stray' = stray \cup {StrayPost(Top)}
  /\ Fail
  /\ IF Top.handler # "sweep" /\ P2PAllowed
       THEN \E W \in SUBSET (Top.service \cap connected) : \E A \in SUBSET W :
              /\ Write(Pairs(Top.message, W), Pairs(Top.message, A),
                       IF Top.handler = "send"
                         THEN rows \cup Pairs(Top.message, Top.service) ELSE rows)
              /\ outbox' = IF W = Top.service THEN Marked(Top.message, "sent") ELSE outbox
       ELSE UNCHANGED <<rows, outbox, receipts, settled>>
  /\ UNCHANGED <<server, kind, mapped, settings, modern, connected, greeted>>

-----------------------------------------------------------------------------
(* runPendingDeliverySweep: retryPendingGroupEnvelopesViaMessageService,   *)
(* then the flush of every connected peer.                                 *)

\* The rows are loaded once, if the service is configured and was reachable lately.
StartSweep ==
  /\ Interruptible /\ ~OnStack("sweep") /\ rows # {}
  /\ \E reachable \in BOOLEAN :
       /\ SpendUnless(reachable \/ ~ServiceUsable)
       /\ Push(Frame("sweep", "retry", Nothing, {},
                     IF reachable /\ ServiceUsable THEN rows ELSE {}))
  /\ UNCHANGED <<server, tables, settings, modern, link, stray, settled>>

\* A message of the list, once the capabilities of its recipients have been asked for:
\* to whom the service delivers it is posted, if there is anybody.
RetryViaService ==
  /\ OnTop("retry")
  /\ \E m \in {x[1] : x \in Top.todo} : \E S \in Partition(TargetsIn(Top.todo, m)) :
       /\ SpendUnless(S = TargetsIn(Top.todo, m) \cap modern)
       /\ IF S # {}
            THEN Continue([Top EXCEPT !.step = "post", !.message = m, !.service = S])
            ELSE Continue([Top EXCEPT !.todo = {x \in @ : x[1] # m}])
  /\ UNCHANGED <<server, tables, settings, modern, link, stray, settled>>

\* Faulty: only a hello flushes.
EndSweepUnflushed ==
  /\ OnTop("retry") /\ Top.todo = {}
  /\ Pop
  /\ UNCHANGED <<server, tables, settings, modern, link, stray, settled, faults>>

\* flushPendingGroupEnvelopesForTarget for each connected peer.
EndSweep ==
  /\ OnTop("retry") /\ Top.todo = {}
  /\ LET due == {x \in rows : x[2] \in connected} IN
     \E W \in SUBSET due : \E A \in SUBSET W : SpendUnless(A = due) /\ Write(W, A, rows)
  /\ Pop
  /\ UNCHANGED <<server, kind, outbox, mapped, settings, modern, connected, greeted, stray>>

-----------------------------------------------------------------------------
(* The P2P connections.                                                    *)

\* A connection is registered, and used, before its hello has come.
Connect(p) ==
  /\ p \notin connected
  /\ connected' = connected \cup {p}
  /\ UNCHANGED <<server, tables, settings, frames, modern, greeted, receipts, stray,
                 settled, faults>>

\* The hello tells what the peer promises; its rows are flushed.
Hello(p) ==
  /\ p \in connected \ greeted
  /\ greeted' = greeted \cup {p}
  /\ LET due == {x \in rows : x[2] = p} IN
     \E W \in SUBSET due : \E A \in SUBSET W :
       /\ SpendUnless(A = due)
       /\ IF p \in modern
            THEN /\ settled' = settled \cup A
                 /\ receipts' = receipts \cup {x \in A : kind[x[1]] # "signal"}
                 /\ UNCHANGED rows
            ELSE settled' = settled \cup W /\ rows' = rows \ W /\ UNCHANGED receipts
  /\ UNCHANGED <<server, kind, outbox, mapped, settings, frames, modern, connected, stray>>

Disconnect(p) ==
  /\ p \in connected /\ Spend
  /\ connected' = connected \ {p} /\ greeted' = greeted \ {p}
  /\ receipts' = {x \in receipts : x[2] # p}
  /\ UNCHANGED <<server, tables, settings, frames, modern, stray, settled>>

\* The receipt of a peer clears its row; the state of the message stays.
ReceiveReceipt(m, p) ==
  /\ <<m, p>> \in receipts
  /\ receipts' = receipts \ {<<m, p>>} /\ rows' = rows \ {<<m, p>>}
  /\ UNCHANGED <<server, kind, outbox, mapped, settings, frames, modern, connected, greeted,
                 stray, settled, faults>>

\* The process ends and starts again. What it has posted may be handled yet. A text may
\* have been stored, as received, and not been marked pending.
Crash ==
  /\ Spend
  /\ frames' = << >>
  /\ connected' = {} /\ greeted' = {} /\ receipts' = {}
  /\ \E S \in SUBSET {StrayPost(frames[i]) : i \in {j \in DOMAIN frames : frames[j].step = "post"}} :
       stray' = stray \cup S
  /\ \/ UNCHANGED <<kind, outbox>>
     \/ Interruptible /\ ServiceUsable /\ \E m \in Messages : Create(m, "text", "received")
  /\ UNCHANGED <<server, mapped, rows, settings, modern, settled>>

-----------------------------------------------------------------------------
(* The peers' devices.                                                     *)

\* A device lists all messages of the conversations it is a member of.
PeerSyncs(p) ==
  /\ DB!IsConversationMember(Group, p) /\ p \in modern
  /\ settled' = settled \cup (DB!Stored \X {p})
  /\ UNCHANGED <<server, tables, settings, frames, modern, link, stray, faults>>

\* A peer starts a newer client.
Upgrade(p) ==
  /\ p \notin modern /\ p \notin connected
  /\ modern' = modern \cup {p}
  /\ UNCHANGED <<server, tables, settings, frames, link, stray, settled, faults>>

-----------------------------------------------------------------------------
SendText(m) ==
  SendTextP2POnly(m) \/ StrandText(m) \/ SendTextViaService(m) \/ SendTextMixed(m)
HandlerStep == SendEnvelope \/ FinishPost \/ RetryViaService \/ EndSweep
FaultStep == FailToFinish \/ LosePost \/ (\E p \in Peers : Disconnect(p)) \/ Crash

Next ==
  \/ \E m \in Messages : SendText(m) \/ PersistEnvelope(m)
  \/ \E m \in Messages, p \in Peers : ReceiveReceipt(m, p)
  \/ HandlePost \/ HandleStrayPost
  \/ StartSweep \/ HandlerStep
  \/ \E p \in Peers : Connect(p) \/ Hello(p) \/ PeerSyncs(p) \/ Upgrade(p)
  \/ FaultStep

Spec == Init /\ [][Next]_vars

\* Timers fire, the service and the peers' devices work, members are discovered and
\* greeted, and a handler whose call has ended returns once those above it have. Nobody
\* must send, upgrade or handle a post that was given up.
Fairness ==
  /\ WF_vars(HandlePost) /\ WF_vars(HandlerStep) /\ WF_vars(StartSweep)
  /\ \A p \in Peers : WF_vars(Connect(p)) /\ WF_vars(Hello(p)) /\ WF_vars(PeerSyncs(p))
  /\ \A m \in Messages, p \in Peers : WF_vars(ReceiveReceipt(m, p))

FairSpec == Spec /\ Fairness

-----------------------------------------------------------------------------
(* Properties.                                                             *)

FrameType ==
  [handler : {"send", "envelope", "sweep"}, step : {"query", "post", "reply", "retry"},
   message : Messages \cup {Nothing}, service : SUBSET Peers, todo : SUBSET (Messages \X Peers)]

\* The tables, the stack and the channels hold values of their types; a signal has no row
\* in the table of messages, nor a mapping.
TypeOK ==
  /\ DB!TypeOK
  /\ kind \in [Messages -> {"unsent", "text", "card", "signal"}]
  /\ outbox \in [Messages -> {"absent", "received", "pending", "sent", "serverAcked"}]
  /\ \A m \in Messages : kind[m] \in {"unsent", "signal"} <=> outbox[m] = "absent"
  /\ mapped \subseteq {m \in Messages : outbox[m] # "absent"}
  /\ rows \subseteq Messages \X Peers
  /\ settings \in Settings /\ frames \in Seq(FrameType)
  /\ modern \subseteq Peers /\ connected \subseteq Peers /\ greeted \subseteq connected
  /\ receipts \subseteq Messages \X connected
  /\ stray \subseteq [message : Messages, content : {"text", "envelope"}, service : SUBSET Peers]
  /\ settled \subseteq Messages \X Peers
  /\ faults \in 0..MaxFaults

\* The service keeps the message for a peer that lists it.
Served(m, p) == m \in DB!Stored /\ DB!IsConversationMember(Group, p)

\* The service was given the text's fields first. It ignores a retry with the envelope's.
Omitted(m, p) ==
  m \in DB!Stored /\ messages[m].content = "text" /\ ~DB!IsConversationMember(Group, p)

Covered(m, p) ==
  <<m, p>> \in settled \cup rows \/ Served(m, p) \/ Omitted(m, p)

\* An envelope that was sent, and a text that is shown as sent, is with each of its
\* recipients, kept for it by the service, or in a row that waits, however the two halves,
\* the sweep, receipts and crashes cross. The exceptions: a peer that was written to and is
\* not known to send receipts, and the one that the retry of a text omits.
NobodyIsForgotten ==
  \A m \in Messages, p \in Peers :
    kind[m] \in {"card", "signal"} \/ outbox[m] = "sent" => Covered(m, p)

\* What waits in a row gets to its peer, after any finite number of lost calls, outages,
\* failed writes, disconnections and crashes, and the row of a text or card goes then.
EventuallyEverywhere ==
  \A m \in Messages, p \in Peers :
    <<m, p>> \in rows ~>
      /\ <<m, p>> \in settled \/ Omitted(m, p)
      /\ kind[m] # "signal" => <<m, p>> \notin rows
=============================================================================
