--------------------------- MODULE GroupSenderProofs ---------------------------
(***************************************************************************)
(* Proofs about the sender of a group, for every set of peers and messages *)
(* and every bound.                                                        *)
(*                                                                         *)
(* Nobody is forgotten: a recipient is covered by a row, by what it has    *)
(* got or by the service.  Handlers that wait for an HTTP call decide      *)
(* later, over tables that others have changed since; so the invariant     *)
(* speaks of every frame of the stack, and of what an answer of the        *)
(* service, to whichever post, tells about its tables.                     *)
(***************************************************************************)
EXTENDS GroupSender, TLAPS

\* The service's store with what is proved about it.
Store == INSTANCE MessageServiceDatabaseProofs WITH
  Clients <- {Self} \cup Peers, Conversations <- {Group},
  Sender <- [m \in Messages |-> Self], Contents <- {"text", "envelope"},
  MaxEvents <- 0, MaxSessionEvents <- 0

-----------------------------------------------------------------------------
(* The inductive invariant.                                                *)

\* The service keeps the message for the peer, or ignored it for it.
Vouched(m, p) == Served(m, p) \/ Omitted(m, p)

\* Handlers act for messages that were sent. What the end of a handler relies on: the composer
\* has taken care of whom it has not given to the service before it posts, and a reply tells
\* that the service has taken over the recipients of an envelope.
Frames ==
  {f \in FrameType :
     /\ f.step # "retry" => f.message \in Messages /\ kind[f.message] # "unsent"
     /\ f.step = "retry" => f.handler = "sweep"
     /\ f.step = "query" => f.handler = "envelope"
     /\ f.handler = "envelope" => kind[f.message] \in {"card", "signal"}
     /\ \A x \in f.todo : kind[x[1]] # "unsent"
     /\ f.handler = "send" => \A p \in Peers \ f.service : Covered(f.message, p)
     /\ f.handler # "send" /\ f.step = "reply" => \A p \in f.service : Vouched(f.message, p)}

\* The tables of Self.
TablesInv ==
  /\ kind \in [Messages -> {"unsent", "text", "card", "signal"}]
  /\ outbox \in [Messages -> {"absent", "received", "pending", "sent", "serverAcked"}]
  /\ \A m \in Messages : kind[m] \in {"unsent", "signal"} <=> outbox[m] = "absent"
  /\ mapped \subseteq {m \in Messages : outbox[m] # "absent"}
  /\ rows \subseteq {m \in Messages : kind[m] # "unsent"} \X Peers

\* The peers and the connections.
LinkInv ==
  /\ modern \subseteq Peers /\ connected \subseteq Peers /\ greeted \subseteq connected
  /\ receipts \subseteq Messages \X connected
  /\ settled \subseteq Messages \X Peers
  /\ receipts \subseteq settled

PostType == [message : Messages, content : {"text", "envelope"}, service : SUBSET Peers]

Inv ==
  /\ Store!LogInv
  /\ TablesInv
  /\ settings \in Settings
  /\ frames \in Seq(Frames)
  /\ LinkInv
  /\ stray \subseteq PostType
  /\ faults \in 0..MaxFaults
  /\ NobodyIsForgotten

-----------------------------------------------------------------------------
(* The store.                                                              *)

LEMMA SelfSends == [m \in Messages |-> Self] \in [Messages -> {Self} \cup Peers]
OBVIOUS

LEMMA SameNumbers == \A c : DB!NextConversationSeq(c) = Store!NextConversationSeq(c)
BY DEF DB!NextConversationSeq, Store!NextConversationSeq, DB!LatestSeq, Store!LatestSeq, DB!Max, Store!Max,
  DB!Seqs, Store!Seqs, DB!StoredIn, Store!StoredIn, DB!Stored, Store!Stored,
  DB!NoMessage, Store!NoMessage

LEMMA SameStore ==
  /\ DB!Init => Store!Init
  /\ Store!TypeOK <=> DB!TypeOK
  /\ \A m \in Messages, b \in {"text", "envelope"}, r \in SUBSET Peers :
       DB!StoreMessage(m, Group, b, r) => Store!StoreMessage(m, Group, b, r)
<1>1. DB!Init => Store!Init
  BY DEF DB!Init, Store!Init, DB!NoMessage, Store!NoMessage, DB!NoDelivery, Store!NoDelivery
<1>2. Store!TypeOK <=> DB!TypeOK
  BY DEF DB!TypeOK, Store!TypeOK, DB!MessageRow, Store!MessageRow, DB!NoMessage, Store!NoMessage,
     DB!DeliveryRow, Store!DeliveryRow, DB!Roles, Store!Roles, DB!Cursor, Store!Cursor,
     DB!MessageEvent, Store!MessageEvent, DB!SessionEvent, Store!SessionEvent
<1>3. ASSUME NEW m \in Messages, NEW b \in {"text", "envelope"}, NEW r \in SUBSET Peers,
             DB!StoreMessage(m, Group, b, r)
      PROVE  Store!StoreMessage(m, Group, b, r)
  <2>1. CASE DB!StoreNewMessage(m, Group, b, r)
    BY <2>1, SameNumbers DEF DB!StoreNewMessage, Store!StoreMessage, Store!StoreNewMessage,
       DB!NoMessage, Store!NoMessage, DB!NormalizedRecipients, Store!NormalizedRecipients,
       DB!WithPendingRows, Store!WithPendingRows, DB!NoDelivery, Store!NoDelivery,
       DB!PendingDelivery, Store!PendingDelivery, DB!WithRole, Store!WithRole,
       DB!UpsertedRole, Store!UpsertedRole, DB!CreatedEvent, Store!CreatedEvent
  <2>2. CASE DB!MergeDuplicate(m, Group, b, r)
    BY <2>2 DEF DB!MergeDuplicate, Store!StoreMessage, Store!MergeDuplicate,
       DB!NoMessage, Store!NoMessage, DB!NormalizedRecipients, Store!NormalizedRecipients,
       DB!WithPendingRows, Store!WithPendingRows, DB!NoDelivery, Store!NoDelivery,
       DB!PendingDelivery, Store!PendingDelivery, DB!WithRole, Store!WithRole,
       DB!UpsertedRole, Store!UpsertedRole, DB!CreatedEvent, Store!CreatedEvent,
       DB!HasRow, Store!HasRow
  <2>3. CASE DB!IgnoreConflictingDuplicate(m, Group, b, r)
    BY <2>3 DEF DB!IgnoreConflictingDuplicate, Store!StoreMessage, Store!IgnoreConflictingDuplicate,
       DB!NoMessage, Store!NoMessage, DB!NormalizedRecipients, Store!NormalizedRecipients,
       DB!dbVars, Store!dbVars
  <2> QED
    BY <1>3, <2>1, <2>2, <2>3 DEF DB!StoreMessage
<1> QED
  BY <1>1, <1>2, <1>3

LEMMA RolesGrow ==
  ASSUME NEW clients \in SUBSET ({Self} \cup Peers), NEW roles, NEW role \in {"member", "sender"},
         NEW u \in {Self} \cup Peers
  PROVE  /\ roles[u] # "none" => DB!WithRole(roles, clients, role)[u] # "none"
         /\ u \in clients => DB!WithRole(roles, clients, role)[u] # "none"
BY DEF DB!WithRole, DB!UpsertedRole

\* What the service makes of a post: it vouches for those for whom it has, and, if the post
\* is an envelope, for the recipients.
LEMMA PostEffect ==
  ASSUME Store!LogInv, NEW post \in PostType, Post(post)
  PROVE  /\ Store!LogInv'
         /\ \A m \in Messages, p \in Peers : Vouched(m, p) => Vouched(m, p)'
         /\ post.content = "envelope" => \A p \in post.service : Vouched(post.message, p)'
<1> DEFINE k == post.message
           b == post.content
           r == post.service
<1>1. k \in Messages /\ b \in {"text", "envelope"} /\ r \in SUBSET Peers
  BY DEF PostType
<1>2. Store!StoreMessage(k, Group, b, r) /\ DB!StoreMessage(k, Group, b, r)
  BY <1>1, SameStore DEF Post
<1>3. Store!LogInv'
  <2>1. r \in SUBSET ({Self} \cup Peers)
    BY <1>1
  <2> HIDE DEF k, b, r
  <2>2. CASE Store!StoreNewMessage(k, Group, b, r)
    BY <1>1, <2>1, <2>2, Store!StoreNewMessageLogInv
  <2>3. CASE Store!MergeDuplicate(k, Group, b, r)
    BY <1>1, <2>1, <2>3, Store!MergeDuplicateLogInv
  <2>4. CASE Store!IgnoreConflictingDuplicate(k, Group, b, r)
    BY <2>4, Store!NextLogInv DEF Store!IgnoreConflictingDuplicate
  <2> QED
    BY <1>2, <2>2, <2>3, <2>4 DEF Store!StoreMessage
<1>4. DB!TypeOK
  BY SameStore DEF Store!LogInv
<1>5. r \subseteq {Self} \cup Peers /\ DB!NormalizedRecipients(k, r) = r
  BY <1>1, SelfIsNoPeer DEF DB!NormalizedRecipients
<1> HIDE DEF k, b, r
<1>6. /\ \A m \in Messages : m \in DB!Stored =>
           m \in DB!Stored' /\ messages'[m] = messages[m]
      /\ \A p \in Peers : members[Group][p] # "none" => members'[Group][p] # "none"
      /\ k \in DB!Stored'
      /\ b = "envelope" => \/ messages'[k].content = "text"
                           \/ \A p \in r : members'[Group][p] # "none"
  <2>1. CASE DB!StoreNewMessage(k, Group, b, r)
    <3>1. /\ messages' = [messages EXCEPT ![k] =
               [conversation |-> Group, content |-> b, seq |-> DB!NextConversationSeq(Group)]]
          /\ messages[k] = DB!NoMessage
      BY <2>1 DEF DB!StoreNewMessage
    <3>2. messages'[k] # DB!NoMessage
      <4>1. DB!NextConversationSeq(Group) \in Nat \ {0}
        <5>1. messages[k] = Store!NoMessage
          BY <3>1 DEF DB!NoMessage, Store!NoMessage
        <5>2. Store!StoreNewMessage(k, Group, b, r)
          BY <1>2, <5>1 DEF Store!StoreMessage, Store!MergeDuplicate, Store!IgnoreConflictingDuplicate
        <5> QED
          BY <1>1, <1>5, <5>2, Store!StoreExtendsConversation, SameNumbers DEF Store!LogInv
      <4> QED
        BY <1>1, <1>4, <3>1, <4>1 DEF DB!TypeOK, DB!NoMessage
    <3>3. \A m \in Messages : m # k => messages'[m] = messages[m]
      BY <1>4, <3>1 DEF DB!TypeOK
    <3>4. members'[Group] = DB!WithRole(DB!WithRole(members[Group], {Self}, "sender"), r, "member")
      BY <1>1, <1>4, <1>5, <2>1 DEF DB!StoreNewMessage, DB!TypeOK
    <3>5. \A p \in Peers : /\ members[Group][p] # "none" => members'[Group][p] # "none"
                           /\ p \in r => members'[Group][p] # "none"
      BY <1>5, <3>4, RolesGrow
    <3> QED
      BY <1>1, <3>1, <3>2, <3>3, <3>5 DEF DB!Stored
  <2>2. CASE DB!MergeDuplicate(k, Group, b, r)
    <3>1. messages' = messages /\ k \in DB!Stored
      BY <1>1, <2>2 DEF DB!MergeDuplicate, DB!Stored
    <3>2. members'[Group] = DB!WithRole(members[Group], r, "member")
      BY <1>4, <1>5, <2>2 DEF DB!MergeDuplicate, DB!TypeOK
    <3>3. \A p \in Peers : /\ members[Group][p] # "none" => members'[Group][p] # "none"
                           /\ p \in r => members'[Group][p] # "none"
      BY <1>5, <3>2, RolesGrow
    <3> QED
      BY <1>1, <3>1, <3>3 DEF DB!Stored
  <2>3. CASE DB!IgnoreConflictingDuplicate(k, Group, b, r)
    <3>1. UNCHANGED <<messages, members>> /\ k \in DB!Stored
      BY <1>1, <2>3 DEF DB!IgnoreConflictingDuplicate, DB!dbVars, DB!Stored
    <3>2. messages[k] \in DB!MessageRow
      BY <1>1, <1>4, <3>1 DEF DB!TypeOK, DB!Stored
    <3>3. messages[k].content # b /\ messages[k].content \in {"text", "envelope"}
      BY <2>3, <3>2 DEF DB!IgnoreConflictingDuplicate, DB!MessageRow
    <3> QED
      BY <3>1, <3>3 DEF DB!Stored
  <2> QED
    BY <1>2, <2>1, <2>2, <2>3 DEF DB!StoreMessage
<1>7. ASSUME NEW m \in Messages, NEW p \in Peers, Vouched(m, p)
      PROVE  Vouched(m, p)'
  BY <1>6, <1>7 DEF Vouched, Served, Omitted, DB!IsConversationMember
<1>8. b = "envelope" => \A p \in r : Vouched(k, p)'
  BY <1>1, <1>6 DEF Vouched, Served, Omitted, DB!IsConversationMember
<1> QED
  BY <1>3, <1>7, <1>8 DEF k, b, r

-----------------------------------------------------------------------------
(* What no step takes away: what a message is, and that a peer is covered  *)
(* or vouched for.                                                         *)

Kept ==
  /\ \A m \in Messages : kind[m] # "unsent" => kind'[m] = kind[m]
  /\ \A m \in Messages, p \in Peers : Covered(m, p) => Covered(m, p)'
  /\ \A m \in Messages, p \in Peers : Vouched(m, p) => Vouched(m, p)'

LEMMA VouchedUnchanged ==
  ASSUME UNCHANGED server
  PROVE  \A m, p : Vouched(m, p) => Vouched(m, p)'
BY DEF server, Vouched, Served, Omitted, DB!Stored, DB!IsConversationMember

\* A row may go if its peer has the message or the service has it for the peer.
LEMMA CoveredKept ==
  ASSUME settled \subseteq settled',
         \A m \in Messages, p \in Peers : Vouched(m, p) => Vouched(m, p)',
         \A m \in Messages, p \in Peers :
           <<m, p>> \in rows => <<m, p>> \in rows' \cup settled' \/ Vouched(m, p)'
  PROVE  \A m \in Messages, p \in Peers : Covered(m, p) => Covered(m, p)'
BY DEF Covered, Vouched

LEMMA FramesKept ==
  ASSUME Kept
  PROVE  Frames \subseteq Frames'
<1> SUFFICES ASSUME NEW f \in Frames
             PROVE  f \in Frames'
  OBVIOUS
<1>1. f \in FrameType /\ f.service \subseteq Peers /\ f.todo \subseteq Messages \X Peers
  BY DEF Frames, FrameType
<1>2. f.step # "retry" => f.message \in Messages /\ kind'[f.message] = kind[f.message]
  BY DEF Frames, Kept
<1>3. \A x \in f.todo : kind'[x[1]] # "unsent"
  BY <1>1 DEF Frames, Kept
<1>4. f.handler = "send" => \A p \in Peers \ f.service : Covered(f.message, p)'
  BY <1>2 DEF Frames, Kept
<1>5. f.handler # "send" /\ f.step = "reply" => \A p \in f.service : Vouched(f.message, p)'
  BY <1>1, <1>2 DEF Frames, Kept
<1> QED
  BY <1>1, <1>2, <1>3, <1>4, <1>5 DEF Frames

LEMMA TopInv ==
  ASSUME frames \in Seq(Frames), frames # << >>
  PROVE  Top \in Frames
BY DEF Top

\* The four things that a step does to the stack.
LEMMA StackInv ==
  ASSUME frames \in Seq(Frames), Kept,
         \/ UNCHANGED frames
         \/ frames # << >> /\ Pop
         \/ \E f \in Frames' : Push(f)
         \/ \E f \in Frames', i \in DOMAIN frames : frames' = [frames EXCEPT ![i] = f]
  PROVE  frames' \in Seq(Frames')
<1>1. frames \in Seq(Frames')
  <2>1. Frames \subseteq Frames'
    BY FramesKept
  <2> DEFINE S == Frames
             T == Frames'
  <2>2. frames \in Seq(S) /\ S \subseteq T
    BY <2>1
  <2> HIDE DEF S, T
  <2>3. frames \in Seq(T)
    BY <2>2
  <2> QED
    BY <2>3 DEF T
<1> DEFINE T == Frames'
<1>2. frames \in Seq(T)
  BY <1>1
<1> HIDE DEF T
<1>3. CASE frames # << >> /\ Pop
  <2>1. frames' = SubSeq(frames, 1, Len(frames) - 1)
    BY <1>3 DEF Pop, Front
  <2>2. frames' \in Seq(T)
    BY <1>2, <1>3, <2>1
  <2> QED
    BY <2>2 DEF T
<1>4. ASSUME NEW f \in T, Push(f)
      PROVE  frames' \in Seq(T)
  BY <1>2, <1>4 DEF Push
<1>5. ASSUME NEW f \in T, NEW i \in DOMAIN frames, frames' = [frames EXCEPT ![i] = f]
      PROVE  frames' \in Seq(T)
  BY <1>2, <1>5
<1> QED
  BY <1>1, <1>3, <1>4, <1>5 DEF T

LEMMA KeptIf ==
  ASSUME \A m \in Messages : kind[m] # "unsent" => kind'[m] = kind[m],
         UNCHANGED server,
         settled \subseteq settled', rows \subseteq rows' \cup settled'
  PROVE  Kept
<1>1. \A m \in Messages, p \in Peers : Vouched(m, p) => Vouched(m, p)'
  BY VouchedUnchanged
<1>2. \A m \in Messages, p \in Peers : Covered(m, p) => Covered(m, p)'
  BY <1>1, CoveredKept
<1> QED
  BY <1>1, <1>2 DEF Kept

LEMMA NobodyKept ==
  ASSUME NobodyIsForgotten, Kept,
         \A m \in Messages, p \in Peers :
           kind'[m] \in {"card", "signal"} \/ outbox'[m] = "sent" =>
             kind[m] \in {"card", "signal"} \/ outbox[m] = "sent" \/ Covered(m, p)'
  PROVE  NobodyIsForgotten'
BY DEF NobodyIsForgotten, Kept

LEMMA FaultsKept ==
  ASSUME faults \in 0..MaxFaults,
         Spend \/ UNCHANGED faults \/ \E ok \in BOOLEAN : SpendUnless(ok)
  PROVE  faults' \in 0..MaxFaults
<1>1. Spend \/ UNCHANGED faults
  BY DEF SpendUnless
<1> QED
  BY <1>1, FaultsAssumption DEF Spend

LEMMA StoreKept ==
  ASSUME Store!LogInv, UNCHANGED server
  PROVE  Store!LogInv'
BY Store!NextLogInv DEF server, Store!dbVars

\* What a write does: a row leaves only for a pair that is settled then.
LEMMA WriteEffect ==
  ASSUME LinkInv, NEW pairs, NEW arrived, NEW all, arrived \subseteq pairs, pairs \subseteq Messages \X Peers,
         all \subseteq Messages \X Peers, arrived \subseteq Messages \X connected,
         Write(pairs, arrived, all), UNCHANGED <<modern, connected, greeted>>
  PROVE  /\ LinkInv'
         /\ settled \subseteq settled'
         /\ rows' \subseteq all /\ all \subseteq rows' \cup settled'
<1>1. /\ rows' = all \ Unconfirmed(pairs)
      /\ settled' = settled \cup arrived \cup {x \in pairs : x[2] \notin Receipting}
      /\ receipts' = receipts \cup {x \in arrived : x[2] \in modern /\ kind[x[1]] # "signal"}
  BY DEF Write
<1>2. Unconfirmed(pairs) = {x \in pairs : x[2] \notin Receipting}
  BY DEF Unconfirmed
<1> QED
  BY <1>1, <1>2 DEF LinkInv

LEMMA PairsAre ==
  ASSUME NEW m \in Messages, NEW S \in SUBSET Peers
  PROVE  /\ Pairs(m, S) \subseteq Messages \X Peers
         /\ \A T : S \subseteq T => Pairs(m, S) \subseteq Pairs(m, T) /\ Pairs(m, S) \subseteq Messages \X T
         /\ \A p \in S : <<m, p>> \in Pairs(m, S)
         /\ \A x \in Pairs(m, S) : x[1] = m
BY DEF Pairs

\* The first step for a message.
LEMMA CreateEffect ==
  ASSUME TablesInv, NEW m \in Messages, NEW type \in {"text", "card", "signal"},
         NEW state \in {"absent", "received", "pending", "sent"},
         type = "signal" <=> state = "absent",
         Create(m, type, state), UNCHANGED mapped, rows' \subseteq rows \cup Pairs(m, Peers)
  PROVE  /\ TablesInv'
         /\ \A k \in Messages : kind[k] # "unsent" => kind'[k] = kind[k]
         /\ kind'[m] = type /\ outbox'[m] = state
         /\ \A k \in Messages \ {m} : kind'[k] = kind[k] /\ outbox'[k] = outbox[k]
<1>1. /\ kind[m] = "unsent" /\ kind' = [kind EXCEPT ![m] = type]
      /\ outbox' = [outbox EXCEPT ![m] = state]
  BY DEF Create
<1>2. /\ kind'[m] = type /\ outbox'[m] = state
      /\ \A k \in Messages \ {m} : kind'[k] = kind[k] /\ outbox'[k] = outbox[k]
  BY <1>1 DEF TablesInv
<1>3. outbox[m] = "absent" /\ m \notin mapped
  BY <1>1 DEF TablesInv
<1>4. rows' \subseteq {k \in Messages : kind'[k] # "unsent"} \X Peers
  <2>1. rows \subseteq {k \in Messages : kind'[k] # "unsent"} \X Peers
    BY <1>1, <1>2 DEF TablesInv
  <2>2. Pairs(m, Peers) \subseteq {k \in Messages : kind'[k] # "unsent"} \X Peers
    BY <1>2 DEF Pairs
  <2> QED
    BY <2>1, <2>2
<1>5. mapped' \subseteq {k \in Messages : outbox'[k] # "absent"}
  BY <1>2, <1>3 DEF TablesInv
<1>6. /\ kind' \in [Messages -> {"unsent", "text", "card", "signal"}]
      /\ outbox' \in [Messages -> {"absent", "received", "pending", "sent", "serverAcked"}]
  BY <1>1 DEF TablesInv
<1>7. \A k \in Messages : kind'[k] \in {"unsent", "signal"} <=> outbox'[k] = "absent"
  BY <1>2 DEF TablesInv
<1> QED
  BY <1>1, <1>2, <1>4, <1>5, <1>6, <1>7 DEF TablesInv

-----------------------------------------------------------------------------
(* The composer and the envelopes.                                         *)

\* What a step has to show that leaves the store alone.
LEMMA StepInv ==
  ASSUME Inv, UNCHANGED <<server, settings>>,
         \A m \in Messages : kind[m] # "unsent" => kind'[m] = kind[m],
         settled \subseteq settled', rows \subseteq rows' \cup settled',
         TablesInv', LinkInv',
         \/ UNCHANGED frames
         \/ frames # << >> /\ Pop
         \/ \E f \in Frames' : Push(f)
         \/ \E f \in Frames', i \in DOMAIN frames : frames' = [frames EXCEPT ![i] = f],
         stray' \subseteq PostType,
         Spend \/ UNCHANGED faults \/ \E ok \in BOOLEAN : SpendUnless(ok),
         \A m \in Messages, p \in Peers :
           kind'[m] \in {"card", "signal"} \/ outbox'[m] = "sent" =>
             kind[m] \in {"card", "signal"} \/ outbox[m] = "sent" \/ Covered(m, p)'
  PROVE  Inv'
<1>1. Kept
  BY KeptIf
<1>2. frames' \in Seq(Frames')
  BY <1>1, StackInv DEF Inv
<1>3. NobodyIsForgotten'
  BY <1>1, NobodyKept DEF Inv
<1>4. faults' \in 0..MaxFaults
  BY FaultsKept DEF Inv
<1>5. Store!LogInv'
  BY StoreKept DEF Inv
<1>6. settings' \in Settings
  BY DEF Inv
<1> QED
  BY <1>2, <1>3, <1>4, <1>5, <1>6 DEF Inv

LEMMA SendTextP2POnlyInv ==
  ASSUME Inv, NEW m \in Messages, SendTextP2POnly(m)
  PROVE  Inv'
<1>1. PICK W \in SUBSET connected, A \in SUBSET connected :
        /\ A \subseteq W
        /\ SpendUnless(A = connected)
        /\ Write(Pairs(m, W), Pairs(m, A), rows \cup Pairs(m, Peers))
  BY DEF SendTextP2POnly
<1>2. /\ Create(m, "text", "received")
      /\ UNCHANGED <<server, mapped, settings, frames, modern, connected, greeted, stray>>
  BY DEF SendTextP2POnly
<1>3. rows \subseteq Messages \X Peers /\ W \subseteq Peers /\ A \subseteq W
  BY <1>1 DEF Inv, TablesInv, LinkInv
<1>4. /\ LinkInv' /\ settled \subseteq settled' /\ rows' \subseteq rows \cup Pairs(m, Peers)
      /\ rows \cup Pairs(m, Peers) \subseteq rows' \cup settled'
  <2>1. /\ Pairs(m, A) \subseteq Pairs(m, W) /\ Pairs(m, W) \subseteq Messages \X Peers
        /\ rows \cup Pairs(m, Peers) \subseteq Messages \X Peers
        /\ Pairs(m, A) \subseteq Messages \X connected
    BY <1>3, PairsAre
  <2> QED
    BY <1>1, <1>2, <2>1, WriteEffect DEF Inv
<1>5. /\ TablesInv'
      /\ \A k \in Messages : kind[k] # "unsent" => kind'[k] = kind[k]
      /\ kind'[m] = "text" /\ outbox'[m] = "received"
      /\ \A k \in Messages \ {m} : kind'[k] = kind[k] /\ outbox'[k] = outbox[k]
  BY <1>2, <1>4, CreateEffect DEF Inv
<1>6. \A k \in Messages, p \in Peers :
        kind'[k] \in {"card", "signal"} \/ outbox'[k] = "sent" =>
          kind[k] \in {"card", "signal"} \/ outbox[k] = "sent"
  BY <1>5
<1>7. Spend \/ UNCHANGED faults
  BY <1>1 DEF SpendUnless
<1> QED
  BY <1>2, <1>4, <1>5, <1>6, <1>7, StepInv DEF Inv

LEMMA StrandTextInv ==
  ASSUME Inv, NEW m \in Messages, StrandText(m)
  PROVE  Inv'
<1>1. /\ Create(m, "text", "pending")
      /\ UNCHANGED <<server, mapped, rows, settings, frames, modern, connected, greeted, receipts,
                     stray, settled, faults>>
  BY DEF StrandText, link
<1>2. /\ TablesInv'
      /\ \A k \in Messages : kind[k] # "unsent" => kind'[k] = kind[k]
      /\ kind'[m] = "text" /\ outbox'[m] = "pending"
      /\ \A k \in Messages \ {m} : kind'[k] = kind[k] /\ outbox'[k] = outbox[k]
  BY <1>1, CreateEffect DEF Inv
<1>3. LinkInv'
  BY <1>1 DEF Inv, LinkInv
<1>4. \A k \in Messages, p \in Peers :
        kind'[k] \in {"card", "signal"} \/ outbox'[k] = "sent" =>
          kind[k] \in {"card", "signal"} \/ outbox[k] = "sent"
  BY <1>2
<1> QED
  BY <1>1, <1>2, <1>3, <1>4, StepInv DEF Inv

\* A post of the composer: it has seen to those that it does not give to the service.
LEMMA SendFrame ==
  ASSUME NEW m \in Messages, kind'[m] = "text", NEW S \in SUBSET Peers,
         \A p \in Peers \ S : <<m, p>> \in rows' \cup settled'
  PROVE  Frame("send", "post", m, S, {}) \in Frames'
<1>1. Frame("send", "post", m, S, {}) \in FrameType
  BY DEF Frame, FrameType
<1>2. \A p \in Peers \ S : Covered(m, p)'
  BY DEF Covered
<1> QED
  BY <1>1, <1>2 DEF Frame, Frames

LEMMA SendTextViaServiceInv ==
  ASSUME Inv, NEW m \in Messages, SendTextViaService(m)
  PROVE  Inv'
<1>1. /\ Create(m, "text", "pending")
      /\ Push(Frame("send", "post", m, Peers, {}))
      /\ UNCHANGED <<server, mapped, rows, settings, modern, connected, greeted, receipts,
                     stray, settled, faults>>
  BY DEF SendTextViaService, link
<1>2. /\ TablesInv'
      /\ \A k \in Messages : kind[k] # "unsent" => kind'[k] = kind[k]
      /\ kind'[m] = "text" /\ outbox'[m] = "pending"
      /\ \A k \in Messages \ {m} : kind'[k] = kind[k] /\ outbox'[k] = outbox[k]
  BY <1>1, CreateEffect DEF Inv
<1>3. Frame("send", "post", m, Peers, {}) \in Frames'
  BY <1>2, SendFrame
<1>4. LinkInv'
  BY <1>1 DEF Inv, LinkInv
<1>5. \A k \in Messages, p \in Peers :
        kind'[k] \in {"card", "signal"} \/ outbox'[k] = "sent" =>
          kind[k] \in {"card", "signal"} \/ outbox[k] = "sent"
  BY <1>2
<1> QED
  BY <1>1, <1>2, <1>3, <1>4, <1>5, StepInv DEF Inv

LEMMA SendTextMixedInv ==
  ASSUME Inv, NEW m \in Messages, SendTextMixed(m)
  PROVE  Inv'
<1>0. PICK S \in Partition(Peers) \ {Peers} :
        \E W \in SUBSET (connected \ S) : \E A \in SUBSET W :
          /\ SpendUnless(A = connected \ S)
          /\ Write(Pairs(m, W), Pairs(m, A), rows \cup Pairs(m, Peers \ S))
          /\ Create(m, "text", IF S = {} /\ W = Peers THEN "sent" ELSE "pending")
          /\ IF W # connected \ S \/ S = {} THEN UNCHANGED frames
                                         ELSE Push(Frame("send", "post", m, S, {}))
  BY Zenon DEF SendTextMixed
<1>1. PICK W \in SUBSET (connected \ S), A \in SUBSET (connected \ S) :
        /\ A \subseteq W
        /\ SpendUnless(A = connected \ S)
        /\ Write(Pairs(m, W), Pairs(m, A), rows \cup Pairs(m, Peers \ S))
        /\ Create(m, "text", IF S = {} /\ W = Peers THEN "sent" ELSE "pending")
        /\ UNCHANGED frames \/ Push(Frame("send", "post", m, S, {}))
  BY <1>0
<1>2. UNCHANGED <<server, mapped, settings, modern, connected, greeted, stray>>
  BY DEF SendTextMixed
<1>3. /\ rows \subseteq Messages \X Peers /\ W \subseteq Peers \ S /\ W \subseteq connected
      /\ S \subseteq Peers /\ A \subseteq W
  BY <1>1 DEF Inv, TablesInv, LinkInv, Partition
<1> DEFINE all == rows \cup Pairs(m, Peers \ S)
<1>4. LinkInv' /\ settled \subseteq settled' /\ rows' \subseteq all /\ all \subseteq rows' \cup settled'
  <2>1. /\ Pairs(m, A) \subseteq Pairs(m, W) /\ Pairs(m, W) \subseteq Messages \X Peers
        /\ all \subseteq Messages \X Peers /\ Pairs(m, A) \subseteq Messages \X connected
    BY <1>3 DEF Pairs
  <2> HIDE DEF all
  <2>2. Write(Pairs(m, W), Pairs(m, A), all)
    BY <1>1 DEF all
  <2> QED
    BY <1>2, <2>1, <2>2, WriteEffect DEF Inv
<1> DEFINE state == IF S = {} /\ W = Peers THEN "sent" ELSE "pending"
<1>5. /\ TablesInv'
      /\ \A k \in Messages : kind[k] # "unsent" => kind'[k] = kind[k]
      /\ kind'[m] = "text" /\ outbox'[m] = state
      /\ \A k \in Messages \ {m} : kind'[k] = kind[k] /\ outbox'[k] = outbox[k]
  <2>1. rows' \subseteq rows \cup Pairs(m, Peers)
    BY <1>4 DEF Pairs
  <2>2. state \in {"absent", "received", "pending", "sent"} /\ state # "absent"
    OBVIOUS
  <2>3. Create(m, "text", state)
    BY <1>1
  <2> HIDE DEF state
  <2> QED
    BY <1>2, <2>1, <2>2, <2>3, CreateEffect DEF Inv
<1>6. \A p \in Peers \ S : <<m, p>> \in rows' \cup settled'
  BY <1>4, PairsAre
<1>7. Frame("send", "post", m, S, {}) \in Frames'
  BY <1>3, <1>5, <1>6, SendFrame
<1>8. ASSUME NEW k \in Messages, NEW p \in Peers,
             kind'[k] \in {"card", "signal"} \/ outbox'[k] = "sent"
      PROVE  kind[k] \in {"card", "signal"} \/ outbox[k] = "sent" \/ Covered(k, p)'
  <2>1. CASE k = m
    BY <1>5, <1>6, <1>8, <2>1 DEF Covered
  <2> QED
    BY <1>5, <1>8, <2>1
<1>9. Spend \/ UNCHANGED faults
  BY <1>1 DEF SpendUnless
<1> QED
  BY <1>1, <1>2, <1>4, <1>5, <1>7, <1>8, <1>9, StepInv DEF Inv

LEMMA PersistEnvelopeInv ==
  ASSUME Inv, NEW m \in Messages, PersistEnvelope(m)
  PROVE  Inv'
<1>1. PICK type \in {"card", "signal"} :
        Create(m, type, IF type = "card" THEN "received" ELSE "absent")
  BY DEF PersistEnvelope
<1>2. /\ rows' = rows \cup Pairs(m, Peers)
      /\ Push(Frame("envelope", "query", m, {}, {}))
      /\ UNCHANGED <<server, mapped, settings, modern, connected, greeted, receipts,
                     stray, settled, faults>>
  BY DEF PersistEnvelope, link
<1> DEFINE state == IF type = "card" THEN "received" ELSE "absent"
<1>3. /\ TablesInv'
      /\ \A k \in Messages : kind[k] # "unsent" => kind'[k] = kind[k]
      /\ kind'[m] = type /\ outbox'[m] = state
      /\ \A k \in Messages \ {m} : kind'[k] = kind[k] /\ outbox'[k] = outbox[k]
  <2>1. state \in {"absent", "received", "pending", "sent"} /\ (type = "signal" <=> state = "absent")
    OBVIOUS
  <2>2. Create(m, type, state)
    BY <1>1
  <2> HIDE DEF state
  <2> QED
    BY <1>2, <2>1, <2>2, CreateEffect DEF Inv
<1>4. Frame("envelope", "query", m, {}, {}) \in Frames'
  BY <1>3 DEF Frame, FrameType, Frames
<1>5. LinkInv'
  BY <1>2 DEF Inv, LinkInv
<1>6. ASSUME NEW k \in Messages, NEW p \in Peers,
             kind'[k] \in {"card", "signal"} \/ outbox'[k] = "sent"
      PROVE  kind[k] \in {"card", "signal"} \/ outbox[k] = "sent" \/ Covered(k, p)'
  <2>1. CASE k = m
    BY <1>2, <2>1, PairsAre DEF Covered
  <2> QED
    BY <1>3, <1>6, <2>1
<1> QED
  BY <1>2, <1>3, <1>4, <1>5, <1>6, StepInv DEF Inv

LEMMA MarkedEffect ==
  ASSUME TablesInv, NEW m \in Messages, kind[m] # "unsent", NEW state \in {"sent", "serverAcked"},
         UNCHANGED kind, outbox' = Marked(m, state) \/ UNCHANGED outbox,
         mapped' = mapped \/ (kind[m] # "signal" /\ mapped' = mapped \cup {m}),
         rows' \subseteq rows \cup Pairs(m, Peers)
  PROVE  /\ TablesInv'
         /\ \A k \in Messages : outbox'[k] = outbox[k] \/ (k = m /\ outbox'[k] = state)
<1>1. /\ \A k \in Messages : outbox'[k] = outbox[k] \/ (k = m /\ outbox'[k] = state)
      /\ kind[m] = "signal" => outbox' = outbox
      /\ outbox' \in [Messages -> {"absent", "received", "pending", "sent", "serverAcked"}]
  BY DEF Marked, TablesInv
<1>2. \A k \in Messages : kind'[k] \in {"unsent", "signal"} <=> outbox'[k] = "absent"
  BY <1>1 DEF TablesInv
<1>3. mapped' \subseteq {k \in Messages : outbox'[k] # "absent"}
  BY <1>1, <1>2 DEF TablesInv
<1>4. rows' \subseteq {k \in Messages : kind'[k] # "unsent"} \X Peers
  BY DEF TablesInv, Pairs
<1> QED
  BY <1>1, <1>2, <1>3, <1>4 DEF TablesInv

\* A handler other than the composer's goes on to a post.
LEMMA PostFrame ==
  ASSUME NEW f \in Frames, UNCHANGED kind, f.handler # "send", NEW S \in SUBSET Peers
  PROVE  /\ f.step = "query" => [f EXCEPT !.step = "post", !.service = S] \in Frames'
         /\ f.step = "retry" => \A m \in Messages : kind[m] # "unsent" =>
              [f EXCEPT !.step = "post", !.message = m, !.service = S] \in Frames'
<1>0. f \in FrameType
  BY DEF Frames
<1>1. ASSUME f.step = "query"
      PROVE  [f EXCEPT !.step = "post", !.service = S] \in Frames'
  <2> DEFINE g == [f EXCEPT !.step = "post", !.service = S]
  <2>1. g \in FrameType
    BY <1>0 DEF FrameType
  <2>2. /\ g.step = "post" /\ g.service = S /\ g.handler = f.handler
        /\ g.message = f.message /\ g.todo = f.todo
    BY <1>0 DEF FrameType
  <2> HIDE DEF g
  <2>3. g \in Frames'
    BY <1>1, <2>1, <2>2 DEF Frames
  <2> QED
    BY <2>3 DEF g
<1>2. ASSUME f.step = "retry", NEW m \in Messages, kind[m] # "unsent"
      PROVE  [f EXCEPT !.step = "post", !.message = m, !.service = S] \in Frames'
  <2> DEFINE g == [f EXCEPT !.step = "post", !.message = m, !.service = S]
  <2>1. g \in FrameType
    BY <1>0 DEF FrameType
  <2>2. /\ g.step = "post" /\ g.service = S /\ g.handler = f.handler
        /\ g.message = m /\ g.todo = f.todo
    BY <1>0 DEF FrameType
  <2> HIDE DEF g
  <2>3. g \in Frames'
    BY <1>2, <2>1, <2>2 DEF Frames
  <2> QED
    BY <2>3 DEF g
<1> QED
  BY <1>1, <1>2

LEMMA SendEnvelopeInv ==
  ASSUME Inv, SendEnvelope
  PROVE  Inv'
<1> DEFINE m == Top.message
<1>1. PICK S \in Partition(Peers) :
        LET P == Peers \ S
            post == Continue([Top EXCEPT !.step = "post", !.service = S])
        IN  \/ /\ P = {} /\ post
               /\ UNCHANGED <<rows, outbox, receipts, settled, faults>>
            \/ /\ P # {} /\ ~P2PAllowed /\ Pop
               /\ UNCHANGED <<rows, outbox, receipts, settled, faults>>
            \/ /\ P # {} /\ P2PAllowed
               /\ \E W \in SUBSET (P \cap connected) : \E A \in SUBSET W :
                    /\ SpendUnless(A = P \cap connected)
                    /\ Write(Pairs(m, W), Pairs(m, A), rows)
                    /\ IF W = P /\ S # {} THEN post ELSE Pop
                    /\ outbox' = IF W = P /\ S = {} THEN Marked(m, "sent") ELSE outbox
  BY Zenon DEF SendEnvelope
<1>2. /\ frames # << >> /\ Top.step = "query"
      /\ UNCHANGED <<server, kind, mapped, settings, modern, connected, greeted, stray>>
  BY DEF SendEnvelope, OnTop
<1>3. /\ Top \in Frames /\ Len(frames) \in DOMAIN frames /\ Top.handler = "envelope"
      /\ m \in Messages /\ kind[m] \in {"card", "signal"} /\ S \subseteq Peers
  BY <1>2, TopInv DEF Inv, Frames, Partition
<1>4. [Top EXCEPT !.step = "post", !.service = S] \in Frames'
  BY <1>2, <1>3, PostFrame
<1> DEFINE post == Continue([Top EXCEPT !.step = "post", !.service = S])
<1>5. post => \E f \in Frames', i \in DOMAIN frames : frames' = [frames EXCEPT ![i] = f]
  BY <1>3, <1>4 DEF Continue
<1>6. CASE (post \/ Pop) /\ UNCHANGED <<rows, outbox, receipts, settled, faults>>
  <2>1. TablesInv' /\ LinkInv'
    BY <1>2, <1>6 DEF Inv, TablesInv, LinkInv
  <2> HIDE DEF post
  <2> QED
    BY <1>2, <1>5, <1>6, <2>1, StepInv DEF Inv
<1>7. ASSUME NEW W \in SUBSET ((Peers \ S) \cap connected), NEW A \in SUBSET W,
             SpendUnless(A = (Peers \ S) \cap connected),
             Write(Pairs(m, W), Pairs(m, A), rows),
             post \/ Pop,
             outbox' = IF W = Peers \ S /\ S = {} THEN Marked(m, "sent") ELSE outbox
      PROVE  Inv'
  <2>0. rows \subseteq Messages \X Peers
    BY DEF Inv, TablesInv
  <2>1. LinkInv' /\ settled \subseteq settled' /\ rows' \subseteq rows /\ rows \subseteq rows' \cup settled'
    <3>1. /\ Pairs(m, A) \subseteq Pairs(m, W) /\ Pairs(m, W) \subseteq Messages \X Peers
          /\ Pairs(m, A) \subseteq Messages \X connected
      BY <1>3 DEF Pairs
    <3> HIDE DEF m
    <3> QED
      BY <1>2, <1>7, <2>0, <3>1, WriteEffect DEF Inv
  <2>2. outbox' = Marked(m, "sent") \/ UNCHANGED outbox
    BY <1>7
  <2> HIDE DEF m, post
  <2>3. TablesInv'
    BY <1>2, <1>3, <2>1, <2>2, MarkedEffect DEF Inv
  <2>4. ASSUME NEW k \in Messages, NEW p \in Peers,
               kind'[k] \in {"card", "signal"} \/ outbox'[k] = "sent"
        PROVE  kind[k] \in {"card", "signal"} \/ outbox[k] = "sent"
    BY <1>2, <1>3, <2>1, <2>2, <2>4, MarkedEffect DEF Inv
  <2>5. Spend \/ UNCHANGED faults
    BY <1>7 DEF SpendUnless
  <2> QED
    BY <1>2, <1>5, <1>7, <2>1, <2>3, <2>4, <2>5, StepInv DEF Inv
<1> QED
  BY <1>1, <1>6, <1>7

-----------------------------------------------------------------------------
(* The posts and their ends.                                               *)

\* A step of the service.
LEMMA ServiceStepInv ==
  ASSUME Inv, NEW post \in PostType, Post(post),
         UNCHANGED <<tables, settings, modern, link, settled, faults>>,
         stray' \subseteq stray,
         \/ UNCHANGED frames
         \/ \E f \in Frames', i \in DOMAIN frames : frames' = [frames EXCEPT ![i] = f]
  PROVE  Inv'
<1>1. UNCHANGED <<kind, outbox, mapped, rows, connected, greeted, receipts>>
  BY DEF tables, link
<1>2. /\ Store!LogInv'
      /\ \A m \in Messages, p \in Peers : Vouched(m, p) => Vouched(m, p)'
  BY PostEffect DEF Inv
<1>3. \A m \in Messages, p \in Peers : Covered(m, p) => Covered(m, p)'
  BY <1>1, <1>2, CoveredKept
<1>4. Kept
  BY <1>1, <1>2, <1>3 DEF Kept
<1>5. frames' \in Seq(Frames')
  BY <1>4, StackInv DEF Inv
<1>6. NobodyIsForgotten'
  BY <1>1, <1>4, NobodyKept DEF Inv
<1>7. TablesInv' /\ LinkInv'
  BY <1>1 DEF Inv, TablesInv, LinkInv
<1> QED
  BY <1>2, <1>5, <1>6, <1>7 DEF Inv

LEMMA HandlePostInv ==
  ASSUME Inv, HandlePost
  PROVE  Inv'
<1>1. PICK i \in DOMAIN frames :
        /\ frames[i].step = "post"
        /\ Post(StrayPost(frames[i]))
        /\ frames' = [frames EXCEPT ![i].step = "reply"]
  BY DEF HandlePost
<1>2. UNCHANGED <<tables, settings, modern, link, stray, settled, faults>>
  BY DEF HandlePost
<1>0. PICK f : f = frames[i]
  OBVIOUS
<1> DEFINE g == [f EXCEPT !.step = "reply"]
           post == StrayPost(f)
<1>3. f \in Frames /\ f \in FrameType /\ f.step = "post"
  BY <1>0, <1>1 DEF Inv, Frames
<1>4. /\ post \in PostType /\ post.message = f.message /\ post.service = f.service
      /\ f.handler # "send" => post.content = "envelope"
  BY <1>3 DEF StrayPost, PostType, Content, Frames, FrameType
<1>5. /\ \A m \in Messages, p \in Peers : Vouched(m, p) => Vouched(m, p)'
      /\ post.content = "envelope" => \A p \in post.service : Vouched(post.message, p)'
  <2> HIDE DEF post
  <2>1. Post(post)
    BY <1>0, <1>1 DEF post
  <2> QED
    BY <1>4, <2>1, PostEffect DEF Inv
<1>6. UNCHANGED <<kind, rows>>
  BY <1>2 DEF tables
<1>7. \A m \in Messages, p \in Peers : Covered(m, p) => Covered(m, p)'
  BY <1>2, <1>5, <1>6, CoveredKept
<1>8. /\ g \in FrameType /\ g.step = "reply" /\ g.handler = f.handler /\ g.message = f.message
      /\ g.service = f.service /\ g.todo = f.todo
  BY <1>3 DEF FrameType
<1>9. frames' = [frames EXCEPT ![i] = g]
  BY <1>0, <1>1 DEF Inv
<1> HIDE DEF g, post
<1>10. g \in Frames'
  <2>1. f.message \in Messages /\ kind'[f.message] # "unsent"
    BY <1>3, <1>6 DEF Frames
  <2>2. g.handler = "send" => \A p \in Peers \ g.service : Covered(g.message, p)'
    BY <1>3, <1>7, <1>8, <2>1 DEF Frames
  <2>3. g.handler # "send" => \A p \in g.service : Vouched(g.message, p)'
    BY <1>4, <1>5, <1>8
  <2>4. /\ g.handler = "envelope" => kind'[g.message] \in {"card", "signal"}
        /\ \A x \in g.todo : kind'[x[1]] # "unsent"
    BY <1>3, <1>6, <1>8 DEF Frames
  <2> QED
    BY <1>8, <2>1, <2>2, <2>3, <2>4 DEF Frames
<1>11. Post(post)
  BY <1>0, <1>1 DEF post
<1> QED
  BY <1>1, <1>2, <1>4, <1>9, <1>10, <1>11, ServiceStepInv

LEMMA HandleStrayPostInv ==
  ASSUME Inv, HandleStrayPost
  PROVE  Inv'
<1>1. PICK post \in stray : Post(post) /\ stray' = stray \ {post}
  BY DEF HandleStrayPost
<1>2. UNCHANGED <<tables, settings, frames, modern, link, settled, faults>>
  BY DEF HandleStrayPost
<1>3. post \in PostType /\ stray' \subseteq stray
  BY <1>1 DEF Inv
<1> QED
  BY <1>1, <1>2, <1>3, ServiceStepInv

\* Both ends of a post leave a stack of frames: a sweep goes on with less to do.
LEMMA EndPostStack ==
  ASSUME Inv, OnTop("post") \/ OnTop("reply"), UNCHANGED kind, Succeed \/ Fail
  PROVE  \/ frames # << >> /\ Pop
         \/ \E f \in Frames', i \in DOMAIN frames : frames' = [frames EXCEPT ![i] = f]
<1>1. frames # << >> /\ Top \in Frames /\ Len(frames) \in DOMAIN frames
  BY TopInv DEF OnTop, Inv
<1>2. ASSUME NEW todo \in SUBSET Top.todo
      PROVE  Frame("sweep", "retry", Nothing, {}, todo) \in Frames'
  <2> DEFINE g == Frame("sweep", "retry", Nothing, {}, todo)
  <2>1. Top \in FrameType
    BY <1>1 DEF Frames
  <2>2. g \in FrameType
    BY <1>2, <2>1 DEF Frame, FrameType
  <2>3. g.step = "retry" /\ g.handler = "sweep" /\ g.todo = todo
    BY DEF Frame
  <2>4. \A x \in todo : kind'[x[1]] # "unsent"
    BY <1>1, <1>2 DEF Frames
  <2> HIDE DEF g
  <2>5. g \in Frames'
    BY <2>2, <2>3, <2>4 DEF Frames
  <2> QED
    BY <2>5 DEF g
<1>3. {x \in Top.todo : x[1] # Top.message} \in SUBSET Top.todo /\ {} \in SUBSET Top.todo
  OBVIOUS
<1> QED
  BY <1>1, <1>2, <1>3 DEF Succeed, Fail, Continue

\* A frame whose call is over acts for a message that was sent.
LEMMA PostedMessage ==
  ASSUME Inv, OnTop("post") \/ OnTop("reply")
  PROVE  /\ Top \in Frames /\ Top.message \in Messages /\ kind[Top.message] # "unsent"
         /\ Top.service \subseteq Peers /\ Top.handler \in {"send", "envelope", "sweep"}
<1>1. Top \in Frames /\ Top.step \in {"post", "reply"}
  BY TopInv DEF OnTop, Inv
<1> QED
  BY <1>1 DEF Frames, FrameType

LEMMA FinishPostInv ==
  ASSUME Inv, FinishPost
  PROVE  Inv'
<1> DEFINE m == Top.message
<1>1. /\ OnTop("reply")
      /\ mapped' = IF kind[m] = "signal" THEN mapped ELSE mapped \cup {m}
      /\ outbox' = Marked(m, "serverAcked")
      /\ rows' = IF Top.handler = "send" THEN rows ELSE rows \ Pairs(m, Top.service)
      /\ Succeed
      /\ UNCHANGED <<server, kind, settings, modern, connected, greeted, receipts, stray,
                     settled, faults>>
  BY DEF FinishPost, link
<1>2. Top \in Frames /\ m \in Messages /\ kind[m] # "unsent"
  BY <1>1, PostedMessage
<1>3. TablesInv' /\ \A k \in Messages : outbox'[k] = outbox[k] \/ (k = m /\ outbox'[k] = "serverAcked")
  <2>1. mapped' = mapped \/ (kind[m] # "signal" /\ mapped' = mapped \cup {m})
    BY <1>1
  <2>2. rows' \subseteq rows
    BY <1>1
  <2> HIDE DEF m
  <2> QED
    BY <1>1, <1>2, <2>1, <2>2, MarkedEffect DEF Inv
<1>4. ASSUME NEW k \in Messages, NEW p \in Peers
      PROVE  Vouched(k, p) => Vouched(k, p)'
  BY <1>1, VouchedUnchanged
<1>5. ASSUME NEW k \in Messages, NEW p \in Peers, <<k, p>> \in rows
      PROVE  <<k, p>> \in rows' \/ Vouched(k, p)'
  <2>1. CASE <<k, p>> \in Pairs(m, Top.service) /\ Top.handler # "send"
    <3>1. k = m /\ p \in Top.service
      BY <2>1 DEF Pairs
    <3>2. Vouched(k, p)
      BY <1>1, <1>2, <2>1, <3>1 DEF Frames, OnTop
    <3> QED
      BY <1>4, <3>2
  <2> QED
    BY <1>1, <1>5, <2>1
<1>6. \A k \in Messages, p \in Peers : Covered(k, p) => Covered(k, p)'
  BY <1>1, <1>4, <1>5, CoveredKept
<1>7. Kept
  BY <1>1, <1>4, <1>6 DEF Kept
<1>8. frames' \in Seq(Frames')
  BY <1>1, <1>7, EndPostStack, StackInv DEF Inv
<1>9. NobodyIsForgotten'
  BY <1>1, <1>3, <1>7, NobodyKept DEF Inv
<1>10. LinkInv' /\ Store!LogInv'
  BY <1>1, StoreKept DEF Inv, LinkInv
<1> QED
  BY <1>1, <1>3, <1>8, <1>9, <1>10 DEF Inv

LEMMA FailToFinishInv ==
  ASSUME Inv, FailToFinish
  PROVE  Inv'
<1> DEFINE m == Top.message
<1>1. /\ OnTop("reply") /\ kind[m] # "signal" /\ Spend
      /\ mapped' \in {mapped, mapped \cup {m}}
      /\ Fail
      /\ UNCHANGED <<server, kind, outbox, rows, settings, modern, connected, greeted, receipts,
                     stray, settled>>
  BY DEF FailToFinish, link
<1>2. m \in Messages /\ kind[m] # "unsent"
  BY <1>1, PostedMessage
<1>3. TablesInv'
  <2>1. mapped' = mapped \/ (kind[m] # "signal" /\ mapped' = mapped \cup {m})
    BY <1>1
  <2> HIDE DEF m
  <2> QED
    BY <1>1, <1>2, <2>1, MarkedEffect DEF Inv
<1>4. LinkInv'
  BY <1>1 DEF Inv, LinkInv
<1>5. \/ frames # << >> /\ Pop
      \/ \E f \in Frames', i \in DOMAIN frames : frames' = [frames EXCEPT ![i] = f]
  BY <1>1, EndPostStack
<1> QED
  BY <1>1, <1>3, <1>4, <1>5, StepInv DEF Inv

LEMMA LosePostInv ==
  ASSUME Inv, LosePost
  PROVE  Inv'
<1> DEFINE m == Top.message
           S == Top.service
           all == IF Top.handler = "send" THEN rows \cup Pairs(m, S) ELSE rows
<1>1. /\ OnTop("post") \/ OnTop("reply")
      /\ Spend /\ Fail
      /\ UNCHANGED <<server, kind, mapped, settings, modern, connected, greeted>>
  BY DEF LosePost
<1>2. /\ Top \in Frames /\ m \in Messages /\ kind[m] # "unsent" /\ S \subseteq Peers
      /\ Top.handler \in {"send", "envelope", "sweep"}
  BY <1>1, PostedMessage
<1>3. stray' \subseteq PostType
  <2>1. StrayPost(Top) \in PostType
    BY <1>2 DEF StrayPost, PostType, Content
  <2> QED
    BY <2>1 DEF LosePost, Inv
<1>4. \/ frames # << >> /\ Pop
      \/ \E f \in Frames', i \in DOMAIN frames : frames' = [frames EXCEPT ![i] = f]
  BY <1>1, EndPostStack
<1>5. CASE UNCHANGED <<rows, outbox, receipts, settled>>
  <2>1. TablesInv' /\ LinkInv'
    BY <1>1, <1>5 DEF Inv, TablesInv, LinkInv
  <2> QED
    BY <1>1, <1>3, <1>4, <1>5, <2>1, StepInv DEF Inv
<1>6. CASE Top.handler # "sweep" /\
           \E W \in SUBSET (S \cap connected) : \E A \in SUBSET W :
              /\ Write(Pairs(m, W), Pairs(m, A), all)
              /\ outbox' = IF W = S THEN Marked(m, "sent") ELSE outbox
  <2>1. PICK W \in SUBSET (S \cap connected), A \in SUBSET (S \cap connected) :
          /\ A \subseteq W
          /\ Write(Pairs(m, W), Pairs(m, A), all)
          /\ outbox' = IF W = S THEN Marked(m, "sent") ELSE outbox
    BY <1>6
  <2>2. /\ LinkInv' /\ settled \subseteq settled'
        /\ rows' \subseteq all /\ all \subseteq rows' \cup settled'
    <3>1. /\ Pairs(m, A) \subseteq Pairs(m, W) /\ Pairs(m, W) \subseteq Messages \X Peers
          /\ Pairs(m, A) \subseteq Messages \X connected /\ all \subseteq Messages \X Peers
      BY <1>2, <2>1 DEF Pairs, Inv, TablesInv
    <3> HIDE DEF m, S, all
    <3> QED
      BY <1>1, <2>1, <3>1, WriteEffect DEF Inv
  <2>3. rows \subseteq all /\ all \subseteq rows \cup Pairs(m, Peers)
    BY <1>2 DEF Pairs
  <2>4. TablesInv' /\ \A k \in Messages : outbox'[k] = outbox[k] \/ (k = m /\ outbox'[k] = "sent")
    <3>1. outbox' = Marked(m, "sent") \/ UNCHANGED outbox
      BY <2>1
    <3>2. rows' \subseteq rows \cup Pairs(m, Peers)
      BY <2>2, <2>3
    <3> HIDE DEF m, S, all
    <3> QED
      BY <1>1, <1>2, <3>1, <3>2, MarkedEffect DEF Inv
  <2>5. Kept
    BY <1>1, <2>2, <2>3, KeptIf
  <2>6. ASSUME NEW k \in Messages, NEW p \in Peers,
               kind'[k] \in {"card", "signal"} \/ outbox'[k] = "sent"
        PROVE  kind[k] \in {"card", "signal"} \/ outbox[k] = "sent" \/ Covered(k, p)'
    <3>1. CASE k = m /\ Top.handler = "send"
      <4>1. CASE p \in S
        <5>1. <<k, p>> \in all
          BY <3>1, <4>1 DEF Pairs
        <5> QED
          BY <2>2, <5>1 DEF Covered
      <4>2. CASE p \notin S
        BY <1>2, <2>5, <3>1, <4>2 DEF Frames, Kept
      <4> QED
        BY <4>1, <4>2
    <3>2. CASE k = m /\ Top.handler = "envelope"
      BY <1>2, <3>2 DEF Frames
    <3>3. CASE k # m
      BY <1>1, <2>4, <2>6, <3>3
    <3> QED
      BY <1>2, <1>6, <3>1, <3>2, <3>3
  <2>7. rows \subseteq rows' \cup settled'
    BY <2>2, <2>3
  <2> HIDE DEF m, S, all
  <2> QED
    BY <1>1, <1>3, <1>4, <2>2, <2>4, <2>6, <2>7, StepInv DEF Inv
<1> QED
  BY <1>5, <1>6 DEF LosePost

-----------------------------------------------------------------------------
(* The sweep.                                                              *)

LEMMA StartSweepInv ==
  ASSUME Inv, StartSweep
  PROVE  Inv'
<1>1. PICK reachable \in BOOLEAN :
        /\ SpendUnless(reachable \/ ~ServiceUsable)
        /\ Push(Frame("sweep", "retry", Nothing, {},
                      IF reachable /\ ServiceUsable THEN rows ELSE {}))
  BY DEF StartSweep
<1>2. UNCHANGED <<server, kind, outbox, mapped, rows, settings, modern, connected, greeted,
                  receipts, stray, settled>>
  BY DEF StartSweep, tables, link
<1>3. PICK todo \in SUBSET rows : Push(Frame("sweep", "retry", Nothing, {}, todo))
  BY <1>1
<1>4. Frame("sweep", "retry", Nothing, {}, todo) \in Frames'
  <2>1. rows \subseteq Messages \X Peers /\ \A x \in rows : kind[x[1]] # "unsent"
    BY DEF Inv, TablesInv
  <2> DEFINE g == Frame("sweep", "retry", Nothing, {}, todo)
  <2>2. g \in FrameType /\ g.step = "retry" /\ g.handler = "sweep" /\ g.todo = todo
    BY <2>1 DEF Frame, FrameType
  <2> HIDE DEF g
  <2>3. g \in Frames'
    BY <1>2, <2>1, <2>2 DEF Frames
  <2> QED
    BY <2>3 DEF g
<1>5. TablesInv' /\ LinkInv'
  BY <1>2 DEF Inv, TablesInv, LinkInv
<1>6. Spend \/ UNCHANGED faults
  BY <1>1 DEF SpendUnless
<1> QED
  BY <1>2, <1>3, <1>4, <1>5, <1>6, StepInv DEF Inv

LEMMA RetryViaServiceInv ==
  ASSUME Inv, RetryViaService
  PROVE  Inv'
<1>1. PICK m \in {x[1] : x \in Top.todo}, S \in SUBSET Peers :
        /\ Spend \/ UNCHANGED faults
        /\ \/ Continue([Top EXCEPT !.step = "post", !.message = m, !.service = S])
           \/ Continue([Top EXCEPT !.todo = {x \in @ : x[1] # m}])
  BY DEF RetryViaService, Partition, TargetsIn, SpendUnless
<1>2. /\ frames # << >> /\ Top.step = "retry"
      /\ UNCHANGED <<server, kind, outbox, mapped, rows, settings, modern, connected, greeted,
                     receipts, stray, settled>>
  BY DEF RetryViaService, OnTop, tables, link
<1>3. /\ Top \in Frames /\ Top \in FrameType /\ Len(frames) \in DOMAIN frames
      /\ Top.handler = "sweep" /\ m \in Messages /\ kind[m] # "unsent"
  BY <1>1, <1>2, TopInv DEF Inv, Frames, FrameType
<1>4. [Top EXCEPT !.step = "post", !.message = m, !.service = S] \in Frames'
  BY <1>2, <1>3, PostFrame
<1>5. [Top EXCEPT !.todo = {x \in @ : x[1] # m}] \in Frames'
  <2> DEFINE g == [Top EXCEPT !.todo = {x \in @ : x[1] # m}]
  <2>1. /\ g \in FrameType /\ g.step = "retry" /\ g.handler = "sweep"
        /\ g.todo \subseteq Top.todo
    BY <1>2, <1>3 DEF FrameType
  <2>2. \A x \in g.todo : kind'[x[1]] # "unsent"
    BY <1>2, <1>3, <2>1 DEF Frames
  <2>3. PICK h : h = g
    OBVIOUS
  <2> HIDE DEF g
  <2>4. h \in Frames'
    BY <2>1, <2>2, <2>3 DEF Frames
  <2> QED
    BY <2>3, <2>4 DEF g
<1>6. \E f \in Frames', i \in DOMAIN frames : frames' = [frames EXCEPT ![i] = f]
  BY <1>1, <1>3, <1>4, <1>5 DEF Continue
<1>7. TablesInv' /\ LinkInv'
  BY <1>2 DEF Inv, TablesInv, LinkInv
<1> QED
  BY <1>1, <1>2, <1>6, <1>7, StepInv DEF Inv

LEMMA EndSweepInv ==
  ASSUME Inv, EndSweep
  PROVE  Inv'
<1> DEFINE due == {x \in rows : x[2] \in connected}
<1>1. PICK W \in SUBSET due, A \in SUBSET due :
        A \subseteq W /\ SpendUnless(A = due) /\ Write(W, A, rows)
  BY DEF EndSweep
<1>2. /\ frames # << >> /\ Pop
      /\ UNCHANGED <<server, kind, outbox, mapped, settings, modern, connected, greeted, stray>>
  BY DEF EndSweep, OnTop
<1>3. rows \subseteq Messages \X Peers /\ A \subseteq Messages \X connected /\ W \subseteq rows
  BY DEF Inv, TablesInv
<1>4. LinkInv' /\ settled \subseteq settled' /\ rows' \subseteq rows /\ rows \subseteq rows' \cup settled'
  BY <1>1, <1>2, <1>3, WriteEffect DEF Inv
<1>5. TablesInv'
  BY <1>2, <1>4 DEF Inv, TablesInv
<1>6. Spend \/ UNCHANGED faults
  BY <1>1 DEF SpendUnless
<1> QED
  BY <1>2, <1>4, <1>5, <1>6, StepInv DEF Inv

-----------------------------------------------------------------------------
(* The connections, the peers and the end of the process.                  *)

\* A step that leaves the messages and the stack alone.
LEMMA OutsideStep ==
  ASSUME Inv, UNCHANGED <<server, kind, outbox, mapped, settings, frames, stray>>,
         settled \subseteq settled', rows' \subseteq rows, rows \subseteq rows' \cup settled',
         LinkInv', Spend \/ UNCHANGED faults
  PROVE  Inv'
<1>1. TablesInv'
  BY DEF Inv, TablesInv
<1> QED
  BY <1>1, StepInv DEF Inv

LEMMA HelloInv ==
  ASSUME Inv, NEW p \in Peers, Hello(p)
  PROVE  Inv'
<1> DEFINE due == {x \in rows : x[2] = p}
<1>1. PICK W \in SUBSET due, A \in SUBSET due :
        /\ A \subseteq W /\ SpendUnless(A = due)
        /\ \/ /\ settled' = settled \cup A
              /\ receipts' = receipts \cup {x \in A : kind[x[1]] # "signal"}
              /\ UNCHANGED rows
           \/ settled' = settled \cup W /\ rows' = rows \ W /\ UNCHANGED receipts
  BY DEF Hello
<1>2. /\ p \in connected /\ greeted' = greeted \cup {p}
      /\ UNCHANGED <<server, kind, outbox, mapped, settings, frames, modern, connected, stray>>
  BY DEF Hello
<1>3. W \subseteq Messages \X Peers /\ A \subseteq Messages \X connected
  BY <1>2 DEF Inv, TablesInv
<1>4. settled \subseteq settled' /\ rows' \subseteq rows /\ rows \subseteq rows' \cup settled'
  BY <1>1
<1>5. LinkInv'
  BY <1>1, <1>2, <1>3 DEF Inv, LinkInv
<1>6. Spend \/ UNCHANGED faults
  BY <1>1 DEF SpendUnless
<1> QED
  BY <1>2, <1>4, <1>5, <1>6, OutsideStep

LEMMA PeerStepInv ==
  ASSUME Inv, NEW p \in Peers, Connect(p) \/ Disconnect(p) \/ PeerSyncs(p) \/ Upgrade(p)
  PROVE  Inv'
<1>1. UNCHANGED <<server, kind, outbox, mapped, rows, settings, frames, stray>>
  BY DEF Connect, Disconnect, PeerSyncs, Upgrade, tables
<1>2. settled \subseteq settled' /\ (Spend \/ UNCHANGED faults)
  BY DEF Connect, Disconnect, PeerSyncs, Upgrade
<1>3. LinkInv'
  <2>1. CASE Connect(p)
    BY <2>1 DEF Connect, Inv, LinkInv
  <2>2. CASE Disconnect(p)
    BY <2>2 DEF Disconnect, Inv, LinkInv
  <2>3. CASE PeerSyncs(p)
    BY <2>3 DEF PeerSyncs, Inv, LinkInv, link, DB!Stored
  <2>4. CASE Upgrade(p)
    BY <2>4 DEF Upgrade, Inv, LinkInv, link
  <2> QED
    BY <2>1, <2>2, <2>3, <2>4
<1> QED
  BY <1>1, <1>2, <1>3, OutsideStep

LEMMA ReceiveReceiptInv ==
  ASSUME Inv, NEW m \in Messages, NEW p \in Peers, ReceiveReceipt(m, p)
  PROVE  Inv'
<1>1. /\ <<m, p>> \in receipts
      /\ receipts' = receipts \ {<<m, p>>} /\ rows' = rows \ {<<m, p>>}
      /\ UNCHANGED <<server, kind, outbox, mapped, settings, frames, modern, connected, greeted,
                     stray, settled, faults>>
  BY DEF ReceiveReceipt
<1>2. rows' \subseteq rows /\ rows \subseteq rows' \cup settled'
  BY <1>1 DEF Inv, LinkInv
<1>3. LinkInv'
  BY <1>1 DEF Inv, LinkInv
<1> QED
  BY <1>1, <1>2, <1>3, OutsideStep

LEMMA CrashInv ==
  ASSUME Inv, Crash
  PROVE  Inv'
<1>1. /\ Spend
      /\ frames' = << >>
      /\ connected' = {} /\ greeted' = {} /\ receipts' = {}
      /\ UNCHANGED <<server, mapped, rows, settings, modern, settled>>
      /\ UNCHANGED <<kind, outbox>> \/ \E m \in Messages : Create(m, "text", "received")
  BY DEF Crash
<1>2. stray' \subseteq PostType
  <2>1. ASSUME NEW i \in DOMAIN frames, frames[i].step = "post"
        PROVE  StrayPost(frames[i]) \in PostType
    <3>1. frames[i] \in Frames
      BY DEF Inv
    <3> QED
      BY <2>1, <3>1 DEF Frames, FrameType, StrayPost, PostType, Content
  <2> QED
    BY <2>1 DEF Crash, Inv
<1>3. /\ TablesInv' /\ \A k \in Messages : kind[k] # "unsent" => kind'[k] = kind[k]
      /\ \A k \in Messages : kind'[k] \in {"card", "signal"} \/ outbox'[k] = "sent" =>
           kind[k] \in {"card", "signal"} \/ outbox[k] = "sent"
  <2>1. CASE UNCHANGED <<kind, outbox>>
    BY <1>1, <2>1 DEF Inv, TablesInv
  <2>2. ASSUME NEW m \in Messages, Create(m, "text", "received")
        PROVE  /\ TablesInv' /\ \A k \in Messages : kind[k] # "unsent" => kind'[k] = kind[k]
               /\ \A k \in Messages : kind'[k] \in {"card", "signal"} \/ outbox'[k] = "sent" =>
                    kind[k] \in {"card", "signal"} \/ outbox[k] = "sent"
    <3>1. /\ TablesInv' /\ \A k \in Messages : kind[k] # "unsent" => kind'[k] = kind[k]
          /\ kind'[m] = "text" /\ outbox'[m] = "received"
          /\ \A k \in Messages \ {m} : kind'[k] = kind[k] /\ outbox'[k] = outbox[k]
      BY <1>1, <2>2, CreateEffect DEF Inv
    <3> QED
      BY <3>1
  <2> QED
    BY <1>1, <2>1, <2>2
<1>4. Kept
  BY <1>1, <1>3, KeptIf
<1>5. NobodyIsForgotten'
  BY <1>3, <1>4, NobodyKept DEF Inv
<1>6. LinkInv'
  BY <1>1 DEF Inv, LinkInv
<1>7. frames' \in Seq(Frames')
  BY <1>1
<1> QED
  BY <1>1, <1>2, <1>3, <1>5, <1>6, <1>7, StoreKept, FaultsKept DEF Inv

-----------------------------------------------------------------------------
LEMMA InitInv ==
  ASSUME Init
  PROVE  Inv
<1>1. Store!LogInv
  BY SameStore, Store!InitLogInv DEF Init
<1>2. TablesInv /\ LinkInv /\ NobodyIsForgotten
  BY DEF Init, TablesInv, LinkInv, NobodyIsForgotten
<1>3. frames \in Seq(Frames) /\ faults \in 0..MaxFaults
  BY FaultsAssumption DEF Init
<1> QED
  BY <1>1, <1>2, <1>3 DEF Init, Inv

LEMMA NextInv ==
  ASSUME Inv, [Next]_vars
  PROVE  Inv'
<1>1. CASE UNCHANGED vars
  <2>1. /\ UNCHANGED <<server, kind, outbox, mapped, rows, settings, frames, modern, connected, greeted,
                       receipts, stray, settled, faults>>
    BY <1>1 DEF vars, tables, link
  <2>2. LinkInv'
    BY <2>1 DEF Inv, LinkInv
  <2> QED
    BY <2>1, <2>2, OutsideStep
<1>2. CASE Next
  BY <1>2, SendTextP2POnlyInv, StrandTextInv, SendTextViaServiceInv, SendTextMixedInv,
     PersistEnvelopeInv, SendEnvelopeInv, HandlePostInv, HandleStrayPostInv, FinishPostInv,
     FailToFinishInv, LosePostInv, StartSweepInv, RetryViaServiceInv, EndSweepInv, HelloInv,
     PeerStepInv, ReceiveReceiptInv, CrashInv
     DEF Next, SendText, HandlerStep, FaultStep
<1> QED
  BY <1>1, <1>2

LEMMA Invariance == Spec => []Inv
<1>1. Init => Inv
  BY InitInv
<1>2. Inv /\ [Next]_vars => Inv'
  BY NextInv
<1> QED
  BY <1>1, <1>2, PTL DEF Spec

-----------------------------------------------------------------------------
(* The theorems.                                                           *)

\* The service's tables and those of the device, the stack of handlers and the channels
\* keep values of their types.
THEOREM TypeCorrect == Spec => []TypeOK
<1>1. Inv => TypeOK
  <2> SUFFICES ASSUME Inv
               PROVE  TypeOK
    OBVIOUS
  <2>1. DB!TypeOK
    BY SameStore DEF Inv, Store!LogInv
  <2>2. frames \in Seq(FrameType)
    <3>1. Frames \subseteq FrameType
      BY DEF Frames
    <3> QED
      BY <3>1 DEF Inv
  <2> QED
    BY <2>1, <2>2 DEF Inv, TypeOK, TablesInv, LinkInv, PostType
<1> QED
  BY <1>1, Invariance, PTL

\* However the two halves of a message, the sweep, receipts, retries, lost calls and crashes
\* cross, each recipient of what was sent has it, is served by the message service or has a
\* row that waits.
THEOREM NobodyIsEverForgotten == Spec => []NobodyIsForgotten
<1>1. Inv => NobodyIsForgotten
  BY DEF Inv
<1> QED
  BY <1>1, Invariance, PTL
=============================================================================
