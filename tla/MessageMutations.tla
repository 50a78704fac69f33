--------------------------- MODULE MessageMutations ---------------------------
(***************************************************************************)
(* Recalling and editing the messages of a direct conversation:            *)
(* requestDirectRecallMessage and requestDirectEditMessage of              *)
(* LeyoApplication with ReliableDirectEnvelopeSender on the author's       *)
(* device, MessageMutationService and MessageSyncService on both devices.  *)
(*                                                                         *)
(* A mutation is posted to the service or sent over P2P, once, before it   *)
(* is applied at home; the call runs a nested event loop, in which the     *)
(* user and the timers go on.  The texts have an outbox and are sent until *)
(* they are acknowledged (DirectMessageSender).  The author's device reads *)
(* the conversation back from the service like the reader's.               *)
(***************************************************************************)
EXTENDS Integers, Sequences, SequencesExt

CONSTANTS
  Messages,
  Window,      \* kMutationWindowMs
  Tolerance,   \* kClockSkewToleranceMs
  Skew,        \* the author's clock less the service's
  PageLimit    \* records of a page

CONSTANTS      \* bounds for model checking
  MaxTime,
  MaxMutations,
  MaxSends,    \* times that a text is sent
  MaxLost      \* lost requests, replies, connections, and crashes of the author

ASSUME DurationsAssumption == Window \in Nat /\ Tolerance \in Nat /\ Skew \in Int
ASSUME PageAssumption == PageLimit \in Nat \ {0}
ASSUME BoundsAssumption ==
  MaxTime \in Nat \ {0} /\ MaxMutations \in Nat /\ MaxSends \in Nat /\ MaxLost \in Nat

Sides == {"author", "reader"}

VARIABLES
  now,      \* the service's clock
  copy,     \* copy[d][m]: the row of m in table messages of d
  outbox,   \* texts of the author that are still to be sent
  calls,    \* the author's mutations in progress, the innermost last
  log,      \* the service's messages of the conversation
  cursor,   \* remote_chat_cursors of each device
  p2p,      \* records on their way to the reader over P2P
  left      \* what is left of the bounds

mutationVars == <<now, copy, outbox, calls, log, cursor, p2p, left>>

\* A body is named by the time of the edit that wrote it, 0 for the first.
NoCopy == [there |-> FALSE, created |-> 0, body |-> 0, recalled |-> FALSE, at |-> 0]
NewCopy(created) == [NoCopy EXCEPT !.there = TRUE, !.created = created]

MutationInit ==
  /\ now = 1
  /\ copy = [d \in Sides |-> [m \in Messages |-> NoCopy]]
  /\ outbox = {}
  /\ calls = << >> /\ log = << >> /\ p2p = << >>
  /\ cursor = [d \in Sides |-> 0]
  /\ left = [mutations |-> MaxMutations, sends |-> MaxSends, losses |-> MaxLost]

Use(kind) == left[kind] > 0 /\ left' = [left EXCEPT ![kind] = @ - 1]
AuthorsClock == now + Skew

Tick ==
  /\ now < MaxTime
  /\ now' = now + 1
  /\ UNCHANGED <<copy, outbox, calls, log, cursor, p2p, left>>

-----------------------------------------------------------------------------
(* What a record does to a device's copy.  An operator whose comment       *)
(* begins with "Faulty" is a version of the next definition with a         *)
(* plausible mistake.                                                      *)

\* applyMessageRecall.
Recalled(c, at) == IF c.at < at THEN [c EXCEPT !.recalled = TRUE, !.at = at] ELSE c

\* Faulty: a recalled message is edited.
EditedAnyway(c, at) == IF c.at < at THEN [c EXCEPT !.body = at, !.recalled = FALSE, !.at = at] ELSE c

\* Faulty: the text is written whatever the time.
EditedWhenever(c, at) ==
  IF c.recalled THEN c ELSE [c EXCEPT !.body = at, !.at = IF @ < at THEN at ELSE @]

\* applyMessageEdit.
Edited(c, at) == IF ~c.recalled /\ c.at < at THEN [c EXCEPT !.body = at, !.at = at] ELSE c

Mutated(c, r) == IF r.kind = "recall" THEN Recalled(c, r.at) ELSE Edited(c, r.at)

\* A text that is there already is passed over.
Stored(c, created) == IF c.there THEN c ELSE NewCopy(created)

InWindow(c, r) == r.at >= c.created /\ r.at - c.created <= Window + Tolerance

\* applyIncomingMutation is refused: not for an older mutation, which counts as handled.
IsRefused(c, r) ==
  \/ ~InWindow(c, r)
  \/ r.at > c.at /\ r.kind = "edit" /\ c.recalled

\* Faulty: a mutation is applied before its text has arrived.
AppliedBlindly(c, r) ==
  IF r.kind = "text" THEN Stored(c, r.at)
  ELSE IF c.there /\ IsRefused(c, r) THEN c
  ELSE Mutated(c, r)

\* applyIncomingMutation and storeIncomingEnvelope.
Applied(c, r) ==
  IF r.kind = "text" THEN Stored(c, r.at)
  ELSE IF ~c.there \/ IsRefused(c, r) THEN c
  ELSE Mutated(c, r)

\* persistRecord fails: what is refused, unless something newer has been applied.
Fails(c, r) == r.kind # "text" /\ c.there /\ IsRefused(c, r) /\ c.at < r.at

-----------------------------------------------------------------------------
(* The author.                                                             *)

Compose(m) ==
  /\ ~copy["author"][m].there /\ AuthorsClock > 0
  /\ copy' = [copy EXCEPT !["author"][m] = NewCopy(AuthorsClock)]
  /\ outbox' = outbox \union {m}
  /\ UNCHANGED <<now, calls, log, cursor, p2p, left>>

IsPosted(m) == \E i \in DOMAIN log : log[i].kind = "text" /\ log[i].message = m

\* The service dates a text by its own clock, the author's envelope by the author's.
SendText(m) ==
  /\ m \in outbox /\ Use("sends")
  /\ \/ /\ log' = IF IsPosted(m) THEN log
                  ELSE Append(log, [kind |-> "text", message |-> m, at |-> now])
        /\ UNCHANGED p2p
     \/ /\ p2p' = Append(p2p, [kind |-> "text", message |-> m, at |-> copy["author"][m].created])
        /\ UNCHANGED log
  /\ \E acknowledged \in BOOLEAN : outbox' = IF acknowledged THEN outbox \ {m} ELSE outbox
  /\ UNCHANGED <<now, copy, calls, cursor>>

\* evaluateLocalEligibility; the user is not as fast as the clock.
Mutate(m, kind) ==
  /\ now < MaxTime /\ Use("mutations")
  /\ now' = now + 1
  /\ LET c == copy["author"][m]
     IN  c.there /\ ~c.recalled /\ now' + Skew - c.created <= Window
  /\ calls' = Append(calls, [kind |-> kind, message |-> m, at |-> now' + Skew, step |-> "start"])
  /\ UNCHANGED <<copy, outbox, log, cursor, p2p>>

Call == calls[Len(calls)]
Record == [kind |-> Call.kind, message |-> Call.message, at |-> Call.at]
InStep(step) == calls # << >> /\ Call.step = step
GoTo(step) == calls' = [calls EXCEPT ![Len(calls)].step = step]
ApplyAtHome == copy' = [copy EXCEPT !["author"][Call.message] = Mutated(@, Record)]

PostMutation ==
  /\ InStep("start")
  /\ log' = Append(log, Record)
  /\ GoTo("accepted")
  /\ UNCHANGED <<now, copy, outbox, cursor, p2p, left>>

\* The request or the reply is lost.
LosePost ==
  /\ InStep("start") \/ InStep("accepted")
  /\ Use("losses")
  /\ GoTo("failed")
  /\ UNCHANGED <<now, copy, outbox, log, cursor, p2p>>

FinishPost ==
  /\ InStep("accepted")
  /\ ApplyAtHome
  /\ calls' = Front(calls)
  /\ UNCHANGED <<now, outbox, log, cursor, p2p, left>>

\* As the first choice or after a failed call.
SendOverP2P ==
  /\ InStep("start") \/ InStep("failed")
  /\ p2p' = Append(p2p, Record)
  /\ ApplyAtHome
  /\ calls' = Front(calls)
  /\ UNCHANGED <<now, outbox, log, cursor, left>>

\* No peer, or no fallback: the user is told that it failed.
GiveUp ==
  /\ InStep("start") \/ InStep("failed")
  /\ calls' = Front(calls)
  /\ UNCHANGED <<now, copy, outbox, log, cursor, p2p, left>>

AuthorCrashes ==
  /\ Use("losses")
  /\ calls' = << >>
  /\ UNCHANGED <<now, copy, outbox, log, cursor, p2p>>

-----------------------------------------------------------------------------
(* Both devices.                                                           *)

\* Faulty: the cursor is saved although a record failed.
CursorAfterAnyway(failed, page, d) == cursor[d] + Len(page)

CursorAfter(failed, page, d) == IF failed THEN cursor[d] ELSE cursor[d] + Len(page)

PageEnd(d) == IF Len(log) < cursor[d] + PageLimit THEN Len(log) ELSE cursor[d] + PageLimit

Persisted(table, r) == [table EXCEPT ![r.message] = Applied(@, r)]

\* The table after each record of the page, from none of them to all.
Tables(table, page) ==
  LET after[i \in 0 .. Len(page)] ==
        IF i = 0 THEN table ELSE Persisted(after[i - 1], page[i])
  IN  after

\* One transaction for the page: a record that fails rolls it back.
SyncConversation(d) ==
  LET page == SubSeq(log, cursor[d] + 1, PageEnd(d))
      after == Tables(copy[d], page)
      failed == \E i \in DOMAIN page : Fails(after[i - 1][page[i].message], page[i])
  IN  /\ page # << >>
      /\ copy' = IF failed THEN copy ELSE [copy EXCEPT ![d] = after[Len(page)]]
      /\ cursor' = [cursor EXCEPT ![d] = CursorAfter(failed, page, d)]
      /\ UNCHANGED <<now, outbox, calls, log, p2p, left>>

ReceiveOverP2P ==
  /\ p2p # << >>
  /\ LET r == Head(p2p) IN copy' = [copy EXCEPT !["reader"][r.message] = Applied(@, r)]
  /\ p2p' = Tail(p2p)
  /\ UNCHANGED <<now, outbox, calls, log, cursor, left>>

LoseP2P ==
  /\ p2p # << >> /\ Use("losses")
  /\ p2p' = << >>
  /\ UNCHANGED <<now, copy, outbox, calls, log, cursor>>

-----------------------------------------------------------------------------
MutationNext ==
  \/ Tick
  \/ \E m \in Messages : Compose(m) \/ SendText(m) \/ Mutate(m, "recall") \/ Mutate(m, "edit")
  \/ PostMutation \/ LosePost \/ FinishPost \/ SendOverP2P \/ GiveUp \/ AuthorCrashes
  \/ \E d \in Sides : SyncConversation(d)
  \/ ReceiveOverP2P \/ LoseP2P

MutationSpec == MutationInit /\ [][MutationNext]_mutationVars

-----------------------------------------------------------------------------
(* Properties.                                                             *)

Kinds == {"recall", "edit"}
Records == [kind : Kinds \union {"text"}, message : Messages, at : Nat \ {0}]
Copies == [there : BOOLEAN, created : Nat, body : Nat, recalled : BOOLEAN, at : Nat]

\* The types of the variables; the cursors do not pass the end of the log,
\* and a copy that a device does not have is not changed.
MutationTypeOK ==
  /\ now \in 1 .. MaxTime
  /\ copy \in [Sides -> [Messages -> Copies]]
  /\ \A d \in Sides, m \in Messages : copy[d][m].there \/ copy[d][m] = NoCopy
  /\ outbox \subseteq {m \in Messages : copy["author"][m].there}
  /\ \A i \in DOMAIN calls :
       /\ calls[i].step \in {"start", "accepted", "failed"}
       /\ calls[i].kind \in Kinds /\ copy["author"][calls[i].message].there
  /\ log \in Seq(Records) /\ p2p \in Seq(Records)
  /\ \A d \in Sides : cursor[d] \in 0 .. Len(log)
  /\ \A kind \in DOMAIN left : left[kind] >= 0

\* A message that a device shows as recalled stays recalled: no edit that
\* was in flight, replayed record or second delivery of the text brings the
\* text back (applyMessageEdit, the check for a stored text).
RecallIsFinal ==
  [][\A d \in Sides, m \in Messages : copy[d][m].recalled => copy'[d][m].recalled]_mutationVars

\* Two devices whose copies come from the same mutation show the same: both
\* the recall or the same text, whatever arrived before and on which route.
SameMutationSameText ==
  \A m \in Messages :
    LET a == copy["author"][m]
        r == copy["reader"][m]
    IN  a.at > 0 /\ a.at = r.at =>
          a.recalled = r.recalled /\ (a.recalled \/ a.body = r.body)

\* Below a device's cursor no mutation that follows its text is missing: the
\* device shows it or a later one (the rollback of a page that fails).
PassedMutationsAreShown ==
  \A d \in Sides : \A i, j \in 1 .. cursor[d] :
    /\ i < j
    /\ log[i].kind = "text" /\ log[j].kind \in Kinds
    /\ log[i].message = log[j].message
    => copy[d][log[j].message].at >= log[j].at

=============================================================================
