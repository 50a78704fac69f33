--------------------------- MODULE ConversationProofs ---------------------------
(***************************************************************************)
(* Proofs about what the two sides of a conversation do to each other: the *)
(* calls of CallSession, for every set of devices and of calls, and the    *)
(* recalls and edits of MessageMutations, for every set of messages, every *)
(* difference of the clocks and every size of a page; both for every       *)
(* bound.                                                                  *)
(*                                                                         *)
(* Whoever talks has answered or has received an answer.  The second is no *)
(* fact about one device: the answer is a message, which may be as old as  *)
(* the call, so the invariant speaks of all messages under way.            *)
(*                                                                         *)
(* Two copies of a message agree on a mutation because a mutation is known *)
(* by its time: the invariant speaks of a history, which says what was     *)
(* done at each time, and of all records, calls and copies that hold one.  *)
(***************************************************************************)
EXTENDS CallSession, MessageMutations, TLAPS, WellFoundedInduction

-----------------------------------------------------------------------------
(* The inductive invariant of the calls.                                   *)

\* What may be on its way: it names a call that has begun, an answer one that has been answered.
Known ==
  {m \in [type : MessageTypes, call : Calls] :
     m.call \in started /\ (m.type = "Answer" => m.call \in answered)}

\* Nobody sends to himself.
Nets(messages) ==
  {n \in [Devices -> [Devices -> Seq(messages)]] : \A d \in Devices : n[d][d] = << >>}

Sessions ==
  [state : {"Idle"} \union Ringing \union Talking, call : Calls \union {None},
   peer : Devices \union {None}, sharing : BOOLEAN, control : BOOLEAN]

\* A session of d with a call.
InProgress(d) ==
  {s \in [state : Ringing \union Talking, call : Calls, peer : Devices \ {d},
          sharing : BOOLEAN, control : BOOLEAN] :
     /\ s.call \in started
     /\ s.state \in Talking => s.call \in answered
     /\ s.sharing \/ s.control => s.state = "Active"}

Media == [capture : BOOLEAN, viewer : BOOLEAN, input : BOOLEAN]

Inv ==
  /\ session \in [Devices -> Sessions]
  /\ \A d \in Devices : session[d] = NoSession \/ session[d] \in InProgress(d)
  /\ media \in [Devices -> Media]
  /\ chooser \in [Devices -> BOOLEAN] /\ requests \in [Devices -> Nat]
  /\ linked \in [Devices -> SUBSET Devices] /\ \A d \in Devices : d \notin linked[d]
  /\ net \in Nets(Known)
  /\ answered \subseteq started /\ started \subseteq Calls

-----------------------------------------------------------------------------
(* Parts of the steps of a call.                                           *)

LEMMA StateOfSession ==
  ASSUME Inv, NEW d \in Devices, session[d].state # "Idle"
  PROVE  session[d] \in InProgress(d)
BY DEF Inv, NoSession

LEMMA SharingIsActive ==
  ASSUME Inv, NEW d \in Devices, session[d].sharing \/ session[d].control
  PROVE  session[d].state = "Active" /\ session[d] \in InProgress(d)
BY DEF Inv, NoSession, InProgress

\* A queue may grow by known messages from another device and lose some.
LEMMA QueueChanges ==
  ASSUME NEW messages, NEW n \in Nets(messages), NEW d \in Devices, NEW p \in Devices \ {d},
         NEW queue \in Seq(messages)
  PROVE  [n EXCEPT ![d][p] = queue] \in Nets(messages)
BY DEF Nets

\* More is known as calls begin and are answered.
LEMMA NetsGrow ==
  ASSUME NEW small, NEW big, small \subseteq big
  PROVE  Nets(small) \subseteq Nets(big)
<1>1. ASSUME NEW s \in Seq(small)
      PROVE  s \in Seq(big)
  OBVIOUS
<1>2. ASSUME NEW n \in [Devices -> [Devices -> Seq(small)]]
      PROVE  n \in [Devices -> [Devices -> Seq(big)]]
  <2>1. \A d \in Devices : n[d] \in [Devices -> Seq(big)]
    BY <1>1
  <2> QED
    BY <2>1
<1> QED
  BY <1>2 DEF Nets

LEMMA SentIsKnown ==
  ASSUME Inv, NEW d \in Devices, NEW known, NEW queues \in Nets(known),
         NEW types \in Seq(MessageTypes),
         session[d] \in InProgress(d) =>
           \A i \in DOMAIN types : [type |-> types[i], call |-> session[d].call] \in known
  PROVE  Sent(queues, d, types) \in Nets(known)
<1> DEFINE p == session[d].peer
           sent == [i \in DOMAIN types |-> [type |-> types[i], call |-> session[d].call]]
<1>1. CASE ~(p \in linked[d] /\ d \in linked[p])
  BY <1>1 DEF Sent
<1>2. CASE p \in linked[d] /\ d \in linked[p]
  <2>1. p \in Devices
    BY <1>2 DEF Inv
  <2>2. session[d] \in InProgress(d)
    BY <2>1, NoneIsNothing DEF Inv, NoSession
  <2>3. p \in Devices \ {d}
    BY <2>2 DEF InProgress
  <2>4. sent \in Seq(known)
    <3>1. PICK n \in Nat : DOMAIN types = 1 .. n
      OBVIOUS
    <3>2. \A i \in 1 .. n : sent[i] \in known
      BY <2>2, <3>1
    <3> QED
      BY <3>1, <3>2
  <2>5. queues[p][d] \in Seq(known)
    BY <2>3 DEF Nets
  <2> HIDE DEF p, sent
  <2>6. queues[p][d] \o sent \in Seq(known)
    BY <2>4, <2>5
  <2>7. [queues EXCEPT ![p][d] = queues[p][d] \o sent] \in Nets(known)
    BY <2>3, <2>6, QueueChanges
  <2>8. Sent(queues, d, types) = [queues EXCEPT ![p][d] = @ \o sent]
    BY <1>2 DEF Sent, p, sent
  <2>9. [queues EXCEPT ![p][d] = @ \o sent] = [queues EXCEPT ![p][d] = queues[p][d] \o sent]
    BY <2>3 DEF Nets
  <2> QED
    BY <2>7, <2>8, <2>9
<1> QED
  BY <1>1, <1>2

\* What every step of a device has to show.
LEMMA DeviceStep ==
  ASSUME Inv, NEW d \in Devices, NEW s,
         session' = [session EXCEPT ![d] = s],
         s = NoSession \/ s \in InProgress(d)',
         media' \in [Devices -> Media],
         chooser' \in [Devices -> BOOLEAN], requests' \in [Devices -> Nat],
         linked' \in [Devices -> SUBSET Devices], \A p \in Devices : p \notin linked'[p],
         net' \in Nets(Known'),
         answered \subseteq answered', started \subseteq started',
         answered' \subseteq started', started' \subseteq Calls
  PROVE  Inv'
<1>1. s \in Sessions
  <2>1. NoSession \in Sessions
    BY DEF Sessions, NoSession
  <2>2. InProgress(d)' \subseteq Sessions
    BY DEF Sessions, InProgress
  <2> QED
    BY <2>1, <2>2
<1>2. session' \in [Devices -> Sessions]
  BY <1>1 DEF Inv
<1>3. \A p \in Devices : InProgress(p) \subseteq InProgress(p)'
  BY DEF InProgress
<1>4. \A p \in Devices : session'[p] = NoSession \/ session'[p] \in InProgress(p)'
  BY <1>3 DEF Inv
<1> QED
  BY <1>2, <1>4 DEF Inv

LEMMA HistoryKept ==
  ASSUME UNCHANGED history
  PROVE  /\ UNCHANGED <<started, answered, replaced>>
         /\ Known' = Known /\ \A d \in Devices : InProgress(d)' = InProgress(d)
BY DEF history, Known, InProgress

\* A device without a call, or one that ends it, whatever it sends.
LEMMA EndSessionInv ==
  ASSUME Inv, NEW d \in Devices, EndSession(d), net' \in Nets(Known), UNCHANGED history,
         chooser' \in [Devices -> BOOLEAN], requests' \in [Devices -> Nat],
         linked' \in [Devices -> SUBSET Devices], \A p \in Devices : p \notin linked'[p]
  PROVE  Inv'
<1>1. session' = [session EXCEPT ![d] = NoSession]
  BY DEF EndSession
<1>2. media' \in [Devices -> Media]
  BY DEF EndSession, Inv, Media, NoMedia
<1> QED
  BY <1>1, <1>2, HistoryKept, DeviceStep DEF Inv

LEMMA TypesAreSequences ==
  /\ \A type \in MessageTypes : <<type>> \in Seq(MessageTypes)
  /\ << >> \in Seq(MessageTypes)
  /\ ReadyTypes \subseteq Seq(MessageTypes)
  /\ \A ready \in ReadyTypes : <<"Answer">> \o ready \in Seq(MessageTypes)
  /\ \A ready \in ReadyTypes : \A i \in DOMAIN ready : ready[i] # "Answer"
<1>1. {"Answer", "MediaReady"} \subseteq MessageTypes
  BY DEF MessageTypes, SharingSteps
<1>2. <<"Answer">> \in Seq(MessageTypes) /\ <<"MediaReady">> \in Seq(MessageTypes)
  BY <1>1
<1> QED
  BY <1>1, <1>2 DEF ReadyTypes

-----------------------------------------------------------------------------
(* The operations.                                                         *)

LEMMA InitInv ==
  ASSUME Init
  PROVE  Inv
<1>1. NoSession \in Sessions
  BY DEF NoSession, Sessions
<1>2. << >> \in Seq(Known)
  OBVIOUS
<1> QED
  BY <1>1, <1>2 DEF Init, Inv, Nets, Media, NoMedia

LEMMA StartCallInv ==
  ASSUME Inv, NEW d \in Devices, StartCall(d)
  PROVE  Inv'
<1>1. PICK c \in Calls \ started, p \in linked[d] :
        /\ session' = [session EXCEPT ![d] = [NoSession EXCEPT
             !.state = "OutgoingRing", !.call = c, !.peer = p]]
        /\ net' = IF d \in linked[p]
                  THEN [net EXCEPT ![p][d] = Append(@, [type |-> "Offer", call |-> c])]
                  ELSE net
        /\ started' = started \union {c}
  BY DEF StartCall
<1>2. UNCHANGED <<media, chooser, requests, linked, answered>>
  BY DEF StartCall, dialogs
<1>3. p \in Devices \ {d}
  BY DEF Inv
<1> DEFINE s == [NoSession EXCEPT !.state = "OutgoingRing", !.call = c, !.peer = p]
           offer == [type |-> "Offer", call |-> c]
<1>4. s \in InProgress(d)'
  BY <1>1, <1>3 DEF InProgress, NoSession, Ringing, Talking
<1>5. offer \in Known' /\ Known \subseteq Known'
  BY <1>1, <1>2 DEF Known, MessageTypes
<1> HIDE DEF s, offer
<1>6. net \in Nets(Known')
  BY <1>5, NetsGrow DEF Inv
<1>7. net' \in Nets(Known')
  <2>1. net[p][d] \in Seq(Known')
    BY <1>3, <1>6 DEF Nets
  <2>2. Append(net[p][d], offer) \in Seq(Known')
    BY <1>5, <2>1
  <2>3. [net EXCEPT ![p][d] = Append(net[p][d], offer)] \in Nets(Known')
    BY <1>3, <1>6, <2>2, QueueChanges
  <2>4. [net EXCEPT ![p][d] = Append(@, offer)] = [net EXCEPT ![p][d] = Append(net[p][d], offer)]
    BY <1>3, <1>6 DEF Nets
  <2> QED
    BY <1>1, <1>6, <2>3, <2>4 DEF offer
<1>8. session' = [session EXCEPT ![d] = s]
  BY <1>1 DEF s
<1> QED
  BY <1>1, <1>2, <1>4, <1>7, <1>8, DeviceStep DEF Inv

LEMMA AnswerCallInv ==
  ASSUME Inv, NEW d \in Devices, AnswerCall(d)
  PROVE  Inv'
<1>1. session[d] \in InProgress(d) /\ session[d].state = "IncomingRing"
  BY StateOfSession DEF AnswerCall
<1>2. PICK ready \in ReadyTypes : Sends(d, <<"Answer">> \o ready)
  BY DEF AnswerCall
<1>3. /\ session' = [session EXCEPT ![d].state = "Connecting"]
      /\ answered' = answered \union {session[d].call}
      /\ UNCHANGED <<media, chooser, requests, linked, started>>
  BY DEF AnswerCall, SetState, dialogs
<1> DEFINE s == [session[d] EXCEPT !.state = "Connecting"]
<1>4. s \in InProgress(d)'
  BY <1>1, <1>3 DEF InProgress, Ringing, Talking
<1>5. session' = [session EXCEPT ![d] = s]
  BY <1>3 DEF Inv
<1>6. Known \subseteq Known'
  BY <1>3 DEF Known
<1>7. net \in Nets(Known')
  BY <1>6, NetsGrow DEF Inv
<1>8. \A type \in MessageTypes : [type |-> type, call |-> session[d].call] \in Known'
  BY <1>1, <1>3 DEF Known, InProgress
<1>9. <<"Answer">> \o ready \in Seq(MessageTypes)
  BY TypesAreSequences
<1> DEFINE types == <<"Answer">> \o ready
<1> HIDE DEF types, s
<1>10. \A i \in DOMAIN types : types[i] \in MessageTypes
  BY <1>9 DEF types
<1>11. net' \in Nets(Known')
  BY <1>2, <1>7, <1>8, <1>9, <1>10, SentIsKnown DEF Sends, types
<1>12. answered \subseteq answered' /\ answered' \subseteq started'
  BY <1>1, <1>3 DEF Inv, InProgress
<1> QED
  BY <1>3, <1>4, <1>5, <1>11, <1>12, DeviceStep DEF Inv

\* What a device in a call says of it, except for an answer.
LEMMA SendsKnown ==
  ASSUME Inv, NEW d \in Devices, NEW queues \in Nets(Known), NEW types \in Seq(MessageTypes),
         \A i \in DOMAIN types : types[i] # "Answer"
  PROVE  Sent(queues, d, types) \in Nets(Known)
<1>1. session[d] \in InProgress(d) =>
        \A i \in DOMAIN types : [type |-> types[i], call |-> session[d].call] \in Known
  BY DEF Known, InProgress
<1> QED
  BY <1>1, SentIsKnown

LEMMA SharingTypes ==
  {"ScreenShareStop", "RemoteControlGrant", "RemoteControlRevoke"} \subseteq MessageTypes
<1>1. \A type \in {"ScreenShareStop", "RemoteControlGrant", "RemoteControlRevoke"} :
        <<type, "Active">> \in SharingSteps /\ <<type, "Active">>[1] = type
  BY DEF SharingSteps
<1> QED
  BY <1>1 DEF MessageTypes

LEMMA SendsOne ==
  ASSUME Inv, NEW d \in Devices, NEW type \in MessageTypes, type # "Answer", Sends(d, <<type>>)
  PROVE  net' \in Nets(Known)
<1>1. net \in Nets(Known)
  BY DEF Inv
<1>2. <<type>> \in Seq(MessageTypes) /\ \A i \in DOMAIN <<type>> : <<type>>[i] # "Answer"
  OBVIOUS
<1> QED
  BY <1>1, <1>2, SendsKnown DEF Sends

LEMMA EndCallInv ==
  ASSUME Inv, NEW d \in Devices, RingTimeout(d) \/ Hangup(d)
  PROVE  Inv'
<1>1. /\ EndSession(d) /\ UNCHANGED <<chooser, requests, linked, history>>
      /\ Sends(d, <<"Reject">>) \/ Sends(d, <<"Cancel">>) \/ Sends(d, <<"Hangup">>)
  BY DEF RingTimeout, RejectCall, CancelCall, Hangup, dialogs
<1>2. net' \in Nets(Known)
  BY <1>1, SendsOne DEF MessageTypes
<1> QED
  BY <1>1, <1>2, EndSessionInv DEF Inv

-----------------------------------------------------------------------------
(* Sharing and controlling.                                                *)

\* A step that changes at most these two fields of the session.
LEMMA SharingStep ==
  ASSUME Inv, NEW d \in Devices, NEW sharing \in BOOLEAN, NEW control \in BOOLEAN,
         sharing \/ control => session[d].state = "Active",
         \/ session' = session
         \/ session' = [session EXCEPT ![d].sharing = sharing]
         \/ session' = [session EXCEPT ![d].control = control]
         \/ session' = [session EXCEPT ![d].sharing = sharing, ![d].control = control],
         media' \in [Devices -> Media],
         chooser' \in [Devices -> BOOLEAN], requests' \in [Devices -> Nat],
         net' \in Nets(Known), UNCHANGED <<linked, history>>
  PROVE  Inv'
<1>1. PICK s : session' = [session EXCEPT ![d] = s] /\
        \/ s = session[d]
        \/ s = [session[d] EXCEPT !.sharing = sharing]
        \/ s = [session[d] EXCEPT !.control = control]
        \/ s = [session[d] EXCEPT !.sharing = sharing, !.control = control]
  <2>1. session = [session EXCEPT ![d] = session[d]]
    BY DEF Inv
  <2>2. [session EXCEPT ![d].sharing = sharing] =
          [session EXCEPT ![d] = [session[d] EXCEPT !.sharing = sharing]]
    BY DEF Inv
  <2>3. [session EXCEPT ![d].control = control] =
          [session EXCEPT ![d] = [session[d] EXCEPT !.control = control]]
    BY DEF Inv
  <2>4. [session EXCEPT ![d].sharing = sharing, ![d].control = control] =
          [session EXCEPT ![d] = [session[d] EXCEPT !.sharing = sharing, !.control = control]]
    BY DEF Inv
  <2> QED
    BY <2>1, <2>2, <2>3, <2>4
<1>2. CASE session[d] = NoSession
  <2>1. sharing = FALSE /\ control = FALSE
    BY <1>2 DEF NoSession
  <2>2. session[d] \in Sessions
    BY DEF Inv
  <2>3. s \in Sessions
    BY <1>1, <2>2 DEF Sessions
  <2>4. /\ s.state = "Idle" /\ s.call = None /\ s.peer = None
        /\ s.sharing = FALSE /\ s.control = FALSE
    <3>1. \/ s = session[d]
          \/ s = [session[d] EXCEPT !.sharing = FALSE]
          \/ s = [session[d] EXCEPT !.control = FALSE]
          \/ s = [session[d] EXCEPT !.sharing = FALSE, !.control = FALSE]
      BY <1>1, <2>1, Zenon
    <3>2. /\ session[d].state = "Idle" /\ session[d].call = None /\ session[d].peer = None
          /\ session[d].sharing = FALSE /\ session[d].control = FALSE
      BY <1>2 DEF NoSession
    <3> QED
      BY <2>2, <3>1, <3>2 DEF Sessions
  <2>5. s = NoSession
    BY <2>3, <2>4 DEF NoSession, Sessions
  <2> QED
    BY <1>1, <2>5, HistoryKept, DeviceStep DEF Inv
<1>3. CASE session[d] \in InProgress(d)
  <2>1. s \in InProgress(d)
    BY <1>1, <1>3 DEF InProgress
  <2> QED
    BY <1>1, <2>1, HistoryKept, DeviceStep DEF Inv
<1> QED
  BY <1>2, <1>3 DEF Inv

LEMMA ToggleShareInv ==
  ASSUME Inv, NEW d \in Devices, ToggleShare(d)
  PROVE  Inv'
<1>1. UNCHANGED <<requests, linked, history>> /\ session[d].state = "Active"
  BY DEF ToggleShare
<1>2. CASE StopShare(d)
  <2>1. /\ session' = [session EXCEPT ![d].sharing = FALSE, ![d].control = FALSE]
        /\ media' = [media EXCEPT ![d] = NoMedia]
        /\ Sends(d, <<"ScreenShareStop">>)
        /\ UNCHANGED chooser
    BY <1>2 DEF StopShare
  <2>2. net' \in Nets(Known)
    BY <2>1, SendsOne, SharingTypes
  <2>3. media' \in [Devices -> Media]
    BY <2>1 DEF Inv, Media, NoMedia
  <2> QED
    BY <1>1, <2>1, <2>2, <2>3, SharingStep DEF Inv
<1>3. CASE /\ chooser' = [chooser EXCEPT ![d] = TRUE]
           /\ UNCHANGED <<session, media, net>>
  BY <1>1, <1>3, SharingStep DEF Inv
<1> QED
  BY <1>2, <1>3 DEF ToggleShare

LEMMA ChooseScreenInv ==
  ASSUME Inv, NEW d \in Devices, ChooseScreen(d)
  PROVE  Inv'
<1>1. /\ UNCHANGED <<requests, linked, history>>
      /\ chooser' \in [Devices -> BOOLEAN]
  BY DEF ChooseScreen, Inv
<1>2. CASE UNCHANGED <<session, media, net>>
  BY <1>1, <1>2, SharingStep DEF Inv
<1>3. CASE media' = [media EXCEPT ![d].capture = TRUE]
  <2>1. media' \in [Devices -> Media]
    BY <1>3 DEF Inv, Media
  <2>2. CASE UNCHANGED <<session, net>>
    BY <1>1, <2>1, <2>2, SharingStep DEF Inv
  <2>3. CASE /\ session' = [session EXCEPT ![d].sharing = @ \/ session[d].state = "Active"]
             /\ net' = net \/ Sends(d, <<"ScreenShareStart">>)
    <3>1. net' \in Nets(Known)
      BY <2>3, SendsOne DEF MessageTypes, Inv
    <3> DEFINE sharing == session[d].sharing \/ session[d].state = "Active"
    <3>2. session' = [session EXCEPT ![d].sharing = sharing]
      BY <2>3 DEF Inv
    <3>3. CASE session[d].state = "Active"
      <4>1. sharing = TRUE
        BY <3>3
      <4>2. session' = [session EXCEPT ![d].sharing = TRUE]
        BY <3>2, <4>1
      <4> QED
        BY <1>1, <2>1, <3>1, <3>3, <4>2, SharingStep DEF Inv
    <3>4. CASE session[d].state # "Active"
      <4>1. sharing = FALSE
        BY <3>4, SharingIsActive
      <4>2. session' = [session EXCEPT ![d].sharing = FALSE]
        BY <3>2, <4>1
      <4> QED
        BY <1>1, <2>1, <3>1, <4>2, SharingStep DEF Inv
    <3> QED
      BY <3>3, <3>4
  <2> QED
    BY <1>1, <1>3, <2>2, <2>3 DEF ChooseScreen
<1> QED
  BY <1>2, <1>3 DEF ChooseScreen

LEMMA ToggleControlInv ==
  ASSUME Inv, NEW d \in Devices, ToggleControl(d)
  PROVE  Inv'
<1>1. UNCHANGED <<chooser, requests, linked, history>>
  BY DEF ToggleControl, dialogs
<1>2. CASE /\ session' = [session EXCEPT ![d].control = FALSE]
           /\ media' = [media EXCEPT ![d].input = @ /\ ~session[d].sharing]
           /\ Sends(d, <<"RemoteControlRevoke">>)
  <2>1. media' \in [Devices -> Media]
    BY <1>2 DEF Inv, Media
  <2>2. net' \in Nets(Known)
    BY <1>2, SendsOne, SharingTypes
  <2> QED
    BY <1>1, <1>2, <2>1, <2>2, SharingStep DEF Inv
<1>3. CASE Sends(d, <<"RemoteControlRequest">>) /\ UNCHANGED <<session, media>>
  <2>1. net' \in Nets(Known)
    BY <1>3, SendsOne DEF MessageTypes
  <2> QED
    BY <1>1, <1>3, <2>1, SharingStep DEF Inv
<1> QED
  BY <1>2, <1>3 DEF ToggleControl

LEMMA AnswerRequestInv ==
  ASSUME Inv, NEW d \in Devices, AnswerRequest(d)
  PROVE  Inv'
<1>1. /\ UNCHANGED <<chooser, linked, history>>
      /\ requests' \in [Devices -> Nat]
  BY DEF AnswerRequest, Inv
<1>2. media' \in [Devices -> Media]
  BY DEF AnswerRequest, Inv, Media
<1>3. CASE UNCHANGED <<session, net>>
  BY <1>1, <1>2, <1>3, SharingStep DEF Inv
<1>4. CASE /\ session[d].state = "Active"
           /\ session' = [session EXCEPT ![d].control = TRUE]
           /\ Sends(d, <<"RemoteControlGrant">>)
  <2>1. net' \in Nets(Known)
    BY <1>4, SendsOne, SharingTypes
  <2> QED
    BY <1>1, <1>2, <1>4, <2>1, SharingStep DEF Inv
<1> QED
  BY <1>3, <1>4 DEF AnswerRequest

-----------------------------------------------------------------------------
(* Messages and connections.                                               *)

\* What arrives is known, and the rest stays on its way.
LEMMA Arrival ==
  ASSUME Inv, NEW d \in Devices, NEW p \in Devices, net[d][p] # << >>
  PROVE  /\ p # d
         /\ Head(net[d][p]) \in Known
         /\ [net EXCEPT ![d][p] = Tail(@)] \in Nets(Known)
<1>1. net[d][p] \in Seq(Known) /\ p # d
  BY DEF Inv, Nets
<1>2. Head(net[d][p]) \in Known /\ Tail(net[d][p]) \in Seq(Known)
  BY <1>1
<1>3. [net EXCEPT ![d][p] = Tail(net[d][p])] \in Nets(Known)
  BY <1>1, <1>2, QueueChanges DEF Inv
<1>4. [net EXCEPT ![d][p] = Tail(@)] = [net EXCEPT ![d][p] = Tail(net[d][p])]
  BY DEF Inv, Nets
<1> QED
  BY <1>1, <1>2, <1>3, <1>4

LEMMA HandleCallControlInv ==
  ASSUME Inv, NEW d \in Devices, NEW p \in Devices \ {d}, NEW m \in Known,
         NEW queues \in Nets(Known),
         HandleCallControl(d, p, m, queues), UNCHANGED <<chooser, linked, history>>
  PROVE  Inv'
<1> DEFINE step == <<m.type, session[d].state>>
           expected == Concerns(d, m) /\ step \in EndingSteps \union SharingSteps \union OtherSteps
<1>1. CASE net' = queues /\ UNCHANGED <<session, media, requests>>
  BY <1>1, SharingStep DEF Inv
<1>2. CASE EndSession(d) /\ net' = queues /\ UNCHANGED requests
  BY <1>2, EndSessionInv DEF Inv
<1>3. CASE /\ expected /\ step \in SharingSteps
           /\ session' = [session EXCEPT ![d].control = ControlAfter(m.type, @)]
           /\ media' = [media EXCEPT ![d] =
                [capture |-> @.capture /\ m.type # "ScreenShareStop",
                 viewer |-> @.viewer /\ m.type # "ScreenShareStop",
                 input |-> InputAfter(d, m.type)]]
           /\ net' = queues /\ UNCHANGED requests
  <2>1. session[d].state = "Active"
    BY <1>3 DEF SharingSteps
  <2>2. InputAfter(d, m.type) \in BOOLEAN
    BY DEF InputAfter, Inv, Media
  <2>3. media' \in [Devices -> Media]
    BY <1>3, <2>2 DEF Inv, Media
  <2> DEFINE control == ControlAfter(m.type, session[d].control)
  <2>4. control \in BOOLEAN
    BY DEF ControlAfter
  <2>5. session' = [session EXCEPT ![d].control = control]
    BY <1>3 DEF Inv
  <2> HIDE DEF control
  <2> QED
    BY <1>3, <2>1, <2>3, <2>4, <2>5, SharingStep DEF Inv
<1>4. CASE /\ expected /\ m.type = "Offer"
           /\ session' = [session EXCEPT ![d] = [NoSession EXCEPT
                !.state = "IncomingRing", !.call = m.call, !.peer = p]]
           /\ net' = queues /\ UNCHANGED <<media, requests>>
  <2> DEFINE s == [NoSession EXCEPT !.state = "IncomingRing", !.call = m.call, !.peer = p]
  <2>1. s \in InProgress(d)
    BY DEF InProgress, NoSession, Ringing, Talking, Known
  <2> HIDE DEF s
  <2>2. session' = [session EXCEPT ![d] = s]
    BY <1>4 DEF s
  <2> QED
    BY <1>4, <2>1, <2>2, HistoryKept, DeviceStep DEF Inv
<1>5. CASE /\ expected /\ m.type = "Answer"
           /\ SetState(d, "Connecting")
           /\ \E ready \in ReadyTypes : net' = Sent(queues, d, ready)
           /\ UNCHANGED <<media, requests>>
  <2>1. session[d].state = "OutgoingRing" /\ session[d].call \in {None, m.call}
    BY <1>5 DEF EndingSteps, SharingSteps, OtherSteps, Concerns
  <2>2. session[d] \in InProgress(d)
    BY <2>1, StateOfSession
  <2>3. session[d].call = m.call /\ m.call \in answered
    BY <1>5, <2>1, <2>2, NoneIsNothing DEF InProgress, Known
  <2> DEFINE s == [session[d] EXCEPT !.state = "Connecting"]
  <2>4. s \in InProgress(d)
    BY <2>1, <2>2, <2>3 DEF InProgress, Ringing, Talking
  <2>5. session' = [session EXCEPT ![d] = s]
    BY <1>5 DEF SetState, Inv
  <2>6. net' \in Nets(Known)
    BY <1>5, TypesAreSequences, SendsKnown
  <2> HIDE DEF s
  <2> QED
    BY <1>5, <2>4, <2>5, <2>6, HistoryKept, DeviceStep DEF Inv
<1>6. CASE /\ expected /\ m.type = "MediaReady"
           /\ SetState(d, "Active")
           /\ net' = queues /\ UNCHANGED <<media, requests>>
  <2>1. session[d].state = "Connecting"
    BY <1>6 DEF EndingSteps, SharingSteps, OtherSteps
  <2>2. session[d] \in InProgress(d)
    BY <2>1, StateOfSession
  <2> DEFINE s == [session[d] EXCEPT !.state = "Active"]
  <2>3. s \in InProgress(d)
    BY <2>1, <2>2 DEF InProgress, Talking
  <2>4. session' = [session EXCEPT ![d] = s]
    BY <1>6 DEF SetState, Inv
  <2> HIDE DEF s
  <2> QED
    BY <1>6, <2>3, <2>4, HistoryKept, DeviceStep DEF Inv
<1>7. CASE /\ requests' = [requests EXCEPT ![d] = @ + 1]
           /\ net' = queues /\ UNCHANGED <<session, media>>
  <2>1. requests' \in [Devices -> Nat]
    BY <1>7 DEF Inv
  <2> QED
    BY <1>7, <2>1, SharingStep DEF Inv
<1> QED
  BY <1>1, <1>2, <1>3, <1>4, <1>5, <1>6, <1>7 DEF HandleCallControl

LEMMA ReceiveInv ==
  ASSUME Inv, NEW d \in Devices, NEW p \in Devices, Receive(d, p)
  PROVE  Inv'
<1> DEFINE m == Head(net[d][p])
           queues == [net EXCEPT ![d][p] = Tail(@)]
<1>1. net[d][p] # << >> /\ UNCHANGED <<chooser, linked, history>>
  BY DEF Receive
<1>2. p \in Devices \ {d} /\ m \in Known /\ queues \in Nets(Known)
  BY <1>1, Arrival
<1>3. CASE /\ media' = [media EXCEPT ![d].viewer = TRUE]
           /\ net' = queues /\ UNCHANGED <<session, requests>>
  <2>1. media' \in [Devices -> Media]
    BY <1>3 DEF Inv, Media
  <2> HIDE DEF queues
  <2> QED
    BY <1>1, <1>2, <1>3, <2>1, SharingStep DEF Inv
<1>4. CASE HandleCallControl(d, p, m, queues)
  <2> HIDE DEF m, queues
  <2> QED
    BY <1>1, <1>2, <1>4, HandleCallControlInv
<1> QED
  BY <1>3, <1>4 DEF Receive

\* A new connection silences queues and adds talking calls to the history.
LEMMA ConnectInv ==
  ASSUME Inv, NEW d \in Devices, NEW p \in Devices, Connect(d, p)
  PROVE  Inv'
<1>1. UNCHANGED <<session, media, chooser, requests, started, answered>>
  BY DEF Connect, dialogs
<1>2. /\ linked' \in [Devices -> SUBSET Devices]
      /\ \A q \in Devices : q \notin linked'[q]
  BY DEF Connect, Inv
<1>3. net' \in Nets(Known)
  <2>1. PICK silenced : net' = [e \in Devices |-> [o \in Devices |->
                          IF <<e, o>> \in silenced THEN << >> ELSE net[e][o]]]
    BY DEF Connect
  <2>2. << >> \in Seq(Known) /\ net \in Nets(Known)
    BY DEF Inv
  <2> QED
    BY <2>1, <2>2 DEF Nets
<1>4. Known' = Known /\ \A q \in Devices : InProgress(q)' = InProgress(q)
  BY <1>1 DEF Known, InProgress
<1> QED
  BY <1>1, <1>2, <1>3, <1>4 DEF Inv

LEMMA DisconnectInv ==
  ASSUME Inv, NEW d \in Devices, NEW p \in Devices, Disconnect(d, p)
  PROVE  Inv'
<1>1. UNCHANGED <<chooser, requests, history>>
  BY DEF Disconnect, dialogs
<1>2. /\ linked' \in [Devices -> SUBSET Devices]
      /\ \A q \in Devices : q \notin linked'[q]
  BY DEF Disconnect, Inv
<1>3. p \in Devices \ {d} /\ << >> \in Seq(Known)
  BY DEF Disconnect, Inv
<1>4. net' \in Nets(Known)
  BY <1>3, QueueChanges DEF Disconnect, Inv
<1>5. CASE EndSession(d)
  BY <1>1, <1>2, <1>4, <1>5, EndSessionInv DEF Inv
<1>6. CASE UNCHANGED <<session, media>>
  <2>1. session' = [session EXCEPT ![d] = session[d]]
    BY <1>6 DEF Inv
  <2>2. session[d] = NoSession \/ session[d] \in InProgress(d)
    BY DEF Inv
  <2> QED
    BY <1>1, <1>2, <1>4, <1>6, <2>1, <2>2, HistoryKept, DeviceStep DEF Inv
<1> QED
  BY <1>5, <1>6 DEF Disconnect, LoseCall

LEMMA RestartInv ==
  ASSUME Inv, NEW d \in Devices, Restart(d)
  PROVE  Inv'
<1>1. EndSession(d) /\ UNCHANGED history
  BY DEF Restart
<1>2. << >> \in Seq(Known)
  OBVIOUS
<1>3. net' \in Nets(Known)
  BY <1>2 DEF Restart, Inv, Nets
<1>4. /\ chooser' \in [Devices -> BOOLEAN] /\ requests' \in [Devices -> Nat]
      /\ linked' \in [Devices -> SUBSET Devices]
      /\ \A q \in Devices : q \notin linked'[q]
  BY DEF Restart, Inv
<1> QED
  BY <1>1, <1>3, <1>4, EndSessionInv

LEMMA NextInv ==
  ASSUME Inv, [Next]_vars
  PROVE  Inv'
<1>1. CASE UNCHANGED vars
  <2>1. /\ UNCHANGED <<session, media, chooser, requests, linked, net, history>>
        /\ Known' = Known /\ \A d \in Devices : InProgress(d)' = InProgress(d)
    BY <1>1, HistoryKept DEF vars, dialogs, wire
  <2> QED
    BY <2>1 DEF Inv, history
<1>2. CASE Next
  BY <1>2, StartCallInv, AnswerCallInv, EndCallInv, ToggleShareInv, ChooseScreenInv, ToggleControlInv,
     AnswerRequestInv, RestartInv, ReceiveInv, ConnectInv, DisconnectInv
     DEF Next, LoseConnection, NoticeLoss
<1> QED
  BY <1>1, <1>2

\* Only a call that somebody talks in is added to the history of replaced connections.
LEMMA NextReplaced ==
  ASSUME Inv, replaced \subseteq started, [Next]_vars
  PROVE  replaced' \subseteq started'
<1>1. CASE UNCHANGED vars
  BY <1>1 DEF vars, history
<1>2. ASSUME NEW d \in Devices, NEW p \in Devices, Connect(d, p)
      PROVE  replaced' \subseteq started'
  <2>1. ASSUME NEW e \in Devices, NEW o, NEW c \in CallOver(e, o)
        PROVE  c \in started
    BY <2>1, StateOfSession DEF CallOver, InProgress, Talking
  <2> QED
    BY <1>2, <2>1 DEF Connect
<1>3. ASSUME NEW d \in Devices, StartCall(d) \/ AnswerCall(d)
      PROVE  replaced' \subseteq started'
  BY <1>3 DEF StartCall, AnswerCall
<1>4. CASE UNCHANGED history
  BY <1>4 DEF history
<1>5. ASSUME NEW d \in Devices,
             \/ RingTimeout(d) \/ Hangup(d)
             \/ ToggleShare(d) \/ ChooseScreen(d) \/ ToggleControl(d) \/ AnswerRequest(d)
             \/ Restart(d)
      PROVE  UNCHANGED history
  BY <1>5 DEF RingTimeout, RejectCall, CancelCall, Hangup, ToggleShare, ChooseScreen,
     ToggleControl, AnswerRequest, Restart
<1>6. ASSUME NEW d \in Devices, NEW p \in Devices,
             Receive(d, p) \/ LoseConnection(d, p) \/ NoticeLoss(d, p)
      PROVE  UNCHANGED history
  BY <1>6 DEF Receive, LoseConnection, NoticeLoss, Disconnect
<1> QED
  BY <1>1, <1>2, <1>3, <1>4, <1>5, <1>6 DEF Next

LEMMA Invariance == Spec => [](Inv /\ replaced \subseteq started)
<1>1. Init => Inv /\ replaced \subseteq started
  BY InitInv DEF Init
<1>2. Inv /\ replaced \subseteq started /\ [Next]_vars => (Inv /\ replaced \subseteq started)'
  BY NextInv, NextReplaced
<1> QED
  BY <1>1, <1>2, PTL DEF Spec

-----------------------------------------------------------------------------
(* The theorems about the calls.                                           *)

\* A device has a session with another device or none at all, and shares or controls a
\* screen only while the call is active.
THEOREM TypeCorrect == Spec => []TypeOK
<1>1. Inv /\ replaced \subseteq started => TypeOK
  <2> SUFFICES ASSUME Inv, replaced \subseteq started
               PROVE  TypeOK
    OBVIOUS
  <2>1. ASSUME NEW d \in Devices
        PROVE  /\ session[d].state \in {"Idle"} \union Ringing \union Talking
               /\ \/ session[d].call \in Calls /\ session[d].peer \in Devices \ {d}
                  \/ session[d] = NoSession
               /\ session[d].sharing \/ session[d].control => session[d].state = "Active"
    BY <2>1, SharingIsActive DEF Inv, InProgress, NoSession
  <2>2. Known \subseteq [type : MessageTypes, call : Calls]
    BY DEF Known
  <2>3. net \in Nets([type : MessageTypes, call : Calls])
    BY <2>2, NetsGrow DEF Inv
  <2>4. \A d, p \in Devices : net[d][p] \in Seq([type : MessageTypes, call : Calls])
    BY <2>3 DEF Nets
  <2>5. \A d \in Devices : media[d] \in Media /\ linked[d] \subseteq Devices \ {d}
    BY DEF Inv
  <2>6. /\ chooser \in [Devices -> BOOLEAN] /\ requests \in [Devices -> Nat]
        /\ answered \union replaced \subseteq started /\ started \subseteq Calls
    BY DEF Inv
  <2> QED
    BY <2>1, <2>4, <2>5, <2>6 DEF TypeOK, Media
<1> QED
  BY <1>1, Invariance, PTL

\* Whatever is lost, late or rings again, nobody talks in a call that its callee has not
\* answered.
THEOREM CallsAreAnswered == Spec => []ActiveIsAnswered
<1>1. Inv => ActiveIsAnswered
  BY StateOfSession DEF ActiveIsAnswered, InProgress, Talking
<1> QED
  BY <1>1, Invariance, PTL

-----------------------------------------------------------------------------
(* The mutations: the tables of a page, which are a recursive function.    *)

\* Induction over a set of numbers: the least number left out has a predecessor.
LEMMA SetInduction ==
  ASSUME NEW S, 0 \in S, \A n \in Nat : n \in S => n + 1 \in S
  PROVE  Nat \subseteq S
<1> DEFINE T == Nat \ S
           less == OpToRel(<, Nat)
<1> SUFFICES ASSUME T # {}
             PROVE  FALSE
  OBVIOUS
<1>1. T \subseteq Nat
  OBVIOUS
<1>2. \E t \in T : \A u \in T : ~ (<<u, t>> \in less)
  <2>1. IsWellFoundedOn(less, Nat)
    BY NatLessThanWellFounded
  <2> HIDE DEF T, less
  <2> QED
    BY <1>1, <2>1, WFMin
<1>3. \A u, t \in T : u < t => <<u, t>> \in less
  BY <1>1 DEF OpToRel
<1>4. PICK t \in T : \A u \in T : ~ (u < t)
  BY <1>2, <1>3
<1>5. t # 0 /\ t - 1 \in Nat
  BY <1>4
<1>6. t - 1 \in T
  BY <1>5
<1> QED
  BY <1>4, <1>5, <1>6

\* What the recursive definition of the tables says of each of them.
LEMMA TableAfter ==
  ASSUME NEW table, NEW page, Len(page) \in Nat
  PROVE  /\ Tables(table, page)[0] = table
         /\ \A i \in 1 .. Len(page) :
              Tables(table, page)[i] = Persisted(Tables(table, page)[i - 1], page[i])
<1> DEFINE IsAfter(f, n) ==
             f = [i \in 0 .. n |-> IF i = 0 THEN table ELSE Persisted(f[i - 1], page[i])]
           S == {n \in Nat : \E f : IsAfter(f, n)}
<1>1. 0 \in S
  <2> DEFINE f == [i \in {0} |-> table]
  <2>1. IsAfter(f, 0)
    OBVIOUS
  <2> QED
    BY <2>1
<1>2. ASSUME NEW n \in Nat, n \in S
      PROVE  n + 1 \in S
  <2>1. PICK f : IsAfter(f, n)
    BY <1>2
  <2> DEFINE g == [i \in 0 .. n + 1 |-> IF i <= n THEN f[i] ELSE Persisted(f[n], page[n + 1])]
  <2>2. ASSUME NEW i \in 0 .. n + 1
        PROVE  g[i] = IF i = 0 THEN table ELSE Persisted(g[i - 1], page[i])
    <3>1. CASE i = 0
      BY <2>1, <3>1
    <3>2. CASE i \in 1 .. n
      <4>1. f[i] = Persisted(f[i - 1], page[i])
        BY <2>1, <3>2
      <4>2. g[i] = f[i] /\ g[i - 1] = f[i - 1]
        BY <3>2
      <4> QED
        BY <3>2, <4>1, <4>2
    <3>3. CASE i = n + 1
      <4>1. g[i] = Persisted(f[n], page[n + 1])
        BY <3>3
      <4>2. g[i - 1] = f[n]
        BY <3>3
      <4> QED
        BY <3>3, <4>1, <4>2
    <3> QED
      BY <3>1, <3>2, <3>3
  <2>3. IsAfter(g, n + 1)
    <3> HIDE DEF g
    <3>1. DOMAIN g = 0 .. n + 1 /\ g = [i \in 0 .. n + 1 |-> g[i]]
      BY DEF g
    <3> QED
      BY <2>2, <3>1
  <2>4. \E f2 : IsAfter(f2, n + 1)
    <3> HIDE DEF g, IsAfter
    <3> QED
      BY <2>3
  <2> QED
    <3> HIDE DEF g, IsAfter
    <3> QED
      BY <2>4
<1>3. Nat \subseteq S
  <2> HIDE DEF S
  <2> QED
    BY <1>1, <1>2, SetInduction
<1>4. PICK f : IsAfter(f, Len(page))
  BY <1>3
<1>5. IsAfter(Tables(table, page), Len(page))
  BY <1>4 DEF Tables
<1> QED
  BY <1>5

-----------------------------------------------------------------------------
(* The inductive invariant of the mutations.                               *)

\* The messages that the author has.
AtAuthor == {m \in Messages : copy["author"][m].there}

\* Records up to a time of the author's clock.  A mutation is known by its time: what was
\* done then, h[at], is the same in every record of it.
Made(h, clock, here) ==
  {r \in Records :
     /\ r.message \in here
     /\ r.kind \in Kinds => r.at <= clock /\ r.kind = h[r.at]}

InProgressCalls(h, clock, here) ==
  {c \in [kind : Kinds, message : Messages, at : Nat \ {0}, step : {"start", "accepted", "failed"}] :
     c.message \in here /\ c.at <= clock /\ c.kind = h[c.at]}

\* A copy shows the mutation whose time it holds.
Consistent(h, clock) ==
  {c \in Copies :
     /\ c.there \/ c = NoCopy
     /\ c.at > 0 =>
          /\ c.at <= clock
          /\ h[c.at] = "recall" => c.recalled
          /\ h[c.at] = "edit" => ~c.recalled /\ c.body = c.at}

\* What lies below a cursor of a device: the texts are there, the mutations after them shown.
Passed(table, seq, n) ==
  /\ \A i \in 1 .. n : seq[i].kind = "text" => table[seq[i].message].there
  /\ \A i, j \in 1 .. n :
       /\ i < j
       /\ seq[i].kind = "text" /\ seq[j].kind \in Kinds
       /\ seq[i].message = seq[j].message
       => table[seq[j].message].at >= seq[j].at

MutationInv(h) ==
  /\ now \in 1 .. MaxTime
  /\ copy \in [Sides -> [Messages -> Consistent(h, AuthorsClock)]]
  /\ \A m \in AtAuthor : copy["author"][m].created \in 1 .. AuthorsClock
  /\ outbox \subseteq AtAuthor
  /\ calls \in Seq(InProgressCalls(h, AuthorsClock, AtAuthor))
  /\ log \in Seq(Made(h, AuthorsClock, AtAuthor)) /\ p2p \in Seq(Made(h, AuthorsClock, AtAuthor))
  /\ cursor \in [Sides -> Nat]
  /\ \A d \in Sides : cursor[d] <= Len(log) /\ Passed(copy[d], log, cursor[d])
  /\ left \in [{"mutations", "sends", "losses"} -> Nat]

-----------------------------------------------------------------------------
(* What a record does to a copy.                                           *)

\* A copy that is there stays, no older mutation replaces a newer one, a recall is final.
Advanced(c, c2) ==
  /\ c.there => c2.there /\ c2.created = c.created
  /\ c.at <= c2.at
  /\ c.recalled => c2.recalled

LEMMA FirstCopy ==
  ASSUME NEW h, NEW clock, NEW t \in Nat
  PROVE  /\ NewCopy(t) \in Consistent(h, clock)
         /\ NewCopy(t).there /\ NewCopy(t).at = 0 /\ NewCopy(t).created = t
<1>1. NewCopy(t) \in Copies /\ NewCopy(t).there /\ NewCopy(t).at = 0 /\ NewCopy(t).created = t
  BY DEF NewCopy, NoCopy, Copies
<1> QED
  BY <1>1 DEF Consistent

LEMMA MutatedCopy ==
  ASSUME NEW h, NEW clock \in Int, NEW here \in SUBSET Messages,
         NEW c \in Consistent(h, clock), NEW r \in Made(h, clock, here), r.kind \in Kinds, c.there
  PROVE  /\ Mutated(c, r) \in Consistent(h, clock)
         /\ Advanced(c, Mutated(c, r))
<1>1. r.at \in Nat \ {0} /\ r.at <= clock /\ r.kind = h[r.at]
  BY DEF Made, Records
<1>2. c.at \in Nat /\ c.created \in Nat /\ c \in Copies
  BY DEF Consistent, Copies
<1>3. Advanced(c, c)
  BY <1>2 DEF Advanced
<1>4. CASE r.kind = "recall" /\ c.at < r.at
  <2> DEFINE c2 == [c EXCEPT !.recalled = TRUE, !.at = r.at]
  <2>1. /\ c2.there = c.there /\ c2.created = c.created
        /\ c2.recalled = TRUE /\ c2.at = r.at
        /\ c2 \in Copies
    BY <1>1, <1>2 DEF Copies
  <2>2. Mutated(c, r) = c2
    BY <1>4 DEF Mutated, Recalled
  <2> HIDE DEF c2
  <2>3. c2.at <= clock /\ c2.recalled /\ h[c2.at] # "edit"
    BY <1>1, <1>4, <2>1
  <2>4. c2.there
    BY <2>1
  <2>5. c2 \in Consistent(h, clock)
    BY <2>1, <2>3, <2>4 DEF Consistent
  <2>6. c.at <= c2.at
    BY <1>1, <1>2, <1>4, <2>1
  <2>7. Advanced(c, c2)
    BY <2>1, <2>3, <2>4, <2>6, Zenon DEF Advanced
  <2> QED
    BY <2>2, <2>5, <2>7
<1>5. CASE r.kind = "edit" /\ ~c.recalled /\ c.at < r.at
  <2> DEFINE c2 == [c EXCEPT !.body = r.at, !.at = r.at]
  <2>1. /\ c2.there = c.there /\ c2.created = c.created
        /\ c2.recalled = c.recalled /\ c2.at = r.at /\ c2.body = r.at
        /\ c2 \in Copies
    BY <1>1, <1>2 DEF Copies
  <2>2. Mutated(c, r) = c2
    BY <1>5 DEF Mutated, Edited
  <2> HIDE DEF c2
  <2>3. c2.at <= clock /\ ~c2.recalled /\ c2.body = c2.at /\ h[c2.at] # "recall"
    BY <1>1, <1>5, <2>1
  <2>4. c2.there
    BY <2>1
  <2>5. c2 \in Consistent(h, clock)
    BY <2>1, <2>3, <2>4 DEF Consistent
  <2>6. c.at <= c2.at
    BY <1>1, <1>2, <1>5, <2>1
  <2>7. Advanced(c, c2)
    BY <2>1, <2>3, <1>5, <2>4, <2>6, Zenon DEF Advanced
  <2> QED
    BY <2>2, <2>5, <2>7
<1>6. CASE Mutated(c, r) = c
  BY <1>3, <1>6
<1> QED
  BY <1>4, <1>5, <1>6 DEF Kinds, Mutated, Recalled, Edited

LEMMA AppliedCopy ==
  ASSUME NEW h, NEW clock \in Int, NEW here \in SUBSET Messages,
         NEW c \in Consistent(h, clock), NEW r \in Made(h, clock, here)
  PROVE  /\ Applied(c, r) \in Consistent(h, clock)
         /\ Advanced(c, Applied(c, r))
<1>1. Advanced(c, c)
  BY DEF Advanced, Consistent, Copies
<1>2. CASE r.kind = "text" /\ ~c.there
  <2>1. r.at \in Nat /\ c = NoCopy
    BY <1>2 DEF Made, Records, Consistent
  <2> DEFINE c2 == NewCopy(r.at)
  <2>2. c2 \in Consistent(h, clock) /\ c2.at = 0
    BY <2>1, FirstCopy
  <2>3. ~c.there /\ ~c.recalled /\ c.at = 0
    BY <2>1 DEF NoCopy
  <2>4. Applied(c, r) = c2
    BY <1>2 DEF Applied, Stored
  <2> HIDE DEF c2
  <2> QED
    BY <2>2, <2>3, <2>4 DEF Advanced
<1>3. CASE r.kind = "text" /\ c.there
  BY <1>1, <1>3 DEF Applied, Stored
<1>4. CASE r.kind \in Kinds
  BY <1>1, <1>4, MutatedCopy DEF Applied, Kinds
<1> QED
  BY <1>2, <1>3, <1>4 DEF Made, Records

\* A text is there after its record, and a mutation that does not fail is shown.
LEMMA AppliedIsShown ==
  ASSUME NEW h, NEW clock \in Int, NEW here \in SUBSET Messages,
         NEW c \in Consistent(h, clock), NEW r \in Made(h, clock, here), ~Fails(c, r)
  PROVE  /\ r.kind = "text" => Applied(c, r).there
         /\ r.kind \in Kinds /\ c.there => Applied(c, r).at >= r.at
<1>1. r.at \in Nat /\ c.at \in Nat /\ c \in Copies
  BY DEF Made, Records, Consistent, Copies
<1>2. CASE r.kind = "text"
  BY <1>2 DEF Applied, Stored, NewCopy, NoCopy, Kinds
<1>3. CASE r.kind = "recall"
  BY <1>1, <1>3 DEF Applied, Fails, IsRefused, Mutated, Recalled, Copies
<1>4. CASE r.kind = "edit"
  BY <1>1, <1>4 DEF Applied, Fails, IsRefused, Mutated, Edited, Copies
<1> QED
  BY <1>2, <1>3, <1>4 DEF Made, Records, Kinds

LEMMA AdvancedIsTransitive ==
  ASSUME NEW c, NEW c2, NEW c3, c.at \in Nat, c2.at \in Nat, c3.at \in Nat,
         Advanced(c, c2), Advanced(c2, c3)
  PROVE  Advanced(c, c3)
<1>1. c.at <= c3.at
  BY DEF Advanced
<1>2. c.there => c3.there /\ c3.created = c.created
  BY DEF Advanced
<1>3. c.recalled => c3.recalled
  BY DEF Advanced
<1> QED
  BY <1>1, <1>2, <1>3, Zenon DEF Advanced

LEMMA AdvancedIsReflexive ==
  ASSUME NEW c, c.at \in Nat
  PROVE  Advanced(c, c)
BY DEF Advanced

LEMMA TimeOfCopy ==
  ASSUME NEW h, NEW clock, NEW c \in Consistent(h, clock)
  PROVE  c.at \in Nat
BY DEF Consistent, Copies

LEMMA PersistedTable ==
  ASSUME NEW h, NEW clock \in Int, NEW here \in SUBSET Messages,
         NEW table \in [Messages -> Consistent(h, clock)], NEW r \in Made(h, clock, here)
  PROVE  /\ Persisted(table, r) \in [Messages -> Consistent(h, clock)]
         /\ Persisted(table, r)[r.message] = Applied(table[r.message], r)
         /\ \A m \in Messages : Advanced(table[m], Persisted(table, r)[m])
         /\ \A m \in Messages \ here : Persisted(table, r)[m] = table[m]
<1>1. r.message \in here /\ r.message \in Messages
  BY DEF Made
<1>2. /\ Applied(table[r.message], r) \in Consistent(h, clock)
      /\ Advanced(table[r.message], Applied(table[r.message], r))
  BY <1>1, AppliedCopy
<1>3. \A m \in Messages : Persisted(table, r)[m] =
        IF m = r.message THEN Applied(table[m], r) ELSE table[m]
  BY <1>1 DEF Persisted
<1>4. Persisted(table, r) \in [Messages -> Consistent(h, clock)]
  BY <1>1, <1>2 DEF Persisted
<1>5. \A m \in Messages : Advanced(table[m], table[m])
  BY AdvancedIsReflexive, TimeOfCopy
<1> QED
  BY <1>1, <1>2, <1>3, <1>4, <1>5

-----------------------------------------------------------------------------
(* What a page does to a table.                                            *)

\* Each record leaves a table of consistent copies, further than the table before the page.
LEMMA PageTables ==
  ASSUME NEW h, NEW clock \in Int, NEW here \in SUBSET Messages,
         NEW table \in [Messages -> Consistent(h, clock)],
         NEW page \in Seq(Made(h, clock, here)), NEW i \in 0 .. Len(page)
  PROVE  /\ Tables(table, page)[i] \in [Messages -> Consistent(h, clock)]
         /\ \A m \in Messages : Advanced(table[m], Tables(table, page)[i][m])
         /\ \A m \in Messages \ here : Tables(table, page)[i][m] = table[m]
<1> DEFINE after == Tables(table, page)
           Good(k) == /\ after[k] \in [Messages -> Consistent(h, clock)]
                      /\ \A m \in Messages : Advanced(table[m], after[k][m])
                      /\ \A m \in Messages \ here : after[k][m] = table[m]
           S == {k \in Nat : k <= Len(page) => Good(k)}
<1>1. after[0] = table /\ \A k \in 1 .. Len(page) : after[k] = Persisted(after[k - 1], page[k])
  BY TableAfter
<1> HIDE DEF after
<1>2. 0 \in S
  BY <1>1, AdvancedIsReflexive, TimeOfCopy
<1>3. ASSUME NEW n \in Nat, n \in S
      PROVE  n + 1 \in S
  <2> SUFFICES ASSUME n + 1 <= Len(page)
               PROVE  Good(n + 1)
    OBVIOUS
  <2>1. Good(n)
    BY <1>3
  <2>2. n + 1 \in 1 .. Len(page) /\ (n + 1) - 1 = n
    OBVIOUS
  <2> DEFINE r == page[n + 1]
  <2>3. r \in Made(h, clock, here)
    BY <2>2
  <2>4. after[n + 1] = Persisted(after[n], r)
    BY <1>1, <2>2
  <2> HIDE DEF r
  <2>5. /\ after[n + 1] \in [Messages -> Consistent(h, clock)]
        /\ \A m \in Messages : Advanced(after[n][m], after[n + 1][m])
        /\ \A m \in Messages \ here : after[n + 1][m] = after[n][m]
    BY <2>1, <2>3, <2>4, PersistedTable
  <2>6. ASSUME NEW m \in Messages
        PROVE  Advanced(table[m], after[n + 1][m])
    <3>1. table[m].at \in Nat /\ after[n][m].at \in Nat /\ after[n + 1][m].at \in Nat
      BY <2>1, <2>5, TimeOfCopy
    <3> QED
      BY <2>1, <2>5, <3>1, AdvancedIsTransitive
  <2> QED
    BY <2>1, <2>5, <2>6
<1>4. Nat \subseteq S
  <2> HIDE DEF S
  <2> QED
    BY <1>2, <1>3, SetInduction
<1>5. Good(i)
  BY <1>4
<1> QED
  BY <1>5 DEF after

LEMMA MadeRecord ==
  ASSUME NEW h, NEW clock, NEW here \in SUBSET Messages, NEW r \in Made(h, clock, here)
  PROVE  r.message \in Messages /\ r.at \in Nat
BY DEF Made, Records

\* What a cursor has passed stays shown as the copies advance and the log grows.
LEMMA PassedStays ==
  ASSUME NEW table, NEW table2, NEW seq, NEW seq2, NEW n \in Nat,
         \A m \in Messages : table[m].at \in Nat /\ table2[m].at \in Nat,
         \A m \in Messages : Advanced(table[m], table2[m]),
         \A i \in 1 .. n : seq[i].message \in Messages /\ seq[i].at \in Nat,
         \A i \in 1 .. n : seq2[i] = seq[i],
         Passed(table, seq, n)
  PROVE  Passed(table2, seq2, n)
<1>1. \A i \in 1 .. n : seq[i].message \in Messages /\ seq[i].at \in Nat
  OBVIOUS
<1>2. \A m \in Messages : table[m].at \in Nat /\ table2[m].at \in Nat
  OBVIOUS
<1>3. ASSUME NEW i \in 1 .. n, seq2[i].kind = "text"
      PROVE  table2[seq2[i].message].there
  BY <1>1, <1>3 DEF Passed, Advanced
<1>4. ASSUME NEW i \in 1 .. n, NEW j \in 1 .. n, i < j,
             seq2[i].kind = "text", seq2[j].kind \in Kinds, seq2[i].message = seq2[j].message
      PROVE  table2[seq2[j].message].at >= seq2[j].at
  <2>1. table[seq[j].message].at >= seq[j].at
    BY <1>4 DEF Passed
  <2>2. table[seq[j].message].at <= table2[seq[j].message].at
    BY <1>1 DEF Advanced
  <2>3. seq[j].at \in Nat /\ table[seq[j].message].at \in Nat /\ table2[seq[j].message].at \in Nat
    BY <1>1, <1>2
  <2> QED
    BY <2>1, <2>2, <2>3
<1> QED
  BY <1>3, <1>4 DEF Passed

\* One more record that does not fail.
LEMMA RecordIsShown ==
  ASSUME NEW h, NEW clock \in Int, NEW here \in SUBSET Messages,
         NEW table \in [Messages -> Consistent(h, clock)],
         NEW seq \in Seq(Made(h, clock, here)), NEW n \in Nat, n + 1 <= Len(seq),
         Passed(table, seq, n), ~Fails(table[seq[n + 1].message], seq[n + 1])
  PROVE  Passed(Persisted(table, seq[n + 1]), seq, n + 1)
<1> DEFINE r == seq[n + 1]
           table2 == Persisted(table, r)
<1>1. r \in Made(h, clock, here)
  OBVIOUS
<1>2. /\ table2 \in [Messages -> Consistent(h, clock)]
      /\ table2[r.message] = Applied(table[r.message], r)
      /\ \A m \in Messages : Advanced(table[m], table2[m])
  BY <1>1, PersistedTable
<1>3. table[r.message] \in Consistent(h, clock) /\ r.message \in Messages
  BY <1>1, MadeRecord
<1>4. /\ r.kind = "text" => table2[r.message].there
      /\ r.kind \in Kinds /\ table[r.message].there => table2[r.message].at >= r.at
  BY <1>1, <1>2, <1>3, AppliedIsShown
<1>5. Passed(table2, seq, n)
  <2> HIDE DEF table2
  <2>1. \A m \in Messages : table[m].at \in Nat /\ table2[m].at \in Nat
    BY <1>2, TimeOfCopy
  <2>2. \A i \in 1 .. n : seq[i].message \in Messages /\ seq[i].at \in Nat
    BY MadeRecord
  <2> QED
    BY <1>2, <2>1, <2>2, PassedStays
<1> HIDE DEF table2
<1>6. ASSUME NEW i \in 1 .. n + 1, seq[i].kind = "text"
      PROVE  table2[seq[i].message].there
  BY <1>4, <1>5, <1>6 DEF Passed
<1>7. ASSUME NEW i \in 1 .. n + 1, NEW j \in 1 .. n + 1, i < j,
             seq[i].kind = "text", seq[j].kind \in Kinds, seq[i].message = seq[j].message
      PROVE  table2[seq[j].message].at >= seq[j].at
  <2>1. CASE j = n + 1
    <3>1. i \in 1 .. n
      BY <1>7, <2>1
    <3>2. table[seq[i].message].there
      BY <1>7, <3>1 DEF Passed
    <3> QED
      BY <1>4, <1>7, <2>1, <3>2
  <2>2. CASE j \in 1 .. n
    BY <1>5, <1>7, <2>2 DEF Passed
  <2> QED
    BY <2>1, <2>2
<1>8. Passed(table2, seq, n + 1)
  BY <1>6, <1>7 DEF Passed
<1> QED
  BY <1>8 DEF table2

\* A page without a failure, read where the cursor of the device stands in the log.
LEMMA PageIsShown ==
  ASSUME NEW h, NEW clock \in Int, NEW here \in SUBSET Messages,
         NEW table \in [Messages -> Consistent(h, clock)],
         NEW seq \in Seq(Made(h, clock, here)), NEW n \in Nat, Passed(table, seq, n),
         NEW page \in Seq(Made(h, clock, here)), n + Len(page) <= Len(seq),
         \A i \in 1 .. Len(page) :
           /\ page[i] = seq[n + i]
           /\ ~Fails(Tables(table, page)[i - 1][page[i].message], page[i])
  PROVE  Passed(Tables(table, page)[Len(page)], seq, n + Len(page))
<1> DEFINE after == Tables(table, page)
           S == {k \in Nat : k <= Len(page) => Passed(after[k], seq, n + k)}
<1>1. /\ after[0] = table
      /\ \A k \in 1 .. Len(page) : after[k] = Persisted(after[k - 1], page[k])
  BY TableAfter
<1>2. \A k \in 0 .. Len(page) : after[k] \in [Messages -> Consistent(h, clock)]
  BY PageTables
<1>3. \A i \in 1 .. Len(page) : ~Fails(after[i - 1][page[i].message], page[i])
  OBVIOUS
<1> HIDE DEF after
<1>4. 0 \in S
  BY <1>1
<1>5. ASSUME NEW k \in Nat, k \in S
      PROVE  k + 1 \in S
  <2> SUFFICES ASSUME k + 1 <= Len(page)
               PROVE  Passed(after[k + 1], seq, n + (k + 1))
    OBVIOUS
  <2>1. k + 1 \in 1 .. Len(page) /\ (k + 1) - 1 = k /\ k \in 0 .. Len(page)
    OBVIOUS
  <2>2. PICK l \in Nat : l = n + k
    OBVIOUS
  <2>3. after[k] \in [Messages -> Consistent(h, clock)] /\ Passed(after[k], seq, l)
    BY <1>2, <1>5, <2>1, <2>2
  <2>4. l + 1 = n + (k + 1) /\ l + 1 <= Len(seq)
    BY <2>2
  <2>5. page[k + 1] = seq[l + 1]
    BY <2>1, <2>4
  <2>6. after[k + 1] = Persisted(after[k], seq[l + 1])
    BY <1>1, <2>1, <2>5
  <2>7. ~Fails(after[k][seq[l + 1].message], seq[l + 1])
    BY <1>3, <2>1, <2>5
  <2>8. Passed(Persisted(after[k], seq[l + 1]), seq, l + 1)
    <3> DEFINE t == after[k]
    <3>1. t \in [Messages -> Consistent(h, clock)] /\ Passed(t, seq, l)
      BY <2>3
    <3>2. ~Fails(t[seq[l + 1].message], seq[l + 1])
      BY <2>7
    <3>3. l + 1 <= Len(seq)
      BY <2>4
    <3> HIDE DEF t
    <3>4. Passed(Persisted(t, seq[l + 1]), seq, l + 1)
      BY <3>1, <3>2, <3>3, RecordIsShown
    <3> QED
      BY <3>4 DEF t
  <2> QED
    BY <2>4, <2>6, <2>8
<1>6. Nat \subseteq S
  <2> HIDE DEF S
  <2> QED
    BY <1>4, <1>5, SetInduction
<1>7. Passed(after[Len(page)], seq, n + Len(page))
  BY <1>6
<1> QED
  BY <1>7 DEF after

-----------------------------------------------------------------------------
(* Parts of the steps of the mutations.                                    *)

Kept(h) == Made(h, AuthorsClock, AtAuthor)
Ongoing(h) == InProgressCalls(h, AuthorsClock, AtAuthor)
Tabled(h) == [Messages -> Consistent(h, AuthorsClock)]
CopiesAdvance == \A d \in Sides, m \in Messages : Advanced(copy[d][m], copy'[d][m])

LEMMA SequencesGrow ==
  ASSUME NEW small, NEW big, small \subseteq big
  PROVE  Seq(small) \subseteq Seq(big)
OBVIOUS

\* What is true of the times that have passed stays true.
LEMMA TimesGrow ==
  ASSUME NEW h, NEW h2, NEW clock \in Int, NEW clock2 \in Int, clock <= clock2,
         \A t \in 1 .. clock : h2[t] = h[t],
         NEW here, NEW here2, here \subseteq here2
  PROVE  /\ Made(h, clock, here) \subseteq Made(h2, clock2, here2)
         /\ InProgressCalls(h, clock, here) \subseteq InProgressCalls(h2, clock2, here2)
         /\ Consistent(h, clock) \subseteq Consistent(h2, clock2)
<1>1. ASSUME NEW r \in Made(h, clock, here)
      PROVE  r \in Made(h2, clock2, here2)
  <2>1. r.at \in Nat \ {0}
    BY DEF Made, Records
  <2>2. r.kind \in Kinds => r.at \in 1 .. clock
    BY <2>1 DEF Made
  <2> QED
    BY <2>1, <2>2 DEF Made
<1>2. ASSUME NEW c \in InProgressCalls(h, clock, here)
      PROVE  c \in InProgressCalls(h2, clock2, here2)
  <2>1. c.at \in 1 .. clock
    BY DEF InProgressCalls
  <2> QED
    BY <2>1 DEF InProgressCalls
<1>3. ASSUME NEW c \in Consistent(h, clock)
      PROVE  c \in Consistent(h2, clock2)
  <2>1. c.at \in Nat /\ (c.at > 0 => c.at \in 1 .. clock)
    BY DEF Consistent, Copies
  <2>2. c.at > 0 => h2[c.at] = h[c.at] /\ c.at <= clock2
    BY <2>1
  <2> QED
    BY <2>1, <2>2 DEF Consistent
<1> QED
  BY <1>1, <1>2, <1>3

LEMMA ClockIsInt ==
  ASSUME NEW h, MutationInv(h)
  PROVE  AuthorsClock \in Int /\ AtAuthor \subseteq Messages
BY DurationsAssumption, BoundsAssumption DEF MutationInv, AuthorsClock, AtAuthor

LEMMA SumsGrow ==
  ASSUME NEW a \in Int, NEW b \in Int, NEW c \in Int
  PROVE  a + c \in Int /\ (a <= b => a + c <= b + c)
OBVIOUS

\* What is under way stays well formed while copies advance and time goes on.
LEMMA UnderWay ==
  ASSUME NEW h, NEW h2, MutationInv(h), now' \in now .. MaxTime,
         \A t \in 1 .. AuthorsClock : h2[t] = h[t],
         \A m \in Messages : copy["author"][m].there => copy'["author"][m].there
  PROVE  /\ AuthorsClock' \in Int /\ AuthorsClock <= AuthorsClock'
         /\ AtAuthor \subseteq AtAuthor' /\ AtAuthor' \subseteq Messages
         /\ Kept(h) \subseteq Kept(h2)' /\ Ongoing(h) \subseteq Ongoing(h2)'
         /\ Consistent(h, AuthorsClock) \subseteq Consistent(h2, AuthorsClock')
         /\ calls \in Seq(Ongoing(h2)')
         /\ log \in Seq(Kept(h2)') /\ p2p \in Seq(Kept(h2)')
<1>1. AuthorsClock \in Int /\ AuthorsClock' \in Int /\ AuthorsClock <= AuthorsClock'
  <2>1. now \in 1 .. MaxTime
    BY DEF MutationInv
  <2>2. now \in Int /\ now' \in Int /\ now <= now' /\ Skew \in Int
    BY <2>1, DurationsAssumption, BoundsAssumption
  <2>3. now + Skew \in Int /\ now' + Skew \in Int /\ now + Skew <= now' + Skew
    BY <2>2, SumsGrow
  <2> QED
    BY <2>3 DEF AuthorsClock
<1>2. AtAuthor \subseteq AtAuthor' /\ AtAuthor' \subseteq Messages
  BY DEF AtAuthor
<1>3. /\ Kept(h) \subseteq Kept(h2)' /\ Ongoing(h) \subseteq Ongoing(h2)'
      /\ Consistent(h, AuthorsClock) \subseteq Consistent(h2, AuthorsClock')
  BY <1>1, <1>2, TimesGrow DEF Kept, Ongoing
<1>4. calls \in Seq(Ongoing(h)) /\ log \in Seq(Kept(h)) /\ p2p \in Seq(Kept(h))
  BY DEF MutationInv, Kept, Ongoing
<1> QED
  BY <1>1, <1>2, <1>3, <1>4, SequencesGrow

LEMMA LogGrows ==
  ASSUME NEW S, NEW seq \in Seq(S), NEW seq2,
         seq2 = seq \/ \E r \in S : seq2 = Append(seq, r)
  PROVE  /\ seq2 \in Seq(S) /\ Len(seq) <= Len(seq2)
         /\ \A i \in 1 .. Len(seq) : seq2[i] = seq[i]
<1>1. CASE seq2 = seq
  BY <1>1
<1>2. CASE \E r \in S : seq2 = Append(seq, r)
  <2>1. PICK r \in S : seq2 = Append(seq, r)
    BY <1>2
  <2> QED
    BY <2>1
<1> QED
  BY <1>1, <1>2

\* What every step has to show; h2 is h and what the step adds to it.
LEMMA MutationStep ==
  ASSUME NEW h, NEW h2, MutationInv(h), now' \in now .. MaxTime,
         \A t \in 1 .. AuthorsClock : h2[t] = h[t],
         copy' \in [Sides -> Tabled(h2)'],
         CopiesAdvance,
         \A m \in AtAuthor' \ AtAuthor : copy'["author"][m].created \in 1 .. AuthorsClock',
         outbox' \subseteq AtAuthor',
         calls' \in Seq(Ongoing(h2)'),
         log' = log \/ \E r \in Kept(h2)' : log' = Append(log, r),
         p2p' \in Seq(Kept(h2)'),
         cursor' \in [Sides -> Nat],
         \A d \in Sides : \/ cursor'[d] = cursor[d]
                          \/ cursor'[d] <= Len(log) /\ Passed(copy'[d], log, cursor'[d]),
         left' \in [{"mutations", "sends", "losses"} -> Nat]
  PROVE  MutationInv(h2)'
<1>1. \A m \in Messages : copy["author"][m].there => copy'["author"][m].there
  BY DEF CopiesAdvance, Advanced, Sides
<1>2. /\ AuthorsClock' \in Int /\ AuthorsClock <= AuthorsClock'
      /\ AtAuthor' \subseteq Messages
      /\ log \in Seq(Kept(h2)')
  BY <1>1, UnderWay
<1>3. now' \in 1 .. MaxTime
  BY BoundsAssumption DEF MutationInv
<1>4. ASSUME NEW m \in AtAuthor'
      PROVE  copy'["author"][m].created \in 1 .. AuthorsClock'
  <2>1. CASE m \in AtAuthor
    <3>1. copy["author"][m].created \in 1 .. AuthorsClock
      BY <2>1 DEF MutationInv
    <3>2. copy'["author"][m].created = copy["author"][m].created
      BY <2>1 DEF CopiesAdvance, Advanced, AtAuthor, Sides
    <3> QED
      BY <1>2, <3>1, <3>2, ClockIsInt
  <2> QED
    BY <2>1
<1>5. /\ log' \in Seq(Kept(h2)') /\ Len(log) <= Len(log')
      /\ \A i \in 1 .. Len(log) : log'[i] = log[i]
  BY <1>2, LogGrows
<1>6. Len(log) \in Nat /\ Len(log') \in Nat
  BY <1>2, <1>5
<1>7. Len(log) <= Len(log') /\ \A i \in 1 .. Len(log) : log'[i] = log[i]
  BY <1>5
<1>8. ASSUME NEW d \in Sides
      PROVE  cursor'[d] <= Len(log') /\ Passed(copy'[d], log', cursor'[d])
  <2>1. /\ copy[d] \in [Messages -> Consistent(h, AuthorsClock)]
        /\ copy'[d] \in [Messages -> Consistent(h2, AuthorsClock')]
        /\ cursor[d] \in Nat /\ cursor'[d] \in Nat
        /\ \A m \in Messages : Advanced(copy[d][m], copy'[d][m])
    BY DEF MutationInv, Tabled, CopiesAdvance
  <2>4. \A m \in Messages : copy[d][m].at \in Nat /\ copy'[d][m].at \in Nat
    BY <2>1, TimeOfCopy
  <2>5. \A i \in 1 .. Len(log) : log[i].message \in Messages /\ log[i].at \in Nat
    <3>1. \A i \in 1 .. Len(log) : log[i] \in Made(h2, AuthorsClock', AtAuthor')
      BY <1>2 DEF Kept
    <3> QED
      BY <1>2, <3>1, MadeRecord
  <2>2. CASE cursor'[d] = cursor[d]
    <3>1. cursor[d] \in 0 .. Len(log) /\ Passed(copy[d], log, cursor[d])
      BY <1>6, <2>1 DEF MutationInv
    <3>2. \A i \in 1 .. cursor[d] : log'[i] = log[i]
      <4>1. 1 .. cursor[d] \subseteq 1 .. Len(log)
        BY <1>6, <3>1
      <4> QED
        BY <1>7, <4>1
    <3>3. \A i \in 1 .. cursor[d] : log[i].message \in Messages /\ log[i].at \in Nat
      BY <1>6, <2>5, <3>1
    <3>4. Passed(copy'[d], log', cursor[d])
      BY <2>1, <2>4, <3>1, <3>2, <3>3, PassedStays
    <3> QED
      BY <1>6, <1>7, <2>2, <3>1, <3>4
  <2>3. CASE cursor'[d] <= Len(log) /\ Passed(copy'[d], log, cursor'[d])
    <3>1. cursor'[d] \in 0 .. Len(log)
      BY <1>6, <2>1, <2>3
    <3>2. \A i \in 1 .. cursor'[d] : log'[i] = log[i]
      <4>1. 1 .. cursor'[d] \subseteq 1 .. Len(log)
        BY <1>6, <3>1
      <4> QED
        BY <1>7, <4>1
    <3>3. \A m \in Messages : Advanced(copy'[d][m], copy'[d][m])
      BY <2>1, AdvancedIsReflexive, TimeOfCopy
    <3>4. \A i \in 1 .. cursor'[d] : log[i].message \in Messages /\ log[i].at \in Nat
      BY <1>6, <2>5, <3>1
    <3>5. Passed(copy'[d], log', cursor'[d])
      BY <2>1, <2>3, <2>4, <3>2, <3>3, <3>4, PassedStays
    <3> QED
      BY <1>6, <1>7, <3>1, <3>5
  <2> QED
    BY <2>2, <2>3
<1> QED
  BY <1>3, <1>4, <1>5, <1>8 DEF MutationInv, Kept, Ongoing, Tabled

\* A step that changes no copy.
LEMMA CopiesUnchanged ==
  ASSUME NEW h, NEW h2, MutationInv(h), now' \in now .. MaxTime,
         \A t \in 1 .. AuthorsClock : h2[t] = h[t], UNCHANGED copy,
         outbox' \subseteq AtAuthor,
         calls' \in Seq(Ongoing(h2)'),
         log' = log \/ \E r \in Kept(h2)' : log' = Append(log, r),
         p2p' \in Seq(Kept(h2)'),
         UNCHANGED cursor,
         left' \in [{"mutations", "sends", "losses"} -> Nat]
  PROVE  MutationInv(h2)' /\ CopiesAdvance
<1>1. /\ AtAuthor \subseteq AtAuthor'
      /\ Consistent(h, AuthorsClock) \subseteq Consistent(h2, AuthorsClock')
  BY UnderWay
<1>2. copy' \in [Sides -> Tabled(h2)']
  BY <1>1 DEF MutationInv, Tabled
<1>3. ASSUME NEW d \in Sides, NEW m \in Messages
      PROVE  Advanced(copy[d][m], copy'[d][m])
  <2>1. copy[d][m] \in Consistent(h, AuthorsClock)
    BY DEF MutationInv
  <2> QED
    BY <2>1, TimeOfCopy, AdvancedIsReflexive
<1>4. \A m \in AtAuthor' \ AtAuthor : copy'["author"][m].created \in 1 .. AuthorsClock'
  BY DEF AtAuthor
<1>5. cursor' \in [Sides -> Nat] /\ \A d \in Sides : cursor'[d] = cursor[d]
  BY DEF MutationInv
<1>6. outbox' \subseteq AtAuthor'
  BY <1>1
<1> QED
  BY <1>2, <1>3, <1>4, <1>5, <1>6, MutationStep DEF CopiesAdvance

\* A step that changes one copy.
LEMMA CopyChanges ==
  ASSUME NEW h, MutationInv(h), UNCHANGED now,
         NEW d \in Sides, NEW m \in Messages, NEW c \in Consistent(h, AuthorsClock),
         copy' = [copy EXCEPT ![d][m] = c],
         Advanced(copy[d][m], c),
         d = "author" /\ ~copy[d][m].there => c.created \in 1 .. AuthorsClock,
         outbox' \subseteq AtAuthor',
         calls' \in Seq(Ongoing(h)),
         UNCHANGED log,
         p2p' \in Seq(Kept(h)),
         UNCHANGED cursor,
         left' \in [{"mutations", "sends", "losses"} -> Nat]
  PROVE  MutationInv(h)' /\ CopiesAdvance
<1>1. now' \in now .. MaxTime /\ AuthorsClock' = AuthorsClock
  BY BoundsAssumption DEF MutationInv, AuthorsClock
<1>2. copy \in [Sides -> Tabled(h)]
  BY DEF MutationInv, Tabled
<1>3. \A e \in Sides, n \in Messages :
        copy'[e][n] = IF e = d /\ n = m THEN c ELSE copy[e][n]
  BY <1>2 DEF Tabled
<1>4. copy' \in [Sides -> Tabled(h)']
  BY <1>1, <1>2 DEF Tabled
<1>5. ASSUME NEW e \in Sides, NEW n \in Messages
      PROVE  Advanced(copy[e][n], copy'[e][n])
  <2>1. copy[e][n] \in Consistent(h, AuthorsClock)
    BY <1>2 DEF Tabled
  <2>2. Advanced(copy[e][n], copy[e][n])
    BY <2>1, TimeOfCopy, AdvancedIsReflexive
  <2> QED
    BY <1>3, <2>2
<1>6. ASSUME NEW n \in AtAuthor' \ AtAuthor
      PROVE  copy'["author"][n].created \in 1 .. AuthorsClock'
  <2>1. n \in Messages /\ "author" \in Sides
    BY DEF AtAuthor, Sides
  <2>2. ~copy["author"][n].there /\ copy'["author"][n].there
    BY DEF AtAuthor
  <2> QED
    BY <1>1, <1>3, <2>1, <2>2
<1>7. \A n \in Messages : copy["author"][n].there => copy'["author"][n].there
  BY <1>5 DEF Advanced, Sides
<1>8. Kept(h) \subseteq Kept(h)' /\ Ongoing(h) \subseteq Ongoing(h)'
  BY <1>1, <1>7, UnderWay
<1>9. calls' \in Seq(Ongoing(h)') /\ p2p' \in Seq(Kept(h)')
  BY <1>8, SequencesGrow
<1>10. cursor' \in [Sides -> Nat] /\ \A e \in Sides : cursor'[e] = cursor[e]
  BY DEF MutationInv
<1> QED
  BY <1>1, <1>4, <1>5, <1>6, <1>9, <1>10, MutationStep DEF CopiesAdvance

\* What steps that keep the time and the copies make of records, calls and bounds.
LEMMA BoundsUsed ==
  ASSUME NEW h, MutationInv(h), NEW kind \in {"mutations", "sends", "losses"}, Use(kind)
  PROVE  left' \in [{"mutations", "sends", "losses"} -> Nat]
<1>1. left \in [{"mutations", "sends", "losses"} -> Nat]
  BY DEF MutationInv
<1>2. left[kind] - 1 \in Nat
  BY <1>1 DEF Use
<1> QED
  BY <1>1, <1>2 DEF Use

LEMMA SameTime ==
  ASSUME NEW h, MutationInv(h), UNCHANGED <<now, copy>>
  PROVE  /\ now' \in now .. MaxTime
         /\ Kept(h)' = Kept(h) /\ Ongoing(h)' = Ongoing(h)
         /\ calls \in Seq(Ongoing(h)) /\ log \in Seq(Kept(h)) /\ p2p \in Seq(Kept(h))
         /\ outbox \subseteq AtAuthor
         /\ left \in [{"mutations", "sends", "losses"} -> Nat]
<1>1. now' \in now .. MaxTime
  BY BoundsAssumption DEF MutationInv
<1>2. Kept(h)' = Kept(h) /\ Ongoing(h)' = Ongoing(h)
  BY DEF Kept, Ongoing, AuthorsClock, AtAuthor
<1> QED
  BY <1>1, <1>2 DEF MutationInv, Kept, Ongoing

\* A step that changes neither the time nor a copy.
LEMMA OnlyUnderWay ==
  ASSUME NEW h, MutationInv(h), UNCHANGED <<now, copy, cursor>>,
         outbox' \subseteq AtAuthor,
         calls' \in Seq(Ongoing(h)),
         log' = log \/ \E r \in Kept(h) : log' = Append(log, r),
         p2p' \in Seq(Kept(h)),
         left' \in [{"mutations", "sends", "losses"} -> Nat]
  PROVE  MutationInv(h)' /\ CopiesAdvance
<1>1. now' \in now .. MaxTime /\ Kept(h)' = Kept(h) /\ Ongoing(h)' = Ongoing(h)
  BY SameTime
<1>2. log' = log \/ \E r \in Kept(h)' : log' = Append(log, r)
  BY <1>1
<1> QED
  BY <1>1, <1>2, CopiesUnchanged

-----------------------------------------------------------------------------
(* The steps of the author.                                                *)

LEMMA TickInv ==
  ASSUME NEW h, MutationInv(h), Tick
  PROVE  MutationInv(h)' /\ CopiesAdvance
<1>1. now' \in now .. MaxTime
  BY BoundsAssumption DEF MutationInv, Tick
<1>2. UNCHANGED <<copy, outbox, calls, log, cursor, p2p, left>>
  BY DEF Tick
<1>3. /\ calls' \in Seq(Ongoing(h)') /\ p2p' \in Seq(Kept(h)')
  BY <1>1, <1>2, UnderWay
<1>4. outbox' \subseteq AtAuthor /\ left' \in [{"mutations", "sends", "losses"} -> Nat]
  BY <1>2 DEF MutationInv
<1> QED
  BY <1>1, <1>2, <1>3, <1>4, CopiesUnchanged

LEMMA ComposeInv ==
  ASSUME NEW h, MutationInv(h), NEW m \in Messages, Compose(m)
  PROVE  MutationInv(h)' /\ CopiesAdvance
<1> DEFINE c == NewCopy(AuthorsClock)
<1>1. AuthorsClock \in Nat \ {0}
  BY ClockIsInt DEF Compose
<1>2. /\ c \in Consistent(h, AuthorsClock)
      /\ c.there /\ c.at = 0 /\ c.created = AuthorsClock
  BY <1>1, FirstCopy
<1>3. copy["author"][m] = NoCopy
  BY DEF MutationInv, Compose, Consistent, Sides
<1>4. Advanced(copy["author"][m], c)
  BY <1>2, <1>3 DEF Advanced, NoCopy
<1>5. /\ copy' = [copy EXCEPT !["author"][m] = c]
      /\ outbox' = outbox \union {m}
      /\ UNCHANGED <<now, calls, log, cursor, p2p, left>>
  BY DEF Compose
<1> HIDE DEF c
<1>6. outbox' \subseteq AtAuthor'
  <2>1. /\ copy'["author"] = [copy["author"] EXCEPT ![m] = c]
        /\ copy["author"] \in [Messages -> Consistent(h, AuthorsClock)]
    BY <1>5 DEF MutationInv, Sides
  <2>2. m \in AtAuthor' /\ AtAuthor \subseteq AtAuthor'
    BY <1>2, <2>1 DEF AtAuthor
  <2> QED
    BY <1>5, <2>2 DEF MutationInv
<1>7. calls' \in Seq(Ongoing(h)) /\ p2p' \in Seq(Kept(h))
  BY <1>5 DEF MutationInv, Ongoing, Kept
<1>8. left' \in [{"mutations", "sends", "losses"} -> Nat]
  BY <1>5 DEF MutationInv
<1>9. c.created \in 1 .. AuthorsClock /\ "author" \in Sides
  BY <1>1, <1>2 DEF Sides
<1> QED
  BY <1>2, <1>4, <1>5, <1>6, <1>7, <1>8, <1>9, CopyChanges

LEMMA SendTextInv ==
  ASSUME NEW h, MutationInv(h), NEW m \in Messages, SendText(m)
  PROVE  MutationInv(h)' /\ CopiesAdvance
<1>1. UNCHANGED <<now, copy, calls, cursor>>
  BY DEF SendText
<1>2. /\ outbox \subseteq AtAuthor /\ m \in AtAuthor
      /\ calls' \in Seq(Ongoing(h)) /\ log \in Seq(Kept(h)) /\ p2p \in Seq(Kept(h))
      /\ left' \in [{"mutations", "sends", "losses"} -> Nat]
  BY <1>1, SameTime, BoundsUsed DEF SendText
<1>3. outbox' \subseteq AtAuthor
  BY <1>2 DEF SendText
<1>4. ASSUME NEW t \in Nat \ {0}
      PROVE  [kind |-> "text", message |-> m, at |-> t] \in Kept(h)
  BY <1>2 DEF Kept, Made, Records, Kinds
<1>5. now \in Nat \ {0} /\ copy["author"][m].created \in Nat \ {0}
  <2>1. now \in 1 .. MaxTime /\ copy["author"][m].created \in 1 .. AuthorsClock
    BY <1>2 DEF MutationInv
  <2> QED
    BY <2>1, ClockIsInt, BoundsAssumption
<1>6. \/ log' = log
      \/ log' = Append(log, [kind |-> "text", message |-> m, at |-> now])
  BY DEF SendText
<1>7. log' = log \/ \E r \in Kept(h) : log' = Append(log, r)
  BY <1>4, <1>5, <1>6
<1>8. p2p' \in Seq(Kept(h))
  <2>1. \/ p2p' = p2p
        \/ p2p' = Append(p2p, [kind |-> "text", message |-> m, at |-> copy["author"][m].created])
    BY DEF SendText
  <2>2. [kind |-> "text", message |-> m, at |-> copy["author"][m].created] \in Kept(h)
    BY <1>4, <1>5
  <2>3. p2p' = p2p \/ \E r \in Kept(h) : p2p' = Append(p2p, r)
    BY <2>1, <2>2
  <2> QED
    BY <1>2, <2>3, LogGrows
<1> QED
  BY <1>1, <1>2, <1>3, <1>7, <1>8, OnlyUnderWay

\* The new mutation is the first of its time: the history is extended there.
LEMMA MutateInv ==
  ASSUME NEW h \in [Nat -> Kinds], MutationInv(h), NEW m \in Messages, NEW kind \in Kinds, Mutate(m, kind)
  PROVE  /\ \E h2 \in [Nat -> Kinds] : MutationInv(h2)'
         /\ CopiesAdvance
<1> DEFINE t == now' + Skew
<1>1. /\ now < MaxTime /\ now' = now + 1
      /\ copy["author"][m].there
      /\ calls' = Append(calls, [kind |-> kind, message |-> m, at |-> t, step |-> "start"])
      /\ UNCHANGED <<copy, outbox, log, cursor, p2p>>
  BY DEF Mutate
<1>2. now \in 1 .. MaxTime /\ now \in Int /\ now' \in now .. MaxTime
  BY <1>1, BoundsAssumption DEF MutationInv
<1>3. AuthorsClock' = t /\ t = AuthorsClock + 1
  BY <1>1, <1>2, DurationsAssumption DEF AuthorsClock
<1> HIDE DEF t
<1>4. AuthorsClock \in Nat /\ t \in Nat \ {0}
  <2>1. copy["author"][m].created \in 1 .. AuthorsClock
    BY <1>1 DEF MutationInv, AtAuthor
  <2> QED
    BY <1>3, <2>1, ClockIsInt
<1>5. PICK h2 \in [Nat -> Kinds] : h2[t] = kind /\ \A u \in 1 .. AuthorsClock : h2[u] = h[u]
  <2> DEFINE f == [h EXCEPT ![t] = kind]
  <2>1. f \in [Nat -> Kinds] /\ f[t] = kind /\ \A u \in 1 .. AuthorsClock : f[u] = h[u]
    BY <1>3, <1>4
  <2> HIDE DEF f
  <2> QED
    BY <2>1
<1>6. /\ calls \in Seq(Ongoing(h2)') /\ log \in Seq(Kept(h2)') /\ p2p \in Seq(Kept(h2)')
      /\ AtAuthor \subseteq AtAuthor'
  BY <1>1, <1>2, <1>5, UnderWay
<1>7. [kind |-> kind, message |-> m, at |-> t, step |-> "start"] \in Ongoing(h2)'
  <2>1. m \in AtAuthor'
    BY <1>1 DEF AtAuthor
  <2> QED
    BY <1>3, <1>4, <1>5, <2>1 DEF Ongoing, InProgressCalls
<1>8. calls' \in Seq(Ongoing(h2)')
  BY <1>1, <1>6, <1>7
<1>9. outbox' \subseteq AtAuthor /\ left' \in [{"mutations", "sends", "losses"} -> Nat]
  BY <1>1, BoundsUsed DEF MutationInv, Mutate
<1>10. MutationInv(h2)' /\ CopiesAdvance
  BY <1>1, <1>2, <1>5, <1>6, <1>8, <1>9, CopiesUnchanged
<1> QED
  BY <1>5, <1>10

\* The innermost call, its record and what is left of the calls.
LEMMA InnermostCall ==
  ASSUME NEW h, MutationInv(h), calls # << >>
  PROVE  /\ Len(calls) \in Nat \ {0} /\ calls \in Seq(Ongoing(h))
         /\ Call \in Ongoing(h)
         /\ Record \in Kept(h) /\ Record.kind \in Kinds /\ Record.message = Call.message
         /\ Call.message \in AtAuthor
         /\ Front(calls) \in Seq(Ongoing(h))
<1>1. calls \in Seq(Ongoing(h))
  BY DEF MutationInv, Ongoing
<1>2. Len(calls) \in Nat \ {0}
  BY <1>1
<1>3. Call \in Ongoing(h)
  BY <1>1, <1>2 DEF Call
<1>4. /\ Record \in Kept(h) /\ Record.kind \in Kinds
      /\ Record.message = Call.message /\ Call.message \in AtAuthor
  <2>1. /\ Call.kind \in Kinds /\ Call.message \in Messages /\ Call.at \in Nat \ {0}
        /\ Call.message \in AtAuthor /\ Call.at <= AuthorsClock /\ Call.kind = h[Call.at]
    BY <1>3 DEF Ongoing, InProgressCalls
  <2> QED
    BY <2>1 DEF Record, Kept, Made, Records
<1>5. Front(calls) \in Seq(Ongoing(h))
  <2>1. SubSeq(calls, 1, Len(calls) - 1) \in Seq(Ongoing(h))
    BY <1>1, <1>2
  <2> QED
    BY <2>1 DEF Front
<1> QED
  BY <1>1, <1>2, <1>3, <1>4, <1>5

LEMMA GoToCall ==
  ASSUME NEW h, MutationInv(h), calls # << >>,
         NEW step \in {"start", "accepted", "failed"}, GoTo(step)
  PROVE  calls' \in Seq(Ongoing(h))
<1>1. Len(calls) \in Nat \ {0} /\ calls \in Seq(Ongoing(h)) /\ calls[Len(calls)] \in Ongoing(h)
  BY InnermostCall DEF Call
<1>2. [calls[Len(calls)] EXCEPT !.step = step] \in Ongoing(h)
  BY <1>1 DEF Ongoing, InProgressCalls
<1>3. calls' = [calls EXCEPT ![Len(calls)] = [calls[Len(calls)] EXCEPT !.step = step]]
  BY DEF GoTo
<1> QED
  BY <1>1, <1>2, <1>3

\* The record of the innermost call is applied at home when the call ends.
LEMMA ApplyAtHomeInv ==
  ASSUME NEW h, MutationInv(h), calls # << >>, ApplyAtHome, calls' = Front(calls),
         UNCHANGED <<now, outbox, log, cursor, left>>, p2p' \in Seq(Kept(h))
  PROVE  MutationInv(h)' /\ CopiesAdvance
<1> DEFINE m == Call.message
           c == Mutated(copy["author"][m], Record)
<1>1. /\ Record \in Made(h, AuthorsClock, AtAuthor) /\ Record.kind \in Kinds
      /\ m \in Messages /\ copy["author"][m].there /\ "author" \in Sides
      /\ calls' \in Seq(Ongoing(h))
  BY InnermostCall DEF Kept, AtAuthor, Sides
<1>2. copy["author"][m] \in Consistent(h, AuthorsClock)
  BY <1>1 DEF MutationInv
<1>3. c \in Consistent(h, AuthorsClock) /\ Advanced(copy["author"][m], c)
  BY <1>1, <1>2, ClockIsInt, MutatedCopy
<1>4. copy' = [copy EXCEPT !["author"][m] = c]
  BY DEF ApplyAtHome
<1>5. outbox' \subseteq AtAuthor'
  <2>1. \A n \in Messages : copy'["author"][n] = IF n = m THEN c ELSE copy["author"][n]
    BY <1>1, <1>4 DEF MutationInv
  <2>2. AtAuthor \subseteq AtAuthor'
    BY <1>1, <1>3, <2>1 DEF AtAuthor, Advanced
  <2> QED
    BY <2>2 DEF MutationInv
<1>6. left' \in [{"mutations", "sends", "losses"} -> Nat]
  BY DEF MutationInv
<1> HIDE DEF c, m
<1> QED
  BY <1>1, <1>3, <1>4, <1>5, <1>6, CopyChanges

LEMMA CallsInv ==
  ASSUME NEW h, MutationInv(h),
         PostMutation \/ LosePost \/ FinishPost \/ SendOverP2P \/ GiveUp \/ AuthorCrashes
  PROVE  MutationInv(h)' /\ CopiesAdvance
<1>1. /\ calls \in Seq(Ongoing(h)) /\ log \in Seq(Kept(h)) /\ p2p \in Seq(Kept(h))
      /\ outbox \subseteq AtAuthor
      /\ left \in [{"mutations", "sends", "losses"} -> Nat]
  BY DEF MutationInv, Kept, Ongoing
<1>2. CASE PostMutation
  <2>1. Record \in Kept(h) /\ calls' \in Seq(Ongoing(h))
    BY <1>2, InnermostCall, GoToCall DEF PostMutation, InStep
  <2> QED
    BY <1>1, <1>2, <2>1, OnlyUnderWay DEF PostMutation
<1>3. CASE LosePost
  <2>1. calls' \in Seq(Ongoing(h))
    BY <1>3, GoToCall DEF LosePost, InStep
  <2>2. left' \in [{"mutations", "sends", "losses"} -> Nat]
    BY <1>3, BoundsUsed DEF LosePost
  <2> QED
    BY <1>1, <1>3, <2>1, <2>2, OnlyUnderWay DEF LosePost
<1>4. CASE FinishPost
  BY <1>1, <1>4, ApplyAtHomeInv DEF FinishPost, InStep
<1>5. CASE SendOverP2P
  <2>1. Record \in Kept(h) /\ p2p' = Append(p2p, Record)
    BY <1>5, InnermostCall DEF SendOverP2P, InStep
  <2>2. p2p' \in Seq(Kept(h))
    BY <1>1, <2>1, LogGrows
  <2> QED
    BY <1>5, <2>2, ApplyAtHomeInv DEF SendOverP2P, InStep
<1>6. CASE GiveUp
  <2>1. calls' \in Seq(Ongoing(h))
    BY <1>6, InnermostCall DEF GiveUp, InStep
  <2> QED
    BY <1>1, <1>6, <2>1, OnlyUnderWay DEF GiveUp
<1>7. CASE AuthorCrashes
  <2>1. calls' \in Seq(Ongoing(h))
    BY <1>7 DEF AuthorCrashes
  <2>2. left' \in [{"mutations", "sends", "losses"} -> Nat]
    BY <1>7, BoundsUsed DEF AuthorCrashes
  <2> QED
    BY <1>1, <1>7, <2>1, <2>2, OnlyUnderWay DEF AuthorCrashes
<1> QED
  BY <1>2, <1>3, <1>4, <1>5, <1>6, <1>7

-----------------------------------------------------------------------------
(* The steps of both devices.                                              *)

LEMMA LoseP2PInv ==
  ASSUME NEW h, MutationInv(h), LoseP2P
  PROVE  MutationInv(h)' /\ CopiesAdvance
<1>1. /\ UNCHANGED <<now, copy, outbox, calls, log, cursor>> /\ p2p' = << >>
      /\ left' \in [{"mutations", "sends", "losses"} -> Nat]
  BY BoundsUsed DEF LoseP2P
<1>2. p2p' \in Seq(Kept(h)) /\ outbox' \subseteq AtAuthor /\ calls' \in Seq(Ongoing(h))
  BY <1>1 DEF MutationInv, Ongoing
<1> QED
  BY <1>1, <1>2, OnlyUnderWay

LEMMA ReceiveOverP2PInv ==
  ASSUME NEW h, MutationInv(h), ReceiveOverP2P
  PROVE  MutationInv(h)' /\ CopiesAdvance
<1> DEFINE r == Head(p2p)
           c == Applied(copy["reader"][r.message], r)
<1>1. p2p \in Seq(Kept(h)) /\ p2p # << >>
  BY DEF MutationInv, Kept, ReceiveOverP2P
<1>2. r \in Made(h, AuthorsClock, AtAuthor) /\ p2p' \in Seq(Kept(h))
  BY <1>1 DEF ReceiveOverP2P, Kept
<1>3. copy' = [copy EXCEPT !["reader"][r.message] = c]
  BY DEF ReceiveOverP2P
<1> HIDE DEF r
<1>4. r.message \in Messages /\ "reader" \in Sides
  BY <1>2 DEF Made, AtAuthor, Sides
<1>5. copy["reader"][r.message] \in Consistent(h, AuthorsClock)
  BY <1>4 DEF MutationInv
<1>6. c \in Consistent(h, AuthorsClock) /\ Advanced(copy["reader"][r.message], c)
  BY <1>2, <1>5, ClockIsInt, AppliedCopy
<1> HIDE DEF c
<1>7. outbox' \subseteq AtAuthor'
  <2>1. copy'["author"] = copy["author"]
    BY <1>3, <1>4 DEF MutationInv, Sides
  <2> QED
    BY <2>1 DEF MutationInv, ReceiveOverP2P, AtAuthor
<1>8. /\ UNCHANGED <<now, log, cursor>>
      /\ calls' \in Seq(Ongoing(h)) /\ left' \in [{"mutations", "sends", "losses"} -> Nat]
  BY DEF MutationInv, ReceiveOverP2P, Ongoing
<1> QED
  BY <1>2, <1>3, <1>4, <1>6, <1>7, <1>8, CopyChanges

\* Where the page of a device begins and ends in the log.
LEMMA PageOfLog ==
  ASSUME NEW S, NEW seq \in Seq(S), NEW n \in 0 .. Len(seq), NEW end \in n .. Len(seq),
         NEW page, page = SubSeq(seq, n + 1, end)
  PROVE  /\ page \in Seq(S) /\ Len(page) = end - n /\ Len(page) \in Nat
         /\ n + Len(page) <= Len(seq)
         /\ \A i \in 1 .. Len(page) : page[i] = seq[n + i]
<1>1. page \in Seq(S) /\ Len(page) = end - n
  OBVIOUS
<1>2. Len(page) \in Nat /\ n + Len(page) <= Len(seq)
  BY <1>1
<1>3. \A i \in 1 .. Len(page) : page[i] = seq[n + i]
  BY <1>1
<1> QED
  BY <1>1, <1>2, <1>3

\* The author has every text of the log, so a page tells him nothing of messages he lacks.
LEMMA SyncConversationInv ==
  ASSUME NEW h, MutationInv(h), NEW d \in Sides, SyncConversation(d)
  PROVE  MutationInv(h)' /\ CopiesAdvance
<1> DEFINE n == cursor[d]
           page == SubSeq(log, n + 1, PageEnd(d))
           after == Tables(copy[d], page)
           failed == \E i \in DOMAIN page : Fails(after[i - 1][page[i].message], page[i])
<1>1. /\ copy' = IF failed THEN copy ELSE [copy EXCEPT ![d] = after[Len(page)]]
      /\ cursor' = [cursor EXCEPT ![d] = CursorAfter(failed, page, d)]
      /\ UNCHANGED <<now, outbox, calls, log, p2p, left>>
  BY DEF SyncConversation
<1>2. /\ log \in Seq(Made(h, AuthorsClock, AtAuthor)) /\ p2p \in Seq(Kept(h))
      /\ calls \in Seq(Ongoing(h)) /\ outbox \subseteq AtAuthor
      /\ left \in [{"mutations", "sends", "losses"} -> Nat]
      /\ copy \in [Sides -> Tabled(h)] /\ cursor \in [Sides -> Nat]
      /\ n \in Nat /\ n <= Len(log) /\ Passed(copy[d], log, n)
  BY DEF MutationInv, Kept, Ongoing, Tabled
<1>3. n \in 0 .. Len(log) /\ PageEnd(d) \in n .. Len(log)
  BY <1>2, PageAssumption DEF PageEnd
<1>4. /\ page \in Seq(Made(h, AuthorsClock, AtAuthor)) /\ Len(page) \in Nat
      /\ n + Len(page) <= Len(log)
      /\ \A i \in 1 .. Len(page) : page[i] = log[n + i]
  <2>1. page = SubSeq(log, n + 1, PageEnd(d))
    OBVIOUS
  <2> DEFINE S == Made(h, AuthorsClock, AtAuthor)
             end == PageEnd(d)
  <2>2. log \in Seq(S) /\ end \in n .. Len(log) /\ page = SubSeq(log, n + 1, end)
    BY <1>2, <1>3, <2>1
  <2> HIDE DEF page, n, S, end
  <2>3. /\ page \in Seq(S) /\ Len(page) \in Nat
        /\ n + Len(page) <= Len(log)
        /\ \A i \in 1 .. Len(page) : page[i] = log[n + i]
    BY <1>3, <2>2, PageOfLog
  <2> QED
    BY <2>3 DEF S
<1>5. AuthorsClock \in Int /\ AtAuthor \subseteq Messages /\ now' \in now .. MaxTime
  <2>1. now' = now
    BY <1>1
  <2>2. now \in 1 .. MaxTime
    BY DEF MutationInv
  <2> QED
    BY <2>1, <2>2, ClockIsInt, BoundsAssumption
<1>6. copy[d] \in [Messages -> Consistent(h, AuthorsClock)]
  BY <1>2 DEF Tabled
<1> HIDE DEF page
<1>7. CASE failed
  <2>1. UNCHANGED copy
    BY <1>1, <1>7
  <2>2. CursorAfter(failed, page, d) = n
    BY <1>7 DEF CursorAfter
  <2>3. UNCHANGED cursor
    BY <1>1, <1>2, <2>2
  <2> QED
    BY <1>1, <1>2, <2>1, <2>3, OnlyUnderWay DEF Kept
<1>8. CASE ~failed
  <2> DEFINE table == after[Len(page)]
  <2>1. /\ table \in [Messages -> Consistent(h, AuthorsClock)]
        /\ \A m \in Messages : Advanced(copy[d][m], table[m])
        /\ \A m \in Messages \ AtAuthor : table[m] = copy[d][m]
    <3>1. Len(page) \in 0 .. Len(page)
      BY <1>4
    <3> QED
      BY <1>4, <1>5, <1>6, <3>1, PageTables
  <2>2. Passed(table, log, n + Len(page))
    <3>1. DOMAIN page = 1 .. Len(page)
      BY <1>4
    <3>2. \A i \in 1 .. Len(page) : ~Fails(Tables(copy[d], page)[i - 1][page[i].message], page[i])
      BY <1>8, <3>1
    <3> QED
      BY <1>2, <1>4, <1>5, <1>6, <3>2, PageIsShown
  <2>3. copy' = [copy EXCEPT ![d] = table]
    BY <1>1, <1>8
  <2>4. CursorAfter(failed, page, d) = n + Len(page)
    BY <1>8 DEF CursorAfter
  <2>5. cursor' = [cursor EXCEPT ![d] = n + Len(page)]
    BY <1>1, <2>4
  <2> HIDE DEF table, after, failed, n
  <2>6. \A e \in Sides : copy'[e] = IF e = d THEN table ELSE copy[e]
    BY <1>2, <2>3
  <2>7. AuthorsClock' = AuthorsClock
    BY <1>1 DEF AuthorsClock
  <2>8. copy' \in [Sides -> Tabled(h)']
    BY <1>2, <2>1, <2>3, <2>7 DEF Tabled
  <2>9. CopiesAdvance
    <3>1. ASSUME NEW e \in Sides, NEW m \in Messages
          PROVE  Advanced(copy[e][m], copy[e][m])
      <4>1. copy[e][m] \in Consistent(h, AuthorsClock)
        BY <1>2 DEF Tabled
      <4> QED
        BY <4>1, TimeOfCopy, AdvancedIsReflexive
    <3> QED
      BY <2>1, <2>6, <3>1 DEF CopiesAdvance
  <2>10. \A m \in Messages \ AtAuthor : copy'["author"][m] = copy["author"][m]
    BY <2>1, <2>6 DEF Sides
  <2>11. AtAuthor' \subseteq AtAuthor
    BY <2>10 DEF AtAuthor
  <2>12. \A m \in Messages : copy["author"][m].there => copy'["author"][m].there
    BY <2>9 DEF CopiesAdvance, Advanced, Sides
  <2>13. /\ AtAuthor \subseteq AtAuthor'
         /\ calls \in Seq(Ongoing(h)') /\ p2p \in Seq(Kept(h)')
    BY <1>5, <2>12, UnderWay
  <2>14. /\ cursor' \in [Sides -> Nat]
         /\ \A e \in Sides : cursor'[e] = IF e = d THEN n + Len(page) ELSE cursor[e]
    BY <1>2, <1>4, <2>5
  <2>15. \A e \in Sides : \/ cursor'[e] = cursor[e]
                          \/ cursor'[e] <= Len(log) /\ Passed(copy'[e], log, cursor'[e])
    BY <1>4, <2>2, <2>6, <2>14
  <2>16. /\ outbox' \subseteq AtAuthor' /\ calls' \in Seq(Ongoing(h)') /\ p2p' \in Seq(Kept(h)')
         /\ left' \in [{"mutations", "sends", "losses"} -> Nat] /\ log' = log
    BY <1>1, <1>2, <2>13
  <2>17. MutationInv(h)'
    BY <1>5, <2>8, <2>9, <2>11, <2>14, <2>15, <2>16, MutationStep
  <2> QED
    BY <2>9, <2>17
<1> QED
  BY <1>7, <1>8

-----------------------------------------------------------------------------
(* The theorems about the mutations.                                       *)

\* Some history explains every record, call and copy.
MutationsExplained == \E h \in [Nat -> Kinds] : MutationInv(h)

LEMMA MutationInitInv == MutationInit => MutationsExplained
<1> SUFFICES ASSUME MutationInit
             PROVE  MutationsExplained
  OBVIOUS
<1> DEFINE h == [t \in Nat |-> "recall"]
<1>1. h \in [Nat -> Kinds]
  BY DEF Kinds
<1> HIDE DEF h
<1>2. NoCopy \in Consistent(h, AuthorsClock) /\ ~NoCopy.there
  BY DEF NoCopy, Consistent, Copies
<1>3. copy = [d \in Sides |-> [m \in Messages |-> NoCopy]]
  BY DEF MutationInit
<1>4. copy \in [Sides -> [Messages -> Consistent(h, AuthorsClock)]] /\ AtAuthor = {}
  BY <1>2, <1>3 DEF AtAuthor, Sides
<1>5. now \in 1 .. MaxTime /\ left \in [{"mutations", "sends", "losses"} -> Nat]
  BY BoundsAssumption DEF MutationInit
<1>6. /\ outbox = {} /\ calls = << >> /\ log = << >> /\ p2p = << >>
      /\ cursor \in [Sides -> Nat] /\ \A d \in Sides : cursor[d] = 0
  BY DEF MutationInit
<1>7. \A d \in Sides : cursor[d] <= Len(log) /\ Passed(copy[d], log, cursor[d])
  BY <1>6 DEF Passed
<1>8. MutationInv(h)
  BY <1>4, <1>5, <1>6, <1>7 DEF MutationInv
<1> QED
  BY <1>1, <1>8 DEF MutationsExplained

LEMMA MutationNextInv ==
  ASSUME NEW h \in [Nat -> Kinds], MutationInv(h), [MutationNext]_mutationVars
  PROVE  MutationsExplained' /\ CopiesAdvance
<1>1. CASE UNCHANGED mutationVars
  <2>1. /\ UNCHANGED <<now, copy, cursor>> /\ log' = log
        /\ outbox' \subseteq AtAuthor /\ calls' \in Seq(Ongoing(h)) /\ p2p' \in Seq(Kept(h))
        /\ left' \in [{"mutations", "sends", "losses"} -> Nat]
    BY <1>1 DEF mutationVars, MutationInv, Ongoing, Kept
  <2> QED
    BY <2>1, OnlyUnderWay DEF MutationsExplained
<1>2. ASSUME NEW m \in Messages, Compose(m) \/ SendText(m)
      PROVE  MutationsExplained' /\ CopiesAdvance
  BY <1>2, ComposeInv, SendTextInv DEF MutationsExplained
<1>3. ASSUME NEW m \in Messages, Mutate(m, "recall") \/ Mutate(m, "edit")
      PROVE  MutationsExplained' /\ CopiesAdvance
  BY <1>3, MutateInv DEF MutationsExplained, Kinds
<1>4. ASSUME NEW d \in Sides, SyncConversation(d)
      PROVE  MutationsExplained' /\ CopiesAdvance
  BY <1>4, SyncConversationInv DEF MutationsExplained
<1>5. CASE PostMutation \/ LosePost \/ FinishPost \/ SendOverP2P \/ GiveUp \/ AuthorCrashes
  BY <1>5, CallsInv DEF MutationsExplained
<1>6. CASE Tick \/ ReceiveOverP2P \/ LoseP2P
  BY <1>6, TickInv, ReceiveOverP2PInv, LoseP2PInv DEF MutationsExplained
<1> QED
  BY <1>1, <1>2, <1>3, <1>4, <1>5, <1>6 DEF MutationNext

LEMMA MutationStepAdvances ==
  MutationsExplained /\ [MutationNext]_mutationVars => MutationsExplained' /\ CopiesAdvance
BY MutationNextInv DEF MutationsExplained

LEMMA MutationsAreExplained == MutationSpec => []MutationsExplained
<1>1. MutationsExplained /\ [MutationNext]_mutationVars => MutationsExplained'
  BY MutationStepAdvances
<1> QED
  BY <1>1, MutationInitInv, PTL DEF MutationSpec

\* The variables have their types, no cursor passes the end of the log, and what is not
\* there is not changed.
THEOREM MutationTypeCorrect == MutationSpec => []MutationTypeOK
<1>1. MutationsExplained => MutationTypeOK
  <2> SUFFICES ASSUME NEW h \in [Nat -> Kinds], MutationInv(h)
               PROVE  MutationTypeOK
    BY DEF MutationsExplained
  <2>1. Consistent(h, AuthorsClock) \subseteq Copies
    BY DEF Consistent
  <2>2. copy \in [Sides -> [Messages -> Consistent(h, AuthorsClock)]]
    BY DEF MutationInv
  <2>3. copy \in [Sides -> [Messages -> Copies]]
    BY <2>1, <2>2
  <2>4. ASSUME NEW d \in Sides, NEW m \in Messages
        PROVE  copy[d][m].there \/ copy[d][m] = NoCopy
    BY <2>2 DEF Consistent
  <2>5. ASSUME NEW i \in DOMAIN calls
        PROVE  /\ calls[i].step \in {"start", "accepted", "failed"}
               /\ calls[i].kind \in Kinds /\ copy["author"][calls[i].message].there
    <3>1. calls[i] \in InProgressCalls(h, AuthorsClock, AtAuthor)
      BY DEF MutationInv
    <3> QED
      BY <3>1 DEF InProgressCalls, AtAuthor
  <2>6. Made(h, AuthorsClock, AtAuthor) \subseteq Records
    BY DEF Made
  <2>7. log \in Seq(Records) /\ p2p \in Seq(Records)
    BY <2>6, SequencesGrow DEF MutationInv
  <2>8. \A d \in Sides : cursor[d] \in 0 .. Len(log)
    BY <2>7 DEF MutationInv
  <2>9. \A kind \in DOMAIN left : left[kind] >= 0
    BY DEF MutationInv
  <2>10. now \in 1 .. MaxTime /\ outbox \subseteq {m \in Messages : copy["author"][m].there}
    BY DEF MutationInv, AtAuthor
  <2> QED
    BY <2>3, <2>4, <2>5, <2>7, <2>8, <2>9, <2>10 DEF MutationTypeOK
<1> QED
  BY <1>1, MutationsAreExplained, PTL

\* Whatever arrived before and on which route, two copies of the same mutation are the same.
THEOREM SameMutationIsSameText == MutationSpec => []SameMutationSameText
<1>1. MutationsExplained => SameMutationSameText
  <2> SUFFICES ASSUME NEW h \in [Nat -> Kinds], MutationInv(h), NEW m \in Messages,
                      copy["author"][m].at > 0, copy["author"][m].at = copy["reader"][m].at
               PROVE  /\ copy["author"][m].recalled = copy["reader"][m].recalled
                      /\ copy["author"][m].recalled \/ copy["author"][m].body = copy["reader"][m].body
    BY DEF MutationsExplained, SameMutationSameText
  <2> DEFINE a == copy["author"][m]
             r == copy["reader"][m]
  <2>1. a \in Consistent(h, AuthorsClock) /\ r \in Consistent(h, AuthorsClock)
    BY DEF MutationInv, Sides
  <2>2. a.at > 0 /\ a.at = r.at /\ a.at \in Nat
    BY <2>1, TimeOfCopy
  <2>3. a.recalled \in BOOLEAN /\ r.recalled \in BOOLEAN
    BY <2>1 DEF Consistent, Copies
  <2>4. h[a.at] = "recall" \/ h[a.at] = "edit"
    BY <2>2 DEF Kinds
  <2> HIDE DEF a, r
  <2>5. \/ a.recalled /\ r.recalled
        \/ ~a.recalled /\ ~r.recalled /\ a.body = r.body
    BY <2>1, <2>2, <2>4 DEF Consistent
  <2>6. a.recalled = r.recalled /\ (a.recalled \/ a.body = r.body)
    BY <2>3, <2>5
  <2> QED
    BY <2>6 DEF a, r
<1> QED
  BY <1>1, MutationsAreExplained, PTL

\* No page, rollback, retry or crash lets a cursor pass a mutation that the copy lacks.
THEOREM PassedMutationsStayShown == MutationSpec => []PassedMutationsAreShown
<1>1. MutationsExplained => PassedMutationsAreShown
  BY DEF MutationsExplained, MutationInv, Passed, PassedMutationsAreShown
<1> QED
  BY <1>1, MutationsAreExplained, PTL

\* No step of a device, record or route takes a recall back.
THEOREM RecallsAreFinal == MutationSpec => RecallIsFinal
<1>1. MutationsExplained /\ [MutationNext]_mutationVars =>
        [\A d \in Sides, m \in Messages : copy[d][m].recalled => copy'[d][m].recalled]_mutationVars
  BY MutationStepAdvances DEF CopiesAdvance, Advanced
<1> QED
  BY <1>1, MutationsAreExplained, PTL DEF MutationSpec, RecallIsFinal
=============================================================================
