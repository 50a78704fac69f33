------------------------------ MODULE CallSession ------------------------------
(***************************************************************************)
(* Voice calls with screen sharing: the CallSession of each device, the    *)
(* handlers of LeyoApplication around it and the P2P connections between   *)
(* the devices.                                                            *)
(*                                                                         *)
(* A connection is FIFO; each end learns of its loss by itself, unless a   *)
(* new connection replaces it first.  A hello precedes every other         *)
(* message, so a device that receives something has registered the         *)
(* sender.  A dialog runs a nested event loop: the user of a device with   *)
(* an open dialog does nothing else, messages and timers go on.            *)
(* CallSession sends Busy only for an offer with the id of its own call,   *)
(* which no other device uses: no step sends or receives it.               *)
(***************************************************************************)
EXTENDS Naturals, Sequences, FiniteSets

CONSTANTS
  Devices,
  Calls,        \* the ids of QUuid::createUuid
  None

CONSTANTS       \* bounds for model checking
  MaxLosses,    \* lost or doubled connections and restarts of a device
  MaxToggles    \* uses of the share and control buttons

ASSUME NoneIsNothing == None \notin Devices \union Calls

VARIABLES
  session,   \* CallSession: m_state, m_callId, m_peerId, m_screenSharing,
             \* m_remoteControlActive
  media,     \* screenCapture, screenViewer and remoteInput of each device
  chooser,   \* the device asks its user which screen to share
  requests,  \* open dialogs that ask the user for control of the desktop
  linked,    \* connectionsByTargetId of each device
  net,       \* net[d][p]: the messages on their way to d from p
  started, answered, \* history: the calls ever begun, and those ever answered
  replaced,  \* history: the calls in which an end's connection was replaced
  budget     \* what is left of the bounds

dialogs == <<chooser, requests>>
wire == <<linked, net>>
history == <<started, answered, replaced>>
vars == <<session, media, dialogs, wire, history, budget>>

Ringing == {"OutgoingRing", "IncomingRing"}
Talking == {"Connecting", "Active"}

\* Without a call: after cleanup, and what the application has beside a session that is Idle.
NoSession == [state |-> "Idle", call |-> None, peer |-> None, sharing |-> FALSE, control |-> FALSE]
NoMedia == [capture |-> FALSE, viewer |-> FALSE, input |-> FALSE]

Init ==
  /\ session = [d \in Devices |-> NoSession]
  /\ media = [d \in Devices |-> NoMedia]
  /\ chooser = [d \in Devices |-> FALSE]
  /\ requests = [d \in Devices |-> 0]
  /\ linked = [d \in Devices |-> {}]
  /\ net = [d \in Devices |-> [p \in Devices |-> << >>]]
  /\ started = {} /\ answered = {} /\ replaced = {}
  /\ budget = [losses |-> MaxLosses, toggles |-> MaxToggles]

Spend(kind) == budget[kind] > 0 /\ budget' = [budget EXCEPT ![kind] = @ - 1]

\* A modal dialog is open on the device.
Asked(d) == chooser[d] \/ requests[d] > 0

-----------------------------------------------------------------------------
(* Sending and ending.  An operator whose comment begins with "Faulty" is  *)
(* a version of the next definition with a plausible mistake.              *)

\* The outgoingSignal handler: a message without a connection to the peer is dropped.
Sent(queues, d, types) ==
  LET p == session[d].peer
  IN  IF p \in linked[d] /\ d \in linked[p]
      THEN [queues EXCEPT ![p][d] = @ \o [i \in DOMAIN types |->
             [type |-> types[i], call |-> session[d].call]]]
      ELSE queues
Sends(d, types) == net' = Sent(net, d, types)

SetState(d, s) == session' = [session EXCEPT ![d].state = s]

\* Faulty: cleanup forgets m_screenSharing.
EndSessionSharing(d) ==
  /\ session' = [session EXCEPT ![d] = [NoSession EXCEPT !.sharing = session[d].sharing]]
  /\ media' = [media EXCEPT ![d] = NoMedia]

\* setState(Ended), cleanup, setState(Idle), and the handler of stateChanged.
EndSession(d) ==
  /\ session' = [session EXCEPT ![d] = NoSession]
  /\ media' = [media EXCEPT ![d] = NoMedia]

\* The handler of stateChanged(Connecting); without a UDP port it says nothing.
ReadyTypes == {<<"MediaReady">>, << >>}

-----------------------------------------------------------------------------
(* The user and the ring timer.                                            *)

StartCall(d) ==
  /\ session[d].state = "Idle" /\ ~Asked(d)
  /\ \E c \in Calls \ started, p \in linked[d] :
       /\ session' = [session EXCEPT ![d] = [NoSession EXCEPT
            !.state = "OutgoingRing", !.call = c, !.peer = p]]
       /\ net' = IF d \in linked[p]
                 THEN [net EXCEPT ![p][d] = Append(@, [type |-> "Offer", call |-> c])]
                 ELSE net
       /\ started' = started \union {c}
  /\ UNCHANGED <<media, dialogs, linked, answered, replaced, budget>>

AnswerCall(d) ==
  /\ session[d].state = "IncomingRing" /\ ~Asked(d)
  /\ SetState(d, "Connecting")
  /\ \E ready \in ReadyTypes : Sends(d, <<"Answer">> \o ready)
  /\ answered' = answered \union {session[d].call}
  /\ UNCHANGED <<media, dialogs, linked, started, replaced, budget>>

\* The timer rejects or cancels, as the user may do before.
RejectCall(d) ==
  /\ session[d].state = "IncomingRing"
  /\ Sends(d, <<"Reject">>) /\ EndSession(d)
  /\ UNCHANGED <<dialogs, linked, history, budget>>

CancelCall(d) ==
  /\ session[d].state = "OutgoingRing"
  /\ Sends(d, <<"Cancel">>) /\ EndSession(d)
  /\ UNCHANGED <<dialogs, linked, history, budget>>

\* Faulty: startCall does not start the timer.
RingTimeoutIncoming(d) == RejectCall(d)

RingTimeout(d) == RejectCall(d) \/ CancelCall(d)

\* The types of the messages of hangup: nothing if there is nothing to end.
Hangup(d) ==
  /\ session[d].state \in Talking /\ ~Asked(d)
  /\ Sends(d, <<"Hangup">>) /\ EndSession(d)
  /\ UNCHANGED <<dialogs, linked, history, budget>>

-----------------------------------------------------------------------------
(* Sharing the screen and controlling the peer's.                          *)

StopShare(d) ==
  /\ session[d].sharing
  /\ session' = [session EXCEPT ![d].sharing = FALSE, ![d].control = FALSE]
  /\ media' = [media EXCEPT ![d] = NoMedia]
  /\ Sends(d, <<"ScreenShareStop">>)
  /\ UNCHANGED chooser

ToggleShare(d) ==
  /\ session[d].state = "Active" /\ ~Asked(d) /\ Spend("toggles")
  /\ \/ StopShare(d)
     \/ /\ ~session[d].sharing
        /\ chooser' = [chooser EXCEPT ![d] = TRUE]
        /\ UNCHANGED <<session, media, net>>
  /\ UNCHANGED <<requests, linked, history>>

\* The rest of the handler, after the dialog if there are several screens: by then the
\* session may be another one or none.
ChooseScreen(d) ==
  /\ chooser[d] /\ chooser' = [chooser EXCEPT ![d] = FALSE]
  /\ \/ UNCHANGED <<session, media, net>>          \* the user gives up
     \/ /\ media' = [media EXCEPT ![d].capture = TRUE]
        /\ \/ UNCHANGED <<session, net>>           \* no TCP port
           \/ /\ session' = [session EXCEPT ![d].sharing = @ \/ session[d].state = "Active"]
              /\ IF session[d].peer = None THEN UNCHANGED net
                 ELSE Sends(d, <<"ScreenShareStart">>)
  /\ UNCHANGED <<requests, linked, history, budget>>

\* revokeRemoteControl by either side, or a request to the side that shares.
ToggleControl(d) ==
  /\ session[d].state = "Active" /\ ~Asked(d) /\ Spend("toggles")
  /\ \/ /\ session[d].control
        /\ session' = [session EXCEPT ![d].control = FALSE]
        /\ media' = [media EXCEPT ![d].input = @ /\ ~session[d].sharing]
        /\ Sends(d, <<"RemoteControlRevoke">>)
     \/ /\ ~session[d].control /\ media[d].viewer
        /\ Sends(d, <<"RemoteControlRequest">>)
        /\ UNCHANGED <<session, media>>
  /\ UNCHANGED <<dialogs, linked, history>>

\* The end of the dialog: grantRemoteControl looks at the session of now, and
\* remoteInput is enabled after it in any case.
AnswerRequest(d) ==
  /\ requests[d] > 0 /\ requests' = [requests EXCEPT ![d] = @ - 1]
  /\ \/ UNCHANGED <<session, media, net>>
     \/ /\ media' = [media EXCEPT ![d].input = TRUE]
        /\ \/ /\ session[d].state = "Active" /\ session[d].sharing
              /\ session' = [session EXCEPT ![d].control = TRUE]
              /\ Sends(d, <<"RemoteControlGrant">>)
           \/ /\ session[d].state # "Active" \/ ~session[d].sharing
              /\ UNCHANGED <<session, net>>
  /\ UNCHANGED <<chooser, linked, history, budget>>

-----------------------------------------------------------------------------
(* Messages.                                                               *)

\* Faulty: a stop of the sharing leaves the remote control as it is.
ControlAfterGrants(type, control) ==
  CASE type = "RemoteControlGrant" -> TRUE
    [] type = "RemoteControlRevoke" -> FALSE
    [] type = "ScreenShareStop" -> control

ControlAfter(type, control) == type = "RemoteControlGrant"

InputAfter(d, type) ==
  CASE type = "ScreenShareStop" -> FALSE
    [] type # "ScreenShareStop" /\ session[d].sharing -> type = "RemoteControlGrant"
    [] type # "ScreenShareStop" /\ ~session[d].sharing -> media[d].input

\* Faulty: the id of the call is not compared.
AnyCall(d, m) == TRUE

Concerns(d, m) == session[d].call \in {None, m.call}

EndingSteps == {<<"Reject", "OutgoingRing">>, <<"Cancel", "IncomingRing">>}
               \union {"Hangup"} \X Talking
SharingSteps == {"ScreenShareStop", "RemoteControlGrant", "RemoteControlRevoke"} \X {"Active"}
OtherSteps == {<<"Offer", "Idle">>, <<"Answer", "OutgoingRing">>, <<"MediaReady", "Connecting">>,
               <<"RemoteControlRequest", "Active">>}

\* handleCallControl; what it does to the session, the media and the dialogs, and the
\* messages it sends.
HandleCallControl(d, p, m, queues) ==
  LET step == <<m.type, session[d].state>>
      expected == Concerns(d, m) /\ step \in EndingSteps \union SharingSteps \union OtherSteps
  IN  \/ /\ ~expected
         /\ net' = queues
         /\ UNCHANGED <<session, media, requests>>
      \/ /\ expected /\ step \in EndingSteps
         /\ EndSession(d)
         /\ net' = queues /\ UNCHANGED requests
      \/ /\ expected /\ step \in SharingSteps
         /\ session' = [session EXCEPT ![d].control = ControlAfter(m.type, @)]
         /\ media' = [media EXCEPT ![d] =
              [capture |-> @.capture /\ m.type # "ScreenShareStop",
               viewer |-> @.viewer /\ m.type # "ScreenShareStop",
               input |-> InputAfter(d, m.type)]]
         /\ net' = queues /\ UNCHANGED requests
      \/ /\ expected /\ m.type = "Offer"            \* handleIncomingOffer
         /\ session' = [session EXCEPT ![d] = [NoSession EXCEPT
              !.state = "IncomingRing", !.call = m.call, !.peer = p]]
         /\ net' = queues /\ UNCHANGED <<media, requests>>
      \/ /\ expected /\ m.type = "Answer"
         /\ SetState(d, "Connecting")
         /\ \E ready \in ReadyTypes : net' = Sent(queues, d, ready)
         /\ UNCHANGED <<media, requests>>
      \/ /\ expected /\ m.type = "MediaReady"
         /\ SetState(d, "Active")
         /\ net' = queues /\ UNCHANGED <<media, requests>>
      \/ /\ expected /\ m.type = "RemoteControlRequest"
         /\ requests' = [requests EXCEPT ![d] = @ + 1]
         /\ net' = queues /\ UNCHANGED <<session, media>>

\* The payloadReceived handler opens a viewer before handleCallControl compares anything.
Receive(d, p) ==
  /\ net[d][p] # << >>
  /\ LET m == Head(net[d][p])
         queues == [net EXCEPT ![d][p] = Tail(@)]
     IN  \/ /\ m.type = "ScreenShareStart"
            /\ media' = [media EXCEPT ![d].viewer = TRUE]
            /\ net' = queues /\ UNCHANGED <<session, requests>>
         \/ /\ m.type # "ScreenShareStart"
            /\ HandleCallControl(d, p, m, queues)
  /\ UNCHANGED <<chooser, linked, history, budget>>

-----------------------------------------------------------------------------
(* Connections and restarts.                                               *)

\* The call in which d talks over its present connection to p.
CallOver(d, p) ==
  {c \in {session[d].call} :
     p \in linked[d] /\ session[d].peer = p /\ session[d].state \in Talking}

\* The hellos of a new connection.  The arbitration silences an end's earlier one: nothing
\* that was under way on it is handled, nor its loss, and the call goes on.
Connect(d, p) ==
  /\ d # p
  /\ IF p \in linked[d] /\ d \in linked[p] THEN Spend("losses") ELSE UNCHANGED budget
  /\ linked' = [linked EXCEPT ![d] = @ \union {p}, ![p] = @ \union {d}]
  /\ \E silenced \in SUBSET {<<d, p>>, <<p, d>>} :
       /\ d \notin linked[p] => <<d, p>> \in silenced     \* what came from the end that is gone
       /\ p \notin linked[d] => <<p, d>> \in silenced
       /\ net' = [e \in Devices |-> [o \in Devices |->
            IF <<e, o>> \in silenced THEN << >> ELSE net[e][o]]]
  /\ replaced' = replaced \union CallOver(d, p) \union CallOver(p, d)
  /\ UNCHANGED <<session, media, dialogs, started, answered>>

\* Faulty: the session is not told.
KeepCall(d, p) == UNCHANGED <<session, media>>

\* hangup, which does nothing to a call that rings; its message has no connection.
LoseCall(d, p) ==
  IF session[d].peer = p /\ session[d].state \in Talking
  THEN EndSession(d) ELSE UNCHANGED <<session, media>>

\* The disconnected handler of an end; the other one learns of it later.
Disconnect(d, p) ==
  /\ p \in linked[d]
  /\ linked' = [linked EXCEPT ![d] = @ \ {p}]
  /\ net' = [net EXCEPT ![d][p] = << >>]
  /\ LoseCall(d, p)
  /\ UNCHANGED <<dialogs, history>>

LoseConnection(d, p) == d \in linked[p] /\ Spend("losses") /\ Disconnect(d, p)
NoticeLoss(d, p) == d \notin linked[p] /\ Disconnect(d, p) /\ UNCHANGED budget

Restart(d) ==
  /\ Spend("losses")
  /\ EndSession(d)
  /\ chooser' = [chooser EXCEPT ![d] = FALSE] /\ requests' = [requests EXCEPT ![d] = 0]
  /\ linked' = [linked EXCEPT ![d] = {}]
  /\ net' = [net EXCEPT ![d] = [p \in Devices |-> << >>]]
  /\ UNCHANGED history

-----------------------------------------------------------------------------
Next ==
  \/ \E d \in Devices :
       \/ StartCall(d) \/ AnswerCall(d) \/ RingTimeout(d) \/ Hangup(d)
       \/ ToggleShare(d) \/ ChooseScreen(d) \/ ToggleControl(d) \/ AnswerRequest(d)
       \/ Restart(d)
  \/ \E d, p \in Devices :
       Receive(d, p) \/ Connect(d, p) \/ LoseConnection(d, p) \/ NoticeLoss(d, p)

Spec == Init /\ [][Next]_vars

\* Event loops deliver, single-shot timers fire and the keep-alive of the sockets finds a lost
\* connection; users and connections owe nothing.
FairSpec ==
  /\ Spec
  /\ \A d \in Devices : WF_vars(RingTimeout(d))
  /\ \A d, p \in Devices : WF_vars(Receive(d, p)) /\ WF_vars(NoticeLoss(d, p))

-----------------------------------------------------------------------------
MessageTypes == {"Offer", "Answer", "Reject", "Cancel", "Hangup", "MediaReady",
                 "ScreenShareStart", "RemoteControlRequest"}
                \union {step[1] : step \in SharingSteps}

\* The types of the variables; only an active call shares a screen or controls one.
TypeOK ==
  /\ \A d \in Devices :
       /\ session[d].state \in {"Idle"} \union Ringing \union Talking
       /\ \/ session[d].call \in Calls /\ session[d].peer \in Devices \ {d}
          \/ session[d] = NoSession
       /\ session[d].sharing \/ session[d].control => session[d].state = "Active"
       /\ media[d] \in [capture : BOOLEAN, viewer : BOOLEAN, input : BOOLEAN]
       /\ linked[d] \subseteq Devices \ {d}
       /\ \A p \in Devices : net[d][p] \in Seq([type : MessageTypes, call : Calls])
  /\ chooser \in [Devices -> BOOLEAN] /\ requests \in [Devices -> Nat]
  /\ answered \union replaced \subseteq started /\ started \subseteq Calls

-----------------------------------------------------------------------------
(* Properties.                                                             *)

InCall(d, p, c) == session[d].call = c /\ session[d].peer = p

\* Nobody talks in a call that its callee has not answered: answers, readiness and
\* cancellations of an earlier call between the same devices may still be on their way when
\* the next one rings.
ActiveIsAnswered ==
  \A d \in Devices : session[d].state \in Talking => session[d].call \in answered

\* A call does not ring for ever: the offer to a busy device is ignored, two devices that
\* call each other ignore each other's, and a reject or an answer may be lost.
RingingEnds ==
  \A d \in Devices, c \in Calls :
    session[d].state \in Ringing /\ session[d].call = c
      ~> ~(session[d].state \in Ringing /\ session[d].call = c)

\* Nobody stays in an active call alone: whoever hangs up, restarts or loses the connection,
\* the other device leaves the call too, unless a new connection between the two replaces the
\* one of the call, which silences the handler of its loss.
ActiveCallEndsTogether ==
  \A d, p \in Devices, c \in Calls :
    session[d].state = "Active" /\ InCall(d, p, c) /\ ~InCall(p, d, c)
      ~> ~InCall(d, p, c) \/ c \in replaced

Controls(d) == session[d].control /\ ~session[d].sharing

\* The device that controls the peer's desktop does not go on when the peer has stopped
\* sharing it: grants, revocations and stops cross each other on the way.  A replaced
\* connection may lose the stop.
ControlEndsWithSharing ==
  \A d, p \in Devices :
    Controls(d) /\ session[d].peer = p /\ ~session[p].sharing
      ~> \/ ~(Controls(d) /\ session[d].peer = p /\ ~session[p].sharing)
         \/ session[d].call \in replaced
=============================================================================
