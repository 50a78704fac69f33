---------------------------- MODULE DeliveryLedger ----------------------------
(***************************************************************************)
(* What the message service promises about deliveries, without tables,     *)
(* retries or sequence numbers: each recipient of each message moves       *)
(* forward through pending, delivered and read; every transition is        *)
(* entered in the journal once, and nothing enters it but transitions and  *)
(* the coming and going of clients.                                        *)
(* MessageServiceDatabase implements this specification.                   *)
(***************************************************************************)
EXTENDS Sequences

CONSTANTS Clients, Messages, Sender

VARIABLES
  status,   \* where each recipient of each message stands
  journal   \* the transitions, oldest first

ledgerVars == <<status, journal>>

Init ==
  /\ status = [m \in Messages |-> [r \in Clients |-> "none"]]
  /\ journal = << >>

Enter(type, m, u) ==
  journal' = Append(journal, [type |-> type, message |-> m, client |-> u])

\* Clients that were not addressed before become pending, in one entry that
\* names the sender.
Address(m, recipients) ==
  /\ recipients # {}
  /\ Sender[m] \notin recipients
  /\ \A r \in recipients : status[m][r] = "none"
  /\ status' = [status EXCEPT ![m] =
       [r \in Clients |-> IF r \in recipients THEN "pending" ELSE @[r]]]
  /\ Enter("message.created", m, Sender[m])

Deliver(m, r) ==
  /\ status[m][r] = "pending"
  /\ status' = [status EXCEPT ![m][r] = "delivered"]
  /\ Enter("message.delivered", m, r)

Read(m, r) ==
  /\ status[m][r] \in {"pending", "delivered"}
  /\ status' = [status EXCEPT ![m][r] = "read"]
  /\ Enter("message.read", m, r)

ComeOrGo(type, u) ==
  /\ journal' = Append(journal, [type |-> type, client |-> u])
  /\ UNCHANGED status

Next ==
  \/ \E m \in Messages :
       \/ \E recipients \in SUBSET Clients : Address(m, recipients)
       \/ \E r \in Clients : Deliver(m, r) \/ Read(m, r)
  \/ \E u \in Clients, type \in {"session.online", "session.offline"} : ComeOrGo(type, u)

Spec == Init /\ [][Next]_ledgerVars
=============================================================================
