----------------------------- MODULE GroupService -----------------------------
(***************************************************************************)
(* The copies of one group on the devices of its members: GroupService and *)
(* its repository, the group dialogs of LeyoApplication, the GroupMeta     *)
(* messages that carry a whole copy, and the hello that sends it again.    *)
(*                                                                         *)
(* A connection is FIFO and its two ends see it come and go together; one  *)
(* that replaces another is a loss and a new connection.  The row of the   *)
(* group and its members are two transactions, and an operation may end    *)
(* between them.  The clocks agree, and no two changes of the group are    *)
(* made in the same millisecond.                                           *)
(***************************************************************************)
EXTENDS Naturals, Sequences, FiniteSets

CONSTANTS
  Devices, Owner,
  AdminLimit     \* at most this many admins: 3 in setAdmin

CONSTANTS        \* bounds for model checking
  Met,           \* the pairs that are connected before the group is created
  MaxChanges,    \* changes of the group after its creation
  MaxDisturbances \* dialogs left open, losses of a connection and half-done writes

ASSUME OwnerIsADevice == Owner \in Devices
ASSUME BoundsAssumption ==
  /\ Met \subseteq {{d, p} : d, p \in Devices}
  /\ MaxChanges \in Nat /\ MaxDisturbances \in Nat

VARIABLES
  group,    \* tables groups and group_members of each device
  settings, \* the copy of the group held by an open settings dialog
  announcing, \* the devices with an open announcement dialog
  linked,   \* the connected pairs
  net,      \* net[d][p]: the messages on their way to d from p
  greeted,  \* greeted[d][p]: what d did with the last hello of p
  clock,    \* the instant of the last change
  stale,    \* history: a name was saved over a newer copy of the group
  torn,     \* history: the instants of the copies whose members were not written somewhere
  revived,  \* history: the instants of the announcements saved in a disbanded group
  budget    \* what is left of the bounds

dialogs == <<settings, announcing>>
wire == <<linked, net, greeted>>
history == <<stale, torn, revived>>
vars == <<group, dialogs, wire, clock, history, budget>>

NoRow == [role |-> "none", active |-> FALSE]
\* version 0: the device has no row of the group.
NoGroup == [version |-> 0, at |-> 0, text |-> 0, active |-> FALSE,
            rows |-> [p \in Devices |-> NoRow]]

Role(g, p) == g.rows[p].role
Members(g) == {p \in Devices : g.rows[p].active}
Admins(g) == {p \in Members(g) : Role(g, p) = "admin"}
\* The rows without those of former members, which nobody is shown or sent.
ActiveRows(g) == [p \in Devices |-> IF g.rows[p].active THEN g.rows[p] ELSE NoRow]
\* The group is in the device's list of conversations.
Shown(d) == group[d].active /\ d \in Members(group[d])

Init ==
  /\ group = [d \in Devices |-> NoGroup]
  /\ settings = [d \in Devices |-> NoGroup] /\ announcing = {}
  /\ linked = Met
  /\ net = [d \in Devices |-> [p \in Devices |-> << >>]]
  /\ greeted = [d \in Devices |-> [p \in Devices |->
                  IF {d, p} \in Met THEN "answered" ELSE "never"]]
  /\ clock = 0 /\ stale = FALSE /\ torn = {} /\ revived = {}
  /\ budget = [changes |-> MaxChanges, disturbances |-> MaxDisturbances]

Spend(changes, disturbances) ==
  /\ budget.changes >= changes /\ budget.disturbances >= disturbances
  /\ budget' = [changes |-> budget.changes - changes,
                disturbances |-> budget.disturbances - disturbances]

-----------------------------------------------------------------------------
(* Messages.  An operator whose comment begins with "Faulty" is a version  *)
(* of the next definition with a plausible mistake.                        *)

\* buildGroupMetaFanOut: the members of the copy are the active ones.
Meta(event, g) == [event |-> event, group |-> [g EXCEPT !.rows = ActiveRows(g)]]
\* A device that dials has registered the connection before it is greeted there.
Hellos == {"hello", "hello_to_dialer"}
Hello(event) == [event |-> event, group |-> NoGroup]

\* broadcastGroupMeta: those without a connection miss it.
Broadcast(d, event, g, recipients) ==
  net' = [p \in Devices |-> [net[p] EXCEPT ![d] =
            IF p \in recipients \ {d} /\ {d, p} \in linked
            THEN Append(@, Meta(event, g)) ELSE @]]

\* upsertGroup is done; replaceMembers fails or the program ends before it.
WriteHalf(d, g) ==
  /\ group' = [group EXCEPT ![d] = [g EXCEPT !.rows = group[d].rows]]
  /\ torn' = IF ActiveRows(g) = ActiveRows(group[d]) THEN torn ELSE torn \union {g.at}

\* A change of the group, at an instant of its own.  Done by half, it is not sent; a text is
\* in the row of the group alone.
Change(d, event, changed, recipients) ==
  /\ clock' = clock + 1
  /\ LET g == [changed EXCEPT !.at = clock', !.text = IF event = "text" THEN clock' ELSE @]
     IN  \/ /\ group' = [group EXCEPT ![d] = g] /\ UNCHANGED torn
            /\ Broadcast(d, event, g, recipients)
            /\ Spend(1, 0)
         \/ /\ event # "text" /\ WriteHalf(d, g) /\ UNCHANGED net
            /\ Spend(1, 1)
  /\ UNCHANGED <<linked, greeted>>

NextVersion(g) == [g EXCEPT !.version = @ + 1]

-----------------------------------------------------------------------------
(* The operations.                                                         *)

\* createGroup and buildGroupCreateMetaFanOut.
CreateGroup ==
  /\ group[Owner] = NoGroup
  /\ clock' = clock + 1
  /\ \E invited \in SUBSET (Devices \ {Owner}) :
       LET g == [version |-> 1, at |-> clock', text |-> clock', active |-> TRUE,
                 rows |-> [p \in Devices |->
                   [role |-> CASE p = Owner -> "owner" [] p \in invited -> "member"
                               [] OTHER -> "none",
                    active |-> p \in invited \union {Owner}]]]
       IN  \/ /\ group' = [group EXCEPT ![Owner] = g] /\ UNCHANGED <<torn, budget>>
              /\ Broadcast(Owner, "create", g, invited)
           \/ WriteHalf(Owner, g) /\ Spend(0, 1) /\ UNCHANGED net
  /\ UNCHANGED <<dialogs, linked, greeted, stale, revived>>

\* Faulty: a new row gets no role.
JoinedAsIs(row) == [row EXCEPT !.active = TRUE]

\* A row that is there keeps its role.
Joined(row) ==
  IF row = NoRow THEN [role |-> "member", active |-> TRUE] ELSE [row EXCEPT !.active = TRUE]

AddMembers(d) ==
  /\ Shown(d)
  /\ \E added \in (SUBSET Devices) \ {{}} :
       LET g == NextVersion([group[d] EXCEPT !.rows =
                  [p \in Devices |-> IF p \in added THEN Joined(@[p]) ELSE @[p]]])
       IN  /\ ~(added \subseteq Members(group[d]))
           /\ Change(d, "members_updated", g, Members(g))
  /\ UNCHANGED <<dialogs, stale, revived>>

Without(g, p) == NextVersion([g EXCEPT !.rows[p].active = FALSE])

LeaveGroup(d) ==
  /\ Shown(d) /\ d # Owner
  /\ LET g == Without(group[d], d) IN Change(d, "remove_member", g, Members(g))
  /\ UNCHANGED <<dialogs, stale, revived>>

\* Faulty: an admin removes anybody.
AdminMayRemove(g, d, p) == d = Owner \/ Role(g, d) = "admin"

MayRemove(g, d, p) ==
  \/ d = Owner
  \/ Role(g, d) = "admin" /\ Role(g, p) \notin {"admin", "owner"}

RemoveMember(d) ==
  /\ Shown(d)
  /\ \E p \in Members(group[d]) \ {d} :
       /\ MayRemove(group[d], d, p)
       /\ LET g == Without(group[d], p)
          IN  Change(d, "remove_member", g, Members(g) \union {p})
  /\ UNCHANGED <<dialogs, stale, revived>>

DisbandGroup ==
  /\ Shown(Owner)
  /\ LET g == NextVersion([group[Owner] EXCEPT !.active = FALSE])
     IN  Change(Owner, "disband", g, Members(g))
  /\ UNCHANGED <<dialogs, stale, revived>>

SetAdmin ==
  /\ Shown(Owner)
  /\ \E p \in Members(group[Owner]) :
       /\ Role(group[Owner], p) = "member"
       /\ Cardinality(Admins(group[Owner])) < AdminLimit
       /\ LET g == NextVersion([group[Owner] EXCEPT !.rows[p].role = "admin"])
          IN  Change(Owner, "set_admin", g, Members(g))
  /\ UNCHANGED <<dialogs, stale, revived>>

UnsetAdmin ==
  /\ Shown(Owner)
  /\ \E p \in Devices :
       /\ Role(group[Owner], p) = "admin"
       /\ LET g == NextVersion([group[Owner] EXCEPT !.rows[p].role = "member"])
          IN  Change(Owner, "unset_admin", g, Members(g))
  /\ UNCHANGED <<dialogs, stale, revived>>

\* The announcement keeps the version.  Its dialog, once open, also saves what has been
\* disbanded or has lost this member meanwhile; the receivers take it for active.
OpenAnnouncement(d) ==
  /\ Shown(d) /\ d \notin announcing /\ Spend(0, 1)
  /\ announcing' = announcing \union {d}
  /\ UNCHANGED <<group, settings, wire, clock, history>>

Announce(d) ==
  /\ Shown(d) \/ d \in announcing
  /\ Change(d, "text", group[d], Members(group[d]))
  /\ announcing' = announcing \ {d}
  /\ revived' = IF group[d].active THEN revived ELSE revived \union {clock'}
  /\ UNCHANGED <<settings, stale>>

OpenSettings(d) ==
  /\ Shown(d) /\ settings[d] = NoGroup /\ Spend(0, 1)
  /\ settings' = [settings EXCEPT ![d] = group[d]]
  /\ UNCHANGED <<group, announcing, wire, clock, history>>

\* A new name: the row of groups that the dialog was opened with is written back, the
\* members are those of now.
SaveName(d) ==
  /\ settings[d] # NoGroup
  /\ LET g == [settings[d] EXCEPT !.rows = group[d].rows]
     IN  Change(d, "text", g, Members(g))
  /\ settings' = [settings EXCEPT ![d] = NoGroup]
  /\ stale' = (stale \/ settings[d] # group[d])
  /\ UNCHANGED <<announcing, revived>>

-----------------------------------------------------------------------------
(* The payloadReceived handler.                                            *)

\* shouldApplyIncomingMeta.
IsNewer(own, g) ==
  \/ own = NoGroup
  \/ g.version > own.version
  \/ g.version = own.version /\ g.at > own.at

\* Faulty: the members of the copy are added to those of the device.
MergedMembers(own, g) == [p \in Devices |-> IF g.rows[p] = NoRow THEN own.rows[p] ELSE g.rows[p]]

\* replaceMembers.
ReplacedMembers(own, g) == g.rows

HandleMeta(d, event, g) ==
  /\ LET copy == [g EXCEPT !.active = event # "disband",
                           !.rows = ReplacedMembers(group[d], g)]
     IN  \/ ~IsNewer(group[d], g) /\ UNCHANGED <<group, torn, budget>>
         \/ /\ IsNewer(group[d], g)
            /\ group' = [group EXCEPT ![d] = copy]
            /\ UNCHANGED <<torn, budget>>
         \/ IsNewer(group[d], g) /\ WriteHalf(d, copy) /\ Spend(0, 1)
  /\ UNCHANGED <<dialogs, greeted, clock, stale, revived>>


\* loadGroupsForMember for the peer that has said hello.
CopyForPeer(d, p) ==
  IF group[d].active /\ p \in Members(group[d]) THEN <<Meta("create", group[d])>> ELSE << >>

\* A hello is answered.  The dialer drops one within five seconds of another.
HandleHello(d, p, event, queues) ==
  /\ \/ /\ net' = [queues EXCEPT ![p][d] = @ \o CopyForPeer(d, p)]
        /\ greeted' = [greeted EXCEPT ![d][p] = "answered"]
     \/ /\ event = "hello_to_dialer" /\ greeted[d][p] # "never"
        /\ net' = queues
        /\ greeted' = [greeted EXCEPT ![d][p] = "dropped"]
  /\ UNCHANGED <<group, dialogs, clock, history, budget>>

Receive(d, p) ==
  /\ net[d][p] # << >>
  /\ LET m == Head(net[d][p])
         queues == [net EXCEPT ![d][p] = Tail(@)]
     IN  \/ m.event \in Hellos /\ HandleHello(d, p, m.event, queues)
         \/ m.event \notin Hellos /\ HandleMeta(d, m.event, m.group) /\ net' = queues
  /\ UNCHANGED linked

\* d dials p.
Connect(d, p) ==
  /\ d # p /\ {d, p} \notin linked
  /\ linked' = linked \union {{d, p}}
  /\ net' = [net EXCEPT ![d][p] = <<Hello("hello_to_dialer")>>, ![p][d] = <<Hello("hello")>>]
  /\ UNCHANGED <<group, dialogs, greeted, clock, history, budget>>

Disconnect(d, p) ==
  /\ {d, p} \in linked /\ d # p /\ Spend(0, 1)
  /\ linked' = linked \ {{d, p}}
  /\ net' = [net EXCEPT ![d][p] = << >>, ![p][d] = << >>]
  /\ UNCHANGED <<group, dialogs, greeted, clock, history>>

-----------------------------------------------------------------------------
Next ==
  \/ CreateGroup \/ DisbandGroup \/ SetAdmin \/ UnsetAdmin
  \/ \E d \in Devices :
       AddMembers(d) \/ LeaveGroup(d) \/ RemoveMember(d) \/ Announce(d)
       \/ OpenAnnouncement(d) \/ OpenSettings(d) \/ SaveName(d)
  \/ \E d, p \in Devices : Receive(d, p) \/ Connect(d, p) \/ Disconnect(d, p)

Spec == Init /\ [][Next]_vars

\* Event loops deliver, and the discovery on the network connects devices again.
FairSpec ==
  /\ Spec
  /\ \A d, p \in Devices : WF_vars(Receive(d, p)) /\ WF_vars(Connect(d, p))

-----------------------------------------------------------------------------
Events == Hellos \union {"create", "members_updated", "remove_member", "disband", "set_admin",
                         "unset_admin", "text"}
Row == [role : {"none", "owner", "admin", "member"}, active : BOOLEAN]
Copy == [version : 0 .. MaxChanges + 1, at : 0 .. MaxChanges + 1, text : 0 .. MaxChanges + 1,
         active : BOOLEAN, rows : [Devices -> Row]]

\* The types of the variables; members have roles, and a lost connection holds no messages.
TypeOK ==
  /\ group \in [Devices -> Copy] /\ settings \in [Devices -> Copy] /\ announcing \subseteq Devices
  /\ \A d \in Devices : \A p \in Members(group[d]) : Role(group[d], p) # "none"
  /\ linked \subseteq {{d, p} : d, p \in Devices}
  /\ \A d, p \in Devices :
       /\ net[d][p] \in Seq([event : Events, group : Copy])
       /\ {d, p} \notin linked => net[d][p] = << >>
  /\ greeted \in [Devices -> [Devices -> {"never", "answered", "dropped"}]]
  /\ clock \in 0 .. MaxChanges + 1 /\ stale \in BOOLEAN
  /\ torn \union revived \subseteq 1 .. MaxChanges + 1

-----------------------------------------------------------------------------
(* Properties.                                                             *)

Stamp(d) == <<group[d].version, group[d].at>>

\* Copies with the same version and time are the same group: a device takes such a copy for
\* one it has handled and never looks at it, whoever changed what at the same time.  Except:
\* the members of a copy of which some device has not written them, and, in an announcement
\* saved after a disband, whether the group is disbanded.
SameStampSameGroup ==
  \A d, p \in Devices :
    Stamp(d) = Stamp(p) /\ group[d].version > 0 =>
      /\ group[d].text = group[p].text
      /\ group[d].at \notin torn => ActiveRows(group[d]) = ActiveRows(group[p])
      /\ group[d].at \notin revived => group[d].active = group[p].active

\* Whatever the admins do at the same time, whichever copy wins and wherever a write stops,
\* every copy that has members has the owner as its owner, in the group and alone, or nobody
\* could disband the group.
OwnerStays ==
  \A d \in Devices : Members(group[d]) # {} =>
    {p \in Members(group[d]) : Role(group[d], p) = "owner"} = {Owner}

\* Nothing is newer than d's copy, and whoever has it answered the last hello of p.
IsNewest(d) == \A q \in Devices : ~IsNewer(group[d], group[q])
HoldersAnswered(d, p) == \A q \in Devices : Stamp(q) = Stamp(d) => greeted[q][p] # "dropped"

\* Everybody whom the newest copy lists as a member has it, if the group is not disbanded
\* (the copy of a disbanded one is sent once, to those who are connected), if the devices
\* that have the copy have not dropped the member's hello as one too many, and if no device
\* has written it without its members or made it in a disbanded group.
CaughtUp ==
  \A d, p \in Devices :
    /\ group[d].active /\ p \in Members(group[d]) /\ IsNewest(d)
    /\ HoldersAnswered(d, p) /\ group[d].at \notin torn \union revived
    => Stamp(p) = Stamp(d)

=============================================================================
