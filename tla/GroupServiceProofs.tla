-------------------------- MODULE GroupServiceProofs --------------------------
(***************************************************************************)
(* Proofs about the copies of a group, for every set of devices, limit of  *)
(* admins and bound.                                                       *)
(***************************************************************************)
EXTENDS GroupService, TLAPS

-----------------------------------------------------------------------------
(* A group belongs to its owner in each copy: on the devices, in an open    *)
(* dialog and in the messages under way.  Rows of former members count too, *)
(* since adding a member again gives its old role back.  Only a device that *)
(* has not written the members of its first copy has none.                  *)

Groups ==
  [version : Nat, at : Nat, text : Nat, active : BOOLEAN, rows : [Devices -> Row]]

OwnedRows(rows) ==
  /\ rows \in [Devices -> Row]
  /\ rows[Owner].active
  /\ \A p \in Devices : /\ rows[p].role = "owner" <=> p = Owner
                        /\ rows[p].active => rows[p].role # "none"

Owned(g) == g \in Groups /\ OwnedRows(g.rows)
NoRows == [p \in Devices |-> NoRow]
Kept(g) == g \in Groups /\ (OwnedRows(g.rows) \/ g.rows = NoRows)

(***************************************************************************)
(* No copy is newer than the last change, and every change has an instant  *)
(* of its own.  So there is a history h that says of each instant which    *)
(* copy was made, and a copy under way or on a device shows what the one   *)
(* of its instant does, wherever it has come from.  T and R are the        *)
(* instants for which that is not so: torn and revived.                    *)
(***************************************************************************)
Dated(g, t) == g.version \in 0 .. t /\ g.at \in 0 .. t /\ g.text \in 0 .. t
Told(h, T, R, g, t) ==
  /\ g \in Groups /\ Dated(g, t) /\ g.at \in 1 .. t /\ g.version > 0
  /\ g.text = h[g.at].text
  /\ g.at \notin T => ActiveRows(g) = ActiveRows(h[g.at])
  /\ g.at \notin R => g.active = h[g.at].active

Changes == Events \ Hellos

\* A message carries the copy of a change; a receiver takes only a disband for inactive.
Sent(h, T, R, t) ==
  {m \in [event : Events, group : Groups] :
     /\ m.event \in Hellos => m.group = NoGroup
     /\ m.event \notin Hellos =>
          /\ Owned(m.group) /\ Told(h, T, R, m.group, t)
          /\ m.group.at \notin R => (h[m.group.at].active <=> m.event # "disband")}

Agree(h) ==
  /\ \A d \in Devices : group[d] # NoGroup =>
       Kept(group[d]) /\ Told(h, torn, revived, group[d], clock)
  /\ net \in [Devices -> [Devices -> Seq(Sent(h, torn, revived, clock))]]

\* A dialog is opened on a group that is shown, and that is never deleted.
DialogsInv ==
  /\ announcing \subseteq Devices
  /\ \A d \in announcing : group[d] # NoGroup /\ Owned(group[d])
  /\ \A d \in Devices : settings[d] # NoGroup =>
       /\ Owned(settings[d]) /\ settings[d].active /\ Dated(settings[d], clock)
       /\ settings[d].version > 0
       /\ group[d] # NoGroup /\ Owned(group[d])

Open(d, p) == {d, p} \in linked
LinksInv ==
  /\ linked \subseteq {{d, p} : d, p \in Devices}
  /\ \A d, p \in Devices : ~Open(d, p) => net[d][p] = << >>
  /\ greeted \in [Devices -> [Devices -> {"never", "answered", "dropped"}]]

\* The group is created once.
ClockInv ==
  /\ clock \in Nat /\ stale \in BOOLEAN /\ budget \in [changes : Nat, disturbances : Nat]
  /\ torn \subseteq 1 .. clock /\ revived \subseteq 1 .. clock
  /\ clock + budget.changes <= MaxChanges + 1
  /\ clock + budget.changes <= MaxChanges \/ group[Owner] # NoGroup

Inv ==
  /\ group \in [Devices -> Groups] /\ settings \in [Devices -> Groups]
  /\ \E h \in [Nat -> Groups] : Agree(h)
  /\ DialogsInv /\ LinksInv /\ ClockInv

LEMMA NoGroupIsAGroup == NoGroup \in Groups /\ ~Owned(NoGroup) /\ NoGroup.rows = NoRows
BY OwnerIsADevice DEF NoGroup, NoRow, NoRows, Groups, Row, Owned, OwnedRows

\* What spending leaves.
LEMMA SpendKeeps ==
  ASSUME budget \in [changes : Nat, disturbances : Nat], NEW changes \in {0, 1},
         NEW disturbances \in {0, 1}, Spend(changes, disturbances)
  PROVE  /\ budget' \in [changes : Nat, disturbances : Nat]
         /\ budget'.changes = budget.changes - changes
BY DEF Spend

-----------------------------------------------------------------------------
(* What is known is kept.                                                   *)

\* The history is written on: what is there already keeps its instant.
LEMMA ToldLater ==
  ASSUME NEW h, NEW k, NEW T, NEW T2, NEW R, NEW R2, NEW t \in Nat, NEW t2 \in Nat, t <= t2,
         \A i \in 1 .. t : k[i] = h[i], T \subseteq T2, R \subseteq R2
  PROVE  /\ \A g : Told(h, T, R, g, t) => Told(k, T2, R2, g, t2)
         /\ Sent(h, T, R, t) \subseteq Sent(k, T2, R2, t2)
<1>1. ASSUME NEW g, Told(h, T, R, g, t)
      PROVE  Told(k, T2, R2, g, t2) /\ k[g.at] = h[g.at]
  BY <1>1 DEF Told, Dated
<1>2. ASSUME NEW m \in Sent(h, T, R, t)
      PROVE  m \in Sent(k, T2, R2, t2)
  <2>1. CASE m.event \in Hellos
    BY <2>1 DEF Sent
  <2>2. CASE m.event \notin Hellos
    <3>1. /\ Owned(m.group) /\ Told(h, T, R, m.group, t)
          /\ m.group.at \notin R => (h[m.group.at].active <=> m.event # "disband")
      BY <2>2 DEF Sent
    <3>2. Told(k, T2, R2, m.group, t2) /\ k[m.group.at] = h[m.group.at]
      BY <1>1, <3>1
    <3> QED
      BY <2>2, <3>1, <3>2 DEF Sent
  <2> QED
    BY <2>1, <2>2
<1> QED
  BY <1>1, <1>2

\* A step keeps the invariant if each new copy is one of its instant.
LEMMA StepKeeps ==
  ASSUME Inv, NEW h \in [Nat -> Groups], Agree(h), NEW k \in [Nat -> Groups],
         \A i \in 1 .. clock : k[i] = h[i],
         clock' \in {clock, clock + 1}, torn \subseteq torn', revived \subseteq revived',
         \A p \in Devices :
           \/ group'[p] = group[p]
           \/ /\ Told(k, torn', revived', group'[p], clock') /\ Kept(group'[p])
              /\ Owned(group[p]) => Owned(group'[p]),
         group' \in [Devices -> Groups],
         net' \in [Devices -> [Devices -> Seq(Sent(k, torn', revived', clock'))]],
         settings' \in [Devices -> Groups],
         \A p \in Devices : settings'[p] \in {settings[p], NoGroup},
         announcing' \subseteq announcing, LinksInv', ClockInv'
  PROVE  Inv'
<1>1. clock \in Nat /\ clock' \in Nat /\ clock <= clock'
  BY DEF Inv, ClockInv
<1>2. \A g : Told(h, torn, revived, g, clock) => Told(k, torn', revived', g, clock')
  BY <1>1, ToldLater
<1>3. Agree(k)'
  BY <1>2 DEF Agree
<1>4. ASSUME NEW p \in Devices, group[p] # NoGroup, Owned(group[p])
      PROVE  group'[p] # NoGroup /\ Owned(group'[p])
  <2>1. Owned(group'[p])
    BY <1>4
  <2> QED
    BY <2>1, NoGroupIsAGroup
<1>5. \A p \in announcing' : group'[p] # NoGroup /\ Owned(group'[p])
  BY <1>4 DEF Inv, DialogsInv
<1>6. ASSUME NEW p \in Devices, settings'[p] # NoGroup
      PROVE  /\ Owned(settings'[p]) /\ settings'[p].active /\ Dated(settings'[p], clock')
             /\ settings'[p].version > 0
             /\ group'[p] # NoGroup /\ Owned(group'[p])
  <2>1. settings'[p] = settings[p]
    BY <1>6
  <2>2. /\ Owned(settings[p]) /\ settings[p].active /\ Dated(settings[p], clock)
        /\ settings[p].version > 0
        /\ group[p] # NoGroup /\ Owned(group[p])
    BY <1>6, <2>1 DEF Inv, DialogsInv
  <2>3. Dated(settings[p], clock')
    BY <1>1, <2>2 DEF Dated
  <2> QED
    BY <1>4, <2>1, <2>2, <2>3
<1>7. DialogsInv'
  BY <1>5, <1>6 DEF DialogsInv, Inv
<1> QED
  BY <1>3, <1>7 DEF Inv

-----------------------------------------------------------------------------
(* The copy that a change starts from and the one it makes.                 *)

Changed(g, t) ==
  Owned(g) /\ g.version \in 1 .. t + 1 /\ g.text \in 0 .. t

\* A member that the device shows has a group with an owner.
LEMMA ShownIsOwned ==
  ASSUME Inv, NEW d \in Devices, Shown(d)
  PROVE  /\ Owned(group[d]) /\ Dated(group[d], clock) /\ group[d].active
         /\ group[d].version > 0 /\ group[d] # NoGroup
<1>1. group[d].active /\ ~NoGroup.active
  BY DEF Shown, NoGroup
<1>2. Kept(group[d]) /\ Dated(group[d], clock) /\ group[d].version > 0 /\ group[d] # NoGroup
  BY <1>1 DEF Inv, Agree, Told
<1>3. group[d].rows # NoRows
  BY DEF Shown, Members, NoRows, NoRow
<1> QED
  BY <1>1, <1>2, <1>3 DEF Kept, Owned

\* What the operations make of the rows.
LEMMA OwnedWithRows ==
  ASSUME NEW g \in Groups, NEW rows, OwnedRows(rows)
  PROVE  Owned([g EXCEPT !.rows = rows])
BY DEF Owned, Groups, OwnedRows

LEMMA NextVersionOfRows ==
  ASSUME NEW g, NEW t \in Nat, Owned(g), Dated(g, t), NEW rows, OwnedRows(rows)
  PROVE  /\ Changed(NextVersion([g EXCEPT !.rows = rows]), t)
         /\ NextVersion([g EXCEPT !.rows = rows]).active = g.active
<1> DEFINE k == [g EXCEPT !.rows = rows]
<1>1. /\ Owned(k) /\ Dated(k, t) /\ k.active = g.active
      /\ k.version \in Nat
  BY OwnedWithRows DEF Owned, Groups, Dated, OwnedRows
<1> HIDE DEF k
<1>2. Owned(NextVersion(k))
  BY <1>1 DEF Owned, Groups, NextVersion
<1>3. NextVersion(k).version = k.version + 1 /\ NextVersion(k).text = k.text
      /\ NextVersion(k).active = k.active
  BY <1>1 DEF NextVersion, Owned, Groups
<1>4. Changed(NextVersion(k), t)
  BY <1>1, <1>2, <1>3 DEF Changed, Dated
<1> QED
  BY <1>1, <1>3, <1>4 DEF k

\* What is sent is what is seen, and it is seen as it was sent.
LEMMA MetaShows ==
  ASSUME NEW g, Owned(g), NEW event
  PROVE  LET m == Meta(event, g) IN
         /\ m = [event |-> event, group |-> m.group] /\ Owned(m.group)
         /\ ActiveRows(m.group) = ActiveRows(g)
         /\ m.group.at = g.at /\ m.group.version = g.version /\ m.group.text = g.text
         /\ m.group.active = g.active
<1> DEFINE rows == ActiveRows(g)
<1>1. g \in Groups /\ g.rows \in [Devices -> Row]
  BY DEF Owned, Groups
<1>2. ~NoRow.active /\ NoRow.role # "owner" /\ NoRow \in Row
  BY DEF NoRow, Row
<1>3. rows \in [Devices -> Row] /\ OwnedRows(rows)
  BY <1>1, <1>2, OwnerIsADevice DEF Owned, OwnedRows, ActiveRows
<1>4. \A s : s.rows = rows => ActiveRows(s) = rows
  BY <1>1, <1>2 DEF ActiveRows
<1>5. Meta(event, g) = [event |-> event, group |-> [g EXCEPT !.rows = rows]]
  BY <1>1 DEF Meta, ActiveRows, Groups
<1> HIDE DEF rows
<1>6. Owned([g EXCEPT !.rows = rows])
  BY <1>1, <1>3, OwnedWithRows
<1>7. [g EXCEPT !.rows = rows].rows = rows
  BY <1>1 DEF Groups
<1>8. ActiveRows([g EXCEPT !.rows = rows]) = ActiveRows(g)
  BY <1>4, <1>7 DEF rows
<1>9. PICK s : s = [g EXCEPT !.rows = rows]
  OBVIOUS
<1>10. s.at = g.at /\ s.version = g.version /\ s.text = g.text /\ s.active = g.active
  BY <1>1, <1>9 DEF Groups
<1>11. Meta(event, g) = [event |-> event, group |-> s]
  BY <1>5, <1>9
<1>12. Meta(event, g).group = s
  BY <1>11
<1> QED
  BY <1>6, <1>8, <1>9, <1>10, <1>11, <1>12

\* A copy that a device has goes out as a message of its instant.
LEMMA CopyIsSent ==
  ASSUME NEW h, NEW T, NEW R, NEW t \in Nat, NEW g, Owned(g), Told(h, T, R, g, t),
         NEW event \in Changes, g.at \notin R => (g.active <=> event # "disband")
  PROVE  Meta(event, g) \in Sent(h, T, R, t)
<1>1. PICK s : s = Meta(event, g).group
  OBVIOUS
<1>2. /\ Meta(event, g) = [event |-> event, group |-> s]
      /\ Owned(s) /\ ActiveRows(s) = ActiveRows(g)
      /\ s.at = g.at /\ s.version = g.version /\ s.text = g.text /\ s.active = g.active
  BY <1>1, MetaShows
<1>3. Told(h, T, R, s, t) /\ s \in Groups
  BY <1>2 DEF Told, Dated, Owned
<1>4. s.at \notin R => (h[s.at].active <=> event # "disband")
  BY <1>2, <1>3 DEF Told
<1>5. [event |-> event, group |-> s] \in Sent(h, T, R, t)
  BY <1>2, <1>3, <1>4 DEF Sent, Changes
<1> QED
  BY <1>2, <1>5

\* A change sends its copy to those who are connected.
LEMMA BroadcastKeepsNet ==
  ASSUME Inv, NEW d \in Devices, NEW g, NEW event, NEW recipients, NEW S,
         net \in [Devices -> [Devices -> Seq(S)]], Meta(event, g) \in S,
         Broadcast(d, event, g, recipients), UNCHANGED <<linked, greeted>>
  PROVE  net' \in [Devices -> [Devices -> Seq(S)]] /\ LinksInv'
<1> DEFINE M == Meta(event, g)
<1>1. net' = [p \in Devices |-> [net[p] EXCEPT ![d] =
            IF p \in recipients \ {d} /\ {d, p} \in linked
            THEN Append(@, M) ELSE @]]
  BY DEF Broadcast
<1>2. M \in S
  OBVIOUS
<1> HIDE DEF M
<1>3. \A p \in Devices : net[p] \in [Devices -> Seq(S)] /\ Append(net[p][d], M) \in Seq(S)
  BY <1>2
<1>4. net' \in [Devices -> [Devices -> Seq(S)]]
  BY <1>1, <1>3
<1>5. ASSUME NEW p \in Devices, NEW q \in Devices, ~Open(p, q)
      PROVE  net'[p][q] = << >>
  <2>1. net[p][q] = << >>
    BY <1>5 DEF Inv, LinksInv
  <2>2. q = d => {d, p} \notin linked
    <3>1. q = d => {d, p} = {p, q}
      OBVIOUS
    <3> QED
      BY <1>5, <3>1 DEF Open
  <2> QED
    BY <1>1, <2>1, <2>2
<1>6. linked' \subseteq {{q, p} : q, p \in Devices} /\ \A q, p \in Devices : Open(q, p)' = Open(q, p)
  BY DEF Inv, LinksInv, Open
<1>7. greeted' \in [Devices -> [Devices -> {"never", "answered", "dropped"}]]
  BY DEF Inv, LinksInv
<1>8. LinksInv'
  BY <1>5, <1>6, <1>7 DEF LinksInv
<1> QED
  BY <1>4, <1>8

\* The copy of a new instant, on a device and on its way to others, or only its row.
NewCopy(d, g, event, recipients) ==
  \/ /\ group' = [group EXCEPT ![d] = g] /\ torn' = torn
     /\ Broadcast(d, event, g, recipients)
  \/ WriteHalf(d, g) /\ UNCHANGED net

LEMMA NewCopyInv ==
  ASSUME Inv, NEW d \in Devices, NEW g, NEW event \in Changes, NEW recipients,
         clock' = clock + 1, NewCopy(d, g, event, recipients),
         Owned(g), Dated(g, clock + 1), g.at = clock + 1, g.version > 0,
         revived' \in {revived, revived \union {clock + 1}},
         (g.active <=> event # "disband") \/ clock + 1 \in revived',
         UNCHANGED <<linked, greeted>>, announcing' \subseteq announcing,
         settings' = settings \/ settings' = [settings EXCEPT ![d] = NoGroup],
         Owned(group[d]) \/ group[d] = NoGroup,
         stale' \in BOOLEAN, budget' \in [changes : Nat, disturbances : Nat],
         clock' + budget'.changes <= MaxChanges + 1,
         clock' + budget'.changes <= MaxChanges \/ d = Owner \/ group[Owner] # NoGroup
  PROVE  Inv'
<1>1. PICK h \in [Nat -> Groups] : Agree(h)
  BY DEF Inv
<1>2. clock \in Nat /\ g \in Groups /\ torn \subseteq 1 .. clock /\ revived \subseteq 1 .. clock
  BY DEF Inv, ClockInv, Owned
<1>3. PICK k : k = [h EXCEPT ![clock + 1] = g]
  OBVIOUS
<1>4. k \in [Nat -> Groups] /\ k[clock + 1] = g /\ \A i \in 1 .. clock : k[i] = h[i]
  BY <1>2, <1>3
<1>5. torn' \in {torn, torn \union {clock + 1}}
  BY DEF NewCopy, WriteHalf
<1>6. Sent(h, torn, revived, clock) \subseteq Sent(k, torn', revived', clock')
  <2>1. torn \subseteq torn' /\ revived \subseteq revived'
    BY <1>5
  <2>2. clock' \in Nat /\ clock <= clock'
    BY <1>2
  <2> QED
    BY <1>2, <1>4, <2>1, <2>2, ToldLater
<1>7. net \in [Devices -> [Devices -> Seq(Sent(k, torn', revived', clock'))]]
  <2>1. net \in [Devices -> [Devices -> Seq(Sent(h, torn, revived, clock))]]
    BY <1>1 DEF Agree
  <2> QED
    BY <1>6, <2>1
<1>8. Told(k, torn', revived', g, clock')
  BY <1>2, <1>4 DEF Told
<1>9. net' \in [Devices -> [Devices -> Seq(Sent(k, torn', revived', clock'))]] /\ LinksInv'
  <2>1. CASE UNCHANGED net
    <3>1. LinksInv'
      BY <2>1 DEF Inv, LinksInv, Open
    <3> QED
      BY <1>7, <2>1, <3>1
  <2>2. CASE Broadcast(d, event, g, recipients)
    <3>1. Meta(event, g) \in Sent(k, torn', revived', clock')
      BY <1>2, <1>8, CopyIsSent
    <3> QED
      BY <1>7, <2>2, <3>1, BroadcastKeepsNet
  <2> QED
    BY <2>1, <2>2 DEF NewCopy
<1>10. PICK c : /\ group' = [group EXCEPT ![d] = c]
                /\ Told(k, torn', revived', c, clock') /\ Kept(c)
                /\ Owned(group[d]) => Owned(c)
  <2>1. CASE group' = [group EXCEPT ![d] = g]
    BY <1>8, <2>1 DEF Kept, Owned
  <2>2. CASE WriteHalf(d, g)
    <3> DEFINE half == [g EXCEPT !.rows = group[d].rows]
    <3>1. /\ group' = [group EXCEPT ![d] = half]
          /\ clock + 1 \in torn' \/ ActiveRows(g) = ActiveRows(group[d])
      BY <2>2 DEF WriteHalf
    <3>2. group[d].rows \in [Devices -> Row] /\ (OwnedRows(group[d].rows) \/ group[d].rows = NoRows)
      BY NoGroupIsAGroup DEF Owned, Groups
    <3>3. /\ half \in Groups /\ half.rows = group[d].rows /\ half.at = clock + 1
          /\ half.version = g.version /\ half.text = g.text /\ half.active = g.active
      BY <1>2, <3>2 DEF Groups
    <3>6. ActiveRows(half) = ActiveRows(group[d])
      BY <3>3 DEF ActiveRows
    <3> HIDE DEF half
    <3>4. Told(k, torn', revived', half, clock')
      BY <1>2, <1>4, <1>8, <3>1, <3>3, <3>6 DEF Told, Dated
    <3>5. Kept(half) /\ (Owned(group[d]) => Owned(half))
      BY <3>2, <3>3 DEF Kept, Owned
    <3> QED
      BY <3>1, <3>4, <3>5
  <2> QED
    BY <2>1, <2>2 DEF NewCopy
<1>11. /\ group' \in [Devices -> Groups]
       /\ \A p \in Devices :
            \/ group'[p] = group[p]
            \/ /\ Told(k, torn', revived', group'[p], clock') /\ Kept(group'[p])
               /\ Owned(group[p]) => Owned(group'[p])
       /\ group'[d] = c
  BY <1>10 DEF Inv, Told
<1>12. settings' \in [Devices -> Groups] /\ \A p \in Devices : settings'[p] \in {settings[p], NoGroup}
  BY NoGroupIsAGroup DEF Inv
<1>13. ClockInv'
  <2>1. torn' \subseteq 1 .. clock' /\ revived' \subseteq 1 .. clock' /\ clock' \in Nat
    BY <1>2, <1>5
  <2>2. c # NoGroup /\ c.version > 0
    BY <1>10 DEF Told, NoGroup
  <2>3. d = Owner \/ group[Owner] # NoGroup => group'[Owner] # NoGroup
    BY <1>10, <1>11, <2>2, OwnerIsADevice DEF Inv
  <2> QED
    BY <2>1, <2>3 DEF ClockInv
<1> QED
  BY <1>1, <1>4, <1>5, <1>9, <1>11, <1>12, <1>13, StepKeeps

\* A change is a new copy of what it starts from.
LEMMA ChangeKeeps ==
  ASSUME Inv, NEW d \in Devices, group[d] # NoGroup, Owned(group[d]),
         NEW g, NEW event \in Changes, Changed(g, clock),
         NEW recipients, Change(d, event, g, recipients), stale' \in BOOLEAN,
         revived' \in {revived, revived \union {clock + 1}},
         (g.active <=> event # "disband") \/ clock + 1 \in revived',
         settings' = settings \/ settings' = [settings EXCEPT ![d] = NoGroup],
         announcing' \subseteq announcing
  PROVE  Inv'
<1> DEFINE changed == [g EXCEPT !.at = clock', !.text = IF event = "text" THEN clock' ELSE @]
<1>1. /\ clock' = clock + 1 /\ UNCHANGED <<linked, greeted>>
      /\ NewCopy(d, changed, event, recipients)
      /\ Spend(1, 0) \/ Spend(1, 1)
  BY DEF Change, NewCopy
<1>2. clock \in Nat
  BY DEF Inv, ClockInv
<1>3. /\ Owned(changed) /\ Dated(changed, clock + 1) /\ changed.at = clock + 1
      /\ changed.active = g.active /\ changed.version > 0
  <2>1. PICK text : text = IF event = "text" THEN clock' ELSE g.text
    OBVIOUS
  <2>2. changed = [g EXCEPT !.at = clock + 1, !.text = text]
    BY <1>1, <2>1
  <2>3. Owned(g) /\ g.version \in 1 .. clock + 1 /\ text \in 0 .. clock + 1
    BY <1>1, <1>2, <2>1 DEF Changed
  <2> HIDE DEF changed
  <2>4. g \in Groups /\ text \in Nat /\ clock + 1 \in Nat
    BY <1>2, <2>3 DEF Owned
  <2>5. /\ changed \in Groups /\ changed.rows = g.rows /\ changed.active = g.active
        /\ changed.at = clock + 1 /\ changed.version = g.version /\ changed.text = text
    BY <2>2, <2>4 DEF Groups
  <2> QED
    BY <1>2, <2>3, <2>5 DEF Owned, Dated
<1> HIDE DEF changed
<1>4. /\ budget' \in [changes : Nat, disturbances : Nat]
      /\ budget'.changes = budget.changes - 1 /\ budget.changes \in Nat
  BY <1>1, SpendKeeps DEF Inv, ClockInv
<1>5. clock' + budget'.changes = clock + budget.changes
  BY <1>1, <1>2, <1>4
<1>6. /\ clock' + budget'.changes <= MaxChanges + 1
      /\ clock' + budget'.changes <= MaxChanges \/ group[Owner] # NoGroup
  BY <1>5 DEF Inv, ClockInv
<1> QED
  BY <1>1, <1>3, <1>4, <1>6, NewCopyInv

-----------------------------------------------------------------------------
(* The operations.                                                          *)

LEMMA InitInv ==
  ASSUME Init
  PROVE  Inv
<1>1. PICK h : h = [i \in Nat |-> NoGroup]
  OBVIOUS
<1>2. h \in [Nat -> Groups]
  BY <1>1, NoGroupIsAGroup
<1>3. Agree(h)
  BY DEF Init, Agree
<1>4. DialogsInv
  BY DEF Init, DialogsInv
<1>5. LinksInv
  <2>1. greeted \in [Devices -> [Devices -> {"never", "answered", "dropped"}]]
    BY DEF Init
  <2>2. \A d, p \in Devices : net[d][p] = << >>
    BY DEF Init
  <2> QED
    BY <2>1, <2>2, BoundsAssumption DEF Init, LinksInv
<1>6. ClockInv
  <2>1. /\ budget \in [changes : Nat, disturbances : Nat] /\ budget.changes = MaxChanges
        /\ clock = 0 /\ stale = FALSE /\ torn = {} /\ revived = {}
    BY BoundsAssumption DEF Init
  <2>2. clock + budget.changes <= MaxChanges /\ clock + budget.changes <= MaxChanges + 1
    BY <2>1, BoundsAssumption
  <2>3. clock \in Nat /\ stale \in BOOLEAN /\ torn \subseteq 1 .. clock /\ revived \subseteq 1 .. clock
    BY <2>1
  <2> QED
    BY <2>1, <2>2, <2>3 DEF ClockInv
<1> QED
  BY <1>2, <1>3, <1>4, <1>5, <1>6, NoGroupIsAGroup DEF Init, Inv

LEMMA CreateGroupInv ==
  ASSUME Inv, CreateGroup
  PROVE  Inv'
<1>1. PICK invited \in SUBSET (Devices \ {Owner}) :
        LET g == [version |-> 1, at |-> clock', text |-> clock', active |-> TRUE,
                  rows |-> [p \in Devices |->
                    [role |-> CASE p = Owner -> "owner" [] p \in invited -> "member"
                                [] OTHER -> "none",
                     active |-> p \in invited \union {Owner}]]]
        IN  \/ /\ group' = [group EXCEPT ![Owner] = g] /\ UNCHANGED <<torn, budget>>
               /\ Broadcast(Owner, "create", g, invited)
            \/ WriteHalf(Owner, g) /\ Spend(0, 1) /\ UNCHANGED net
  BY DEF CreateGroup
<1> DEFINE rows == [p \in Devices |->
                     [role |-> CASE p = Owner -> "owner" [] p \in invited -> "member"
                                 [] OTHER -> "none",
                      active |-> p \in invited \union {Owner}]]
           g == [version |-> 1, at |-> clock', text |-> clock', active |-> TRUE,
                 rows |-> rows]
<1>2. /\ clock \in Nat /\ clock' = clock + 1 /\ group[Owner] = NoGroup
      /\ UNCHANGED <<settings, announcing, linked, greeted, stale, revived>>
  BY DEF Inv, ClockInv, CreateGroup, dialogs
<1>3. ASSUME NEW p \in Devices
      PROVE  /\ rows[p] \in Row
             /\ rows[p].role = "owner" <=> p = Owner
             /\ p = Owner => rows[p].active
             /\ rows[p].active => rows[p].role # "none"
  <2>1. CASE p = Owner
    BY <2>1 DEF Row
  <2>2. CASE p # Owner /\ p \in invited
    BY <2>2 DEF Row
  <2>3. CASE p # Owner /\ p \notin invited
    <3>1. (p \in invited \union {Owner}) = FALSE
      BY <2>3
    <3>2. rows[p] = [role |-> "none", active |-> FALSE]
      BY <2>3, <3>1
    <3> QED
      BY <2>3, <3>2 DEF Row
  <2> QED
    BY <2>1, <2>2, <2>3
<1>4. rows = [p \in Devices |-> rows[p]]
  OBVIOUS
<1>5. NewCopy(Owner, g, "create", invited) /\ (UNCHANGED budget \/ Spend(0, 1))
  BY <1>1 DEF NewCopy
<1> HIDE DEF rows
<1>6. Owned(g) /\ Dated(g, clock + 1) /\ g.at = clock + 1 /\ g.active /\ g.version > 0
  BY <1>2, <1>3, <1>4, OwnerIsADevice DEF Owned, OwnedRows, Groups, Dated
<1> HIDE DEF g
<1>7. budget' \in [changes : Nat, disturbances : Nat] /\ budget'.changes = budget.changes
  BY <1>5, SpendKeeps DEF Inv, ClockInv
<1>8. clock' + budget'.changes <= MaxChanges + 1
  BY <1>2, <1>7, BoundsAssumption DEF Inv, ClockInv
<1>9. "create" \in Changes /\ stale' \in BOOLEAN
  BY <1>2 DEF Changes, Events, Hellos, Inv, ClockInv
<1> QED
  BY <1>2, <1>5, <1>6, <1>7, <1>8, <1>9, NewCopyInv, OwnerIsADevice

LEMMA AddMembersInv ==
  ASSUME Inv, NEW d \in Devices, AddMembers(d)
  PROVE  Inv'
<1>1. /\ Owned(group[d]) /\ Dated(group[d], clock) /\ group[d].active /\ group[d] # NoGroup
      /\ clock \in Nat
  BY ShownIsOwned DEF AddMembers, Inv, ClockInv
<1>2. PICK added \in SUBSET Devices :
        LET g == NextVersion([group[d] EXCEPT !.rows =
                   [p \in Devices |-> IF p \in added THEN Joined(@[p]) ELSE @[p]]])
        IN  Change(d, "members_updated", g, Members(g))
  BY DEF AddMembers
<1> DEFINE rows == [p \in Devices |-> IF p \in added THEN Joined(group[d].rows[p])
                                                     ELSE group[d].rows[p]]
           g == NextVersion([group[d] EXCEPT !.rows = rows])
<1>3. ASSUME NEW p \in Devices
      PROVE  LET row == group[d].rows[p]
             IN  /\ Joined(row) \in Row /\ Joined(row).active /\ Joined(row).role # "none"
                 /\ (Joined(row).role = "owner") <=> (row.role = "owner")
  <2>1. group[d].rows[p] \in Row
    BY <1>1 DEF Owned, Groups
  <2>2. CASE group[d].rows[p] = NoRow
    BY <2>2 DEF Row, Joined, NoRow
  <2>3. CASE group[d].rows[p] # NoRow
    <3>1. group[d].rows[p].role # "none"
      <4>1. group[d].rows[p].active => group[d].rows[p].role # "none"
        BY <1>1 DEF Owned, OwnedRows
      <4> QED
        BY <2>1, <2>3, <4>1 DEF Row, NoRow
    <3> QED
      BY <2>1, <2>3, <3>1 DEF Row, Joined
  <2> QED
    BY <2>2, <2>3
<1>4. OwnedRows(rows)
  BY <1>1, <1>3, OwnerIsADevice DEF Owned, OwnedRows, Groups
<1>5. Change(d, "members_updated", g, Members(g))
  BY <1>2
<1> HIDE DEF rows
<1>6. Changed(g, clock) /\ g.active
  BY <1>1, <1>4, NextVersionOfRows
<1> HIDE DEF g
<1> QED
  BY <1>1, <1>5, <1>6, ChangeKeeps DEF AddMembers, dialogs, Changes, Events, Hellos, Inv, ClockInv

\* Nobody removes the owner: an admin may not, and the owner is not among its own choices.
LEMMA ChangedWithout ==
  ASSUME NEW g, NEW t \in Nat, Owned(g), Dated(g, t), NEW p \in Devices, p # Owner
  PROVE  Changed(Without(g, p), t) /\ Without(g, p).active = g.active
<1> DEFINE rows == [g.rows EXCEPT ![p].active = FALSE]
<1>1. OwnedRows(rows)
  <2>1. /\ rows \in [Devices -> Row] /\ ~rows[p].active /\ rows[p].role = g.rows[p].role
        /\ \A q \in Devices : q # p => rows[q] = g.rows[q]
    BY DEF Owned, OwnedRows, Groups, Row
  <2> HIDE DEF rows
  <2> QED
    BY <2>1, OwnerIsADevice DEF Owned, OwnedRows
<1>2. [g EXCEPT !.rows[p].active = FALSE] = [g EXCEPT !.rows = rows]
  OBVIOUS
<1> HIDE DEF rows
<1> QED
  BY <1>1, <1>2, NextVersionOfRows DEF Without

LEMMA LeaveGroupInv ==
  ASSUME Inv, NEW d \in Devices, LeaveGroup(d)
  PROVE  Inv'
<1>1. /\ Owned(group[d]) /\ Dated(group[d], clock) /\ group[d].active /\ group[d] # NoGroup
      /\ clock \in Nat
  BY ShownIsOwned DEF LeaveGroup, Inv, ClockInv
<1>2. Changed(Without(group[d], d), clock) /\ Without(group[d], d).active
  BY <1>1, ChangedWithout DEF LeaveGroup
<1> QED
  BY <1>1, <1>2, ChangeKeeps DEF LeaveGroup, dialogs, Changes, Events, Hellos, Inv, ClockInv

LEMMA RemoveMemberInv ==
  ASSUME Inv, NEW d \in Devices, RemoveMember(d)
  PROVE  Inv'
<1>1. /\ Owned(group[d]) /\ Dated(group[d], clock) /\ group[d].active /\ group[d] # NoGroup
      /\ clock \in Nat
  BY ShownIsOwned DEF RemoveMember, Inv, ClockInv
<1>2. PICK p \in Members(group[d]) \ {d} :
        /\ MayRemove(group[d], d, p)
        /\ LET g == Without(group[d], p)
           IN  Change(d, "remove_member", g, Members(g) \union {p})
  BY DEF RemoveMember
<1>3. p \in Devices /\ p # Owner
  BY <1>1, <1>2, OwnerIsADevice DEF Members, MayRemove, Owned, OwnedRows, Role
<1>4. Changed(Without(group[d], p), clock) /\ Without(group[d], p).active
  BY <1>1, <1>3, ChangedWithout
<1> QED
  BY <1>1, <1>2, <1>4, ChangeKeeps
     DEF RemoveMember, dialogs, Changes, Events, Hellos, Inv, ClockInv

LEMMA DisbandGroupInv ==
  ASSUME Inv, DisbandGroup
  PROVE  Inv'
<1>1. Owned(group[Owner]) /\ Dated(group[Owner], clock) /\ group[Owner] # NoGroup
  BY ShownIsOwned, OwnerIsADevice DEF DisbandGroup
<1> DEFINE g == NextVersion([group[Owner] EXCEPT !.active = FALSE])
<1>2. Changed(g, clock) /\ ~g.active
  <2> DEFINE k == [group[Owner] EXCEPT !.active = FALSE]
  <2>1. /\ k \in Groups /\ OwnedRows(k.rows) /\ ~k.active
        /\ k.version \in 0 .. clock /\ k.text \in 0 .. clock
    BY <1>1 DEF Owned, Groups, Dated
  <2> HIDE DEF k
  <2>2. /\ NextVersion(k) \in Groups /\ OwnedRows(NextVersion(k).rows) /\ ~NextVersion(k).active
        /\ NextVersion(k).version = k.version + 1 /\ NextVersion(k).text = k.text
    BY <2>1 DEF NextVersion, Groups
  <2>3. Changed(NextVersion(k), clock) /\ ~NextVersion(k).active
    BY <2>1, <2>2 DEF Changed, Owned, Inv, ClockInv
  <2> QED
    BY <2>3 DEF k
<1>3. Change(Owner, "disband", g, Members(g))
  BY DEF DisbandGroup
<1> HIDE DEF g
<1> QED
  BY <1>1, <1>2, <1>3, ChangeKeeps, OwnerIsADevice
     DEF DisbandGroup, dialogs, Changes, Events, Hellos, Inv, ClockInv

\* Between admin and member a row's role changes, never to or from owner.
LEMMA ChangedRole ==
  ASSUME NEW g, NEW t \in Nat, Owned(g), Dated(g, t), NEW p \in Devices, p # Owner,
         NEW role \in {"admin", "member"}
  PROVE  LET changed == NextVersion([g EXCEPT !.rows[p].role = role])
         IN  Changed(changed, t) /\ changed.active = g.active
<1> DEFINE rows == [g.rows EXCEPT ![p].role = role]
<1>1. OwnedRows(rows)
  BY OwnerIsADevice DEF Owned, OwnedRows, Groups, Row
<1>2. [g EXCEPT !.rows[p].role = role] = [g EXCEPT !.rows = rows]
  OBVIOUS
<1> HIDE DEF rows
<1> QED
  BY <1>1, <1>2, NextVersionOfRows

LEMMA SetAdminInv ==
  ASSUME Inv, SetAdmin
  PROVE  Inv'
<1>1. /\ Owned(group[Owner]) /\ Dated(group[Owner], clock) /\ group[Owner].active
      /\ clock \in Nat /\ group[Owner] # NoGroup
  BY ShownIsOwned, OwnerIsADevice DEF SetAdmin, Inv, ClockInv
<1>2. PICK p \in Devices :
        /\ Role(group[Owner], p) = "member"
        /\ LET g == NextVersion([group[Owner] EXCEPT !.rows[p].role = "admin"])
           IN  Change(Owner, "set_admin", g, Members(g))
  BY DEF SetAdmin, Members
<1>3. p # Owner
  BY <1>1, <1>2 DEF Owned, OwnedRows, Role
<1> DEFINE g == NextVersion([group[Owner] EXCEPT !.rows[p].role = "admin"])
<1>4. Changed(g, clock) /\ g.active
  BY <1>1, <1>3, ChangedRole
<1>5. Change(Owner, "set_admin", g, Members(g))
  BY <1>2
<1> HIDE DEF g
<1> QED
  BY <1>1, <1>4, <1>5, ChangeKeeps, OwnerIsADevice
     DEF SetAdmin, dialogs, Changes, Events, Hellos, Inv, ClockInv

LEMMA UnsetAdminInv ==
  ASSUME Inv, UnsetAdmin
  PROVE  Inv'
<1>1. /\ Owned(group[Owner]) /\ Dated(group[Owner], clock) /\ group[Owner].active
      /\ clock \in Nat /\ group[Owner] # NoGroup
  BY ShownIsOwned, OwnerIsADevice DEF UnsetAdmin, Inv, ClockInv
<1>2. PICK p \in Devices :
        /\ Role(group[Owner], p) = "admin"
        /\ LET g == NextVersion([group[Owner] EXCEPT !.rows[p].role = "member"])
           IN  Change(Owner, "unset_admin", g, Members(g))
  BY DEF UnsetAdmin
<1>3. p # Owner
  BY <1>1, <1>2 DEF Owned, OwnedRows, Role
<1> DEFINE g == NextVersion([group[Owner] EXCEPT !.rows[p].role = "member"])
<1>4. Changed(g, clock) /\ g.active
  BY <1>1, <1>3, ChangedRole
<1>5. Change(Owner, "unset_admin", g, Members(g))
  BY <1>2
<1> HIDE DEF g
<1> QED
  BY <1>1, <1>4, <1>5, ChangeKeeps, OwnerIsADevice
     DEF UnsetAdmin, dialogs, Changes, Events, Hellos, Inv, ClockInv

\* The clock and the messages do not care about dialogs.
LEMMA OpenDialogInv ==
  ASSUME Inv, NEW d \in Devices, OpenSettings(d) \/ OpenAnnouncement(d)
  PROVE  Inv'
<1>1. /\ Owned(group[d]) /\ Dated(group[d], clock) /\ group[d].active /\ group[d].version > 0
      /\ group[d] # NoGroup
  BY ShownIsOwned DEF OpenSettings, OpenAnnouncement
<1>2. /\ UNCHANGED <<group, linked, net, greeted, clock, stale, torn, revived>>
      /\ Spend(0, 1)
      /\ settings' \in {settings, [settings EXCEPT ![d] = group[d]]}
      /\ announcing' \in {announcing, announcing \union {d}}
  BY DEF OpenSettings, OpenAnnouncement, wire, history
<1>3. DialogsInv'
  BY <1>1, <1>2, NoGroupIsAGroup DEF Inv, DialogsInv
<1>4. PICK h \in [Nat -> Groups] : Agree(h)
  BY DEF Inv
<1>5. Agree(h)'
  BY <1>2, <1>4 DEF Agree
<1>6. budget' \in [changes : Nat, disturbances : Nat] /\ budget'.changes = budget.changes
  BY <1>2, SpendKeeps DEF Inv, ClockInv
<1>7. ClockInv'
  BY <1>2, <1>6 DEF Inv, ClockInv
<1>8. LinksInv'
  BY <1>2 DEF Inv, LinksInv, Open
<1>9. group' \in [Devices -> Groups] /\ settings' \in [Devices -> Groups]
  BY <1>2 DEF Inv
<1> QED
  BY <1>3, <1>4, <1>5, <1>7, <1>8, <1>9 DEF Inv

\* The announcement may be saved in a group that has been disbanded, under a new instant.
LEMMA AnnounceInv ==
  ASSUME Inv, NEW d \in Devices, Announce(d)
  PROVE  Inv'
<1>1. Owned(group[d]) /\ group[d] # NoGroup /\ clock \in Nat
  BY ShownIsOwned DEF Announce, Inv, DialogsInv, ClockInv
<1>2. Dated(group[d], clock) /\ group[d].version > 0
  BY <1>1 DEF Inv, Agree, Told
<1>3. Changed(group[d], clock)
  BY <1>1, <1>2 DEF Changed, Dated
<1>4. clock' = clock + 1
  BY DEF Announce, Change
<1>5. /\ revived' \in {revived, revived \union {clock + 1}}
      /\ group[d].active \/ clock + 1 \in revived'
  BY <1>4 DEF Announce
<1> QED
  BY <1>1, <1>3, <1>5, ChangeKeeps DEF Announce, Changes, Events, Hellos, Inv, ClockInv

LEMMA SaveNameInv ==
  ASSUME Inv, NEW d \in Devices, SaveName(d)
  PROVE  Inv'
<1> DEFINE g == [settings[d] EXCEPT !.rows = group[d].rows]
<1>1. /\ Owned(group[d]) /\ group[d] # NoGroup /\ Owned(settings[d]) /\ settings[d].active
      /\ Dated(settings[d], clock) /\ settings[d].version > 0 /\ clock \in Nat
  BY DEF SaveName, Inv, DialogsInv, ClockInv
<1>2. Owned(g) /\ Dated(g, clock) /\ g.active /\ g.version > 0
  BY <1>1, OwnedWithRows DEF Owned, Groups, Dated
<1>3. Change(d, "text", g, Members(g)) /\ settings' = [settings EXCEPT ![d] = NoGroup]
  BY DEF SaveName
<1> HIDE DEF g
<1>4. Changed(g, clock)
  BY <1>1, <1>2 DEF Changed, Dated
<1>5. stale' \in BOOLEAN /\ UNCHANGED <<announcing, revived>>
  BY DEF SaveName, Inv, ClockInv
<1> QED
  BY <1>1, <1>2, <1>3, <1>4, <1>5, ChangeKeeps DEF Changes, Events, Hellos

-----------------------------------------------------------------------------
(* The network.                                                             *)

\* A step that changes neither dialogs nor the clock keeps the invariant if it keeps the copies.
LEMMA NetworkStep ==
  ASSUME Inv, UNCHANGED <<settings, announcing, clock, stale, revived>>,
         NEW h \in [Nat -> Groups], Agree(h),
         torn \subseteq torn', torn' \subseteq 1 .. clock,
         group' \in [Devices -> Groups],
         \A p \in Devices :
           \/ group'[p] = group[p]
           \/ /\ Told(h, torn', revived, group'[p], clock) /\ Kept(group'[p])
              /\ Owned(group[p]) => Owned(group'[p]),
         net' \in [Devices -> [Devices -> Seq(Sent(h, torn', revived, clock))]], LinksInv',
         budget' = budget \/ Spend(0, 1)
  PROVE  Inv'
<1>1. budget' \in [changes : Nat, disturbances : Nat] /\ budget'.changes = budget.changes
  BY SpendKeeps DEF Inv, ClockInv
<1>2. group[Owner] # NoGroup => group'[Owner] # NoGroup
  <2>1. \A g : Told(h, torn', revived, g, clock) => g # NoGroup
    BY DEF Told, NoGroup
  <2> QED
    BY <2>1, OwnerIsADevice
<1>3. ClockInv'
  BY <1>1, <1>2 DEF Inv, ClockInv
<1>4. settings' \in [Devices -> Groups] /\ \A p \in Devices : settings'[p] \in {settings[p], NoGroup}
  BY DEF Inv
<1>5. /\ revived' = revived /\ clock' = clock /\ revived \subseteq revived'
      /\ announcing' \subseteq announcing
  OBVIOUS
<1> QED
  BY <1>3, <1>4, <1>5, StepKeeps

\* Two ends of a link are linked both ways.
LEMMA ReceivedOverLink ==
  ASSUME Inv, NEW d \in Devices, NEW p \in Devices, net[d][p] # << >>
  PROVE  Open(d, p) /\ Open(p, d)
<1>1. Open(d, p)
  BY DEF Inv, LinksInv
<1>2. {p, d} = {d, p}
  OBVIOUS
<1> QED
  BY <1>1, <1>2 DEF Open

\* A hello or a copy is taken from its queue.
LEMMA Taken ==
  ASSUME Inv, NEW d \in Devices, NEW p \in Devices, net[d][p] # << >>, NEW S,
         net \in [Devices -> [Devices -> Seq(S)]],
         NEW queues, queues = [net EXCEPT ![d][p] = Tail(@)]
  PROVE  /\ Head(net[d][p]) \in S
         /\ queues \in [Devices -> [Devices -> Seq(S)]]
<1>1. Head(net[d][p]) \in S /\ Tail(net[d][p]) \in Seq(S)
  OBVIOUS
<1> QED
  BY <1>1

LEMMA HelloInv ==
  ASSUME Inv, NEW d \in Devices, NEW p \in Devices, net[d][p] # << >>, NEW event,
         NEW queues, queues = [net EXCEPT ![d][p] = Tail(@)], UNCHANGED linked,
         HandleHello(d, p, event, queues)
  PROVE  Inv'
<1>1. PICK h \in [Nat -> Groups] : Agree(h)
  BY DEF Inv
<1>2. PICK S : S = Sent(h, torn, revived, clock)
  OBVIOUS
<1>3. queues \in [Devices -> [Devices -> Seq(S)]]
  <2>1. net \in [Devices -> [Devices -> Seq(S)]]
    BY <1>1, <1>2 DEF Agree
  <2> QED
    BY <2>1, Taken
<1>4. CopyForPeer(d, p) \in Seq(S)
  <2>1. CASE group[d].active /\ p \in Members(group[d])
    <3>1. /\ Told(h, torn, revived, group[d], clock) /\ Kept(group[d])
          /\ group[d].rows # NoRows
      BY <1>1, <2>1 DEF Agree, NoGroup, Members, NoRows, NoRow
    <3>2. Meta("create", group[d]) \in S
      BY <1>2, <2>1, <3>1, CopyIsSent DEF Kept, Owned, Changes, Events, Hellos, Inv, ClockInv
    <3> QED
      BY <3>2 DEF CopyForPeer
  <2>2. CASE ~(group[d].active /\ p \in Members(group[d]))
    BY <2>2 DEF CopyForPeer
  <2> QED
    BY <2>1, <2>2
<1>5. net' = queues \/ net' = [queues EXCEPT ![p][d] = @ \o CopyForPeer(d, p)]
  BY DEF HandleHello
<1>6. /\ net' \in [Devices -> [Devices -> Seq(S)]]
      /\ \A q, r \in Devices : net'[q][r] = queues[q][r] \/ (q = p /\ r = d)
  <2>1. queues[p][d] \o CopyForPeer(d, p) \in Seq(S)
    BY <1>3, <1>4
  <2>2. CASE net' = queues
    BY <1>3, <2>2
  <2>3. CASE net' = [queues EXCEPT ![p][d] = @ \o CopyForPeer(d, p)]
    <3>1. PICK answered : answered = queues[p][d] \o CopyForPeer(d, p)
      OBVIOUS
    <3>2. net' = [queues EXCEPT ![p][d] = answered] /\ answered \in Seq(S)
      BY <2>1, <2>3, <3>1
    <3>3. queues \in [Devices -> [Devices -> Seq(S)]]
      BY <1>3
    <3>4. net' \in [Devices -> [Devices -> Seq(S)]]
      BY <3>2, <3>3
    <3>5. \A q, r \in Devices : net'[q][r] = queues[q][r] \/ (q = p /\ r = d)
      BY <3>2, <3>3
    <3> QED
      BY <3>4, <3>5
  <2> QED
    BY <1>5, <2>2, <2>3
<1>7. \A q, r \in Devices : Open(q, r)' = Open(q, r)
  BY DEF Open
<1>8. LinksInv'
  <2>1. Open(p, d)
    BY ReceivedOverLink
  <2>2. \A q, r \in Devices : ~Open(q, r) => net'[q][r] = << >>
    <3>1. ASSUME NEW q \in Devices, NEW r \in Devices, ~Open(q, r)
          PROVE  net'[q][r] = << >>
      <4>1. ~(q = p /\ r = d)
        BY <2>1, <3>1
      <4>2. net'[q][r] = queues[q][r]
        BY <1>6, <4>1
      <4>3. queues[q][r] = << >>
        <5>1. ~(q = d /\ r = p)
          BY <3>1, ReceivedOverLink
        <5> QED
          BY <3>1, <5>1 DEF Inv, LinksInv
      <4> QED
        BY <4>2, <4>3
    <3> QED
      BY <3>1
  <2>3. greeted' \in [Devices -> [Devices -> {"never", "answered", "dropped"}]]
    <3>1. PICK x \in {"answered", "dropped"} : greeted' = [greeted EXCEPT ![d][p] = x]
      BY DEF HandleHello
    <3>2. greeted \in [Devices -> [Devices -> {"never", "answered", "dropped"}]]
      BY DEF Inv, LinksInv
    <3> QED
      BY <3>1, <3>2
  <2> QED
    BY <1>7, <2>2, <2>3 DEF Inv, LinksInv
<1>9. UNCHANGED <<group, settings, announcing, clock, stale, torn, revived, budget>>
  BY DEF HandleHello, dialogs, history
<1> QED
  BY <1>1, <1>2, <1>6, <1>8, <1>9, NetworkStep DEF Inv, ClockInv

\* A copy that arrives is written, whole or by half, if it is newer.
LEMMA MetaInv ==
  ASSUME Inv, NEW d \in Devices, NEW p \in Devices, net[d][p] # << >>,
         NEW m, m = Head(net[d][p]), m.event \notin Hellos,
         net' = [net EXCEPT ![d][p] = Tail(@)], UNCHANGED linked,
         HandleMeta(d, m.event, m.group)
  PROVE  Inv'
<1>1. PICK h \in [Nat -> Groups] : Agree(h)
  BY DEF Inv
<1>2. PICK S : S = Sent(h, torn, revived, clock)
  OBVIOUS
<1>3. m \in S /\ net' \in [Devices -> [Devices -> Seq(S)]]
  <2>1. net \in [Devices -> [Devices -> Seq(S)]]
    BY <1>1, <1>2 DEF Agree
  <2> QED
    BY <2>1, Taken
<1>a. ASSUME NEW q \in Devices, NEW r \in Devices, ~Open(q, r)
      PROVE  net'[q][r] = << >>
  <2>1. ~(q = d /\ r = p)
    BY <1>a, ReceivedOverLink
  <2> QED
    BY <1>a, <2>1 DEF Inv, LinksInv
<1> DEFINE copy == [m.group EXCEPT !.active = m.event # "disband",
                                   !.rows = ReplacedMembers(group[d], m.group)]
<1>4. /\ Owned(m.group) /\ Told(h, torn, revived, m.group, clock)
      /\ m.group.at \notin revived => (h[m.group.at].active <=> m.event # "disband")
  BY <1>2, <1>3 DEF Sent
<1>5. /\ UNCHANGED <<settings, announcing, greeted, clock, stale, revived>>
      /\ \/ UNCHANGED <<group, torn, budget>>
         \/ group' = [group EXCEPT ![d] = copy] /\ UNCHANGED <<torn, budget>>
         \/ WriteHalf(d, copy) /\ Spend(0, 1)
  BY DEF HandleMeta, dialogs
<1>6. /\ Owned(copy) /\ Told(h, torn, revived, copy, clock) /\ copy.at \in 1 .. clock
  <2>1. PICK active : active = (m.event # "disband")
    OBVIOUS
  <2>2. copy = [m.group EXCEPT !.active = active, !.rows = m.group.rows] /\ active \in BOOLEAN
    BY <2>1 DEF ReplacedMembers
  <2> HIDE DEF copy
  <2>3. PICK g : g = m.group
    OBVIOUS
  <2>4. g \in Groups /\ Owned(g)
    BY <1>4, <2>3 DEF Owned
  <2>5. /\ copy \in Groups /\ copy.rows = g.rows /\ copy.active = active
        /\ copy.at = g.at /\ copy.version = g.version /\ copy.text = g.text
    BY <2>2, <2>3, <2>4 DEF Groups
  <2>a. ActiveRows(copy) = ActiveRows(g)
    BY <2>5 DEF ActiveRows
  <2>6. g.at \notin revived => h[g.at].active = active
    <3>1. g.at \in Nat /\ h[g.at].active \in BOOLEAN
      BY <1>4, <2>3 DEF Told, Groups
    <3> QED
      BY <1>4, <2>1, <2>3, <3>1
  <2> QED
    BY <1>4, <2>3, <2>4, <2>5, <2>a, <2>6 DEF Owned, Told, Dated
<1> HIDE DEF copy
<1>7. CASE UNCHANGED <<group, torn, budget>>
  <2>1. LinksInv'
    BY <1>a, <1>5 DEF Inv, LinksInv, Open
  <2> QED
    BY <1>1, <1>2, <1>3, <1>5, <1>7, <2>1, NetworkStep DEF Inv, ClockInv
<1>8. CASE UNCHANGED torn /\ group' = [group EXCEPT ![d] = copy] /\ UNCHANGED budget
  <2>1. LinksInv'
    BY <1>a, <1>5 DEF Inv, LinksInv, Open
  <2>2. /\ group' \in [Devices -> Groups]
        /\ \A q \in Devices : group'[q] = group[q] \/ group'[q] = copy
    BY <1>6, <1>8 DEF Inv, Owned
  <2>3. Kept(copy)
    BY <1>6 DEF Kept, Owned
  <2> QED
    BY <1>1, <1>2, <1>3, <1>5, <1>6, <1>8, <2>1, <2>2, <2>3, NetworkStep DEF Inv, ClockInv
<1>9. CASE WriteHalf(d, copy) /\ Spend(0, 1)
  <2> DEFINE half == [copy EXCEPT !.rows = group[d].rows]
  <2>1. /\ group' = [group EXCEPT ![d] = half] /\ torn' \in {torn, torn \union {copy.at}}
        /\ copy.at \in torn' \/ ActiveRows(copy) = ActiveRows(group[d])
    BY <1>9 DEF WriteHalf
  <2>2. torn \subseteq torn' /\ torn' \subseteq 1 .. clock
    BY <1>6, <2>1 DEF Inv, ClockInv
  <2>3. /\ group[d].rows \in [Devices -> Row]
        /\ OwnedRows(group[d].rows) \/ group[d].rows = NoRows
        /\ Owned(group[d]) => OwnedRows(group[d].rows)
    <3>1. group[d] = NoGroup \/ Kept(group[d])
      BY <1>1 DEF Agree
    <3> QED
      BY <3>1, NoGroupIsAGroup DEF Kept, Owned, Groups
  <2>4. /\ half \in Groups /\ half.rows = group[d].rows /\ half.at = copy.at
        /\ half.version = copy.version /\ half.text = copy.text /\ half.active = copy.active
    BY <1>6, <2>3 DEF Groups, Owned
  <2>a. ActiveRows(half) = ActiveRows(group[d])
    BY <2>4 DEF ActiveRows
  <2> HIDE DEF half
  <2>5. Told(h, torn', revived, half, clock)
    BY <1>6, <2>1, <2>2, <2>4, <2>a DEF Told, Dated
  <2>6. Kept(half) /\ (Owned(group[d]) => Owned(half))
    BY <2>3, <2>4 DEF Kept, Owned
  <2>7. /\ group' \in [Devices -> Groups]
        /\ \A q \in Devices : group'[q] = group[q] \/ (q = d /\ group'[q] = half)
    BY <2>1, <2>4 DEF Inv
  <2>8. LinksInv'
    BY <1>a, <1>5 DEF Inv, LinksInv, Open
  <2>9. net' \in [Devices -> [Devices -> Seq(Sent(h, torn', revived, clock))]]
    <3>1. clock \in Nat /\ clock <= clock /\ revived \subseteq revived
      BY DEF Inv, ClockInv
    <3>2. S \subseteq Sent(h, torn', revived, clock)
      BY <1>2, <2>2, <3>1, ToldLater
    <3> QED
      BY <1>3, <3>2
  <2> QED
    BY <1>1, <1>5, <1>9, <2>2, <2>5, <2>6, <2>7, <2>8, <2>9, NetworkStep
<1> QED
  BY <1>5, <1>7, <1>8, <1>9

LEMMA ReceiveInv ==
  ASSUME Inv, NEW d \in Devices, NEW p \in Devices, Receive(d, p)
  PROVE  Inv'
<1>1. PICK m : m = Head(net[d][p])
  OBVIOUS
<1>2. PICK queues : queues = [net EXCEPT ![d][p] = Tail(@)]
  OBVIOUS
<1>3. /\ net[d][p] # << >> /\ UNCHANGED linked
      /\ \/ HandleHello(d, p, m.event, queues)
         \/ m.event \notin Hellos /\ HandleMeta(d, m.event, m.group) /\ net' = queues
  BY <1>1, <1>2 DEF Receive
<1> QED
  BY <1>1, <1>2, <1>3, HelloInv, MetaInv

LEMMA LinkInv ==
  ASSUME Inv, NEW d \in Devices, NEW p \in Devices, Connect(d, p) \/ Disconnect(d, p)
  PROVE  Inv'
<1>1. PICK h \in [Nat -> Groups] : Agree(h)
  BY DEF Inv
<1> DEFINE S == Sent(h, torn, revived, clock)
<1>2. \A event \in Hellos : Hello(event) \in S
  BY NoGroupIsAGroup DEF Hello, Sent, Events
<1>3. net \in [Devices -> [Devices -> Seq(S)]]
  BY <1>1 DEF Agree
<1> HIDE DEF S
<1>4. /\ <<Hello("hello")>> \in Seq(S) /\ <<Hello("hello_to_dialer")>> \in Seq(S)
      /\ << >> \in Seq(S)
  BY <1>2 DEF Hellos
<1>5. PICK mine \in Seq(S), others \in Seq(S) :
        net' = [net EXCEPT ![d][p] = mine, ![p][d] = others]
  BY <1>4 DEF Connect, Disconnect
<1>6. /\ UNCHANGED <<group, settings, announcing, greeted, clock, stale, torn, revived>>
      /\ d # p
  BY DEF Connect, Disconnect, dialogs, history
<1> DEFINE half == [net EXCEPT ![d][p] = mine]
<1>7. half \in [Devices -> [Devices -> Seq(S)]]
  BY <1>3
<1>8. net' = [half EXCEPT ![p][d] = others]
  BY <1>5
<1> HIDE DEF half
<1>9. net' \in [Devices -> [Devices -> Seq(S)]]
  BY <1>7, <1>8
<1>10. LinksInv'
  <2>1. ASSUME NEW q \in Devices, NEW r \in Devices, {q, r} # {d, p}
        PROVE  net'[q][r] = net[q][r]
    <3>1. ~(q = d /\ r = p) /\ ~(q = p /\ r = d)
      BY <2>1
    <3> QED
      BY <1>3, <1>5, <3>1
  <2>2. CASE Connect(d, p)
    <3>1. linked' = linked \union {{d, p}}
      BY <2>2 DEF Connect
    <3>2. {d, p} \in {{q, r} : q, r \in Devices}
      OBVIOUS
    <3>3. ASSUME NEW q \in Devices, NEW r \in Devices, ~Open(q, r)'
          PROVE  net'[q][r] = << >>
      <4>1. ~Open(q, r) /\ {q, r} # {d, p}
        BY <3>1, <3>3 DEF Open
      <4>2. net'[q][r] = net[q][r]
        BY <2>1, <4>1
      <4> QED
        BY <4>1, <4>2 DEF Inv, LinksInv
    <3>4. linked' \subseteq {{q, r} : q, r \in Devices}
      BY <3>1, <3>2 DEF Inv, LinksInv
    <3> QED
      BY <1>6, <3>3, <3>4 DEF Inv, LinksInv
  <2>3. CASE Disconnect(d, p)
    <3>1. /\ linked' = linked \ {{d, p}}
          /\ net' = [net EXCEPT ![d][p] = << >>, ![p][d] = << >>]
      BY <2>3 DEF Disconnect
    <3>2. net'[d][p] = << >> /\ net'[p][d] = << >>
      BY <1>3, <1>6, <3>1
    <3>3. ASSUME NEW q \in Devices, NEW r \in Devices, ~Open(q, r)'
          PROVE  net'[q][r] = << >>
      <4>1. CASE {q, r} = {d, p}
        <5>1. (q = d /\ r = p) \/ (q = p /\ r = d)
          BY <1>6, <4>1
        <5> QED
          BY <3>2, <5>1
      <4>2. CASE {q, r} # {d, p}
        <5>1. ~Open(q, r)
          BY <3>1, <3>3, <4>2 DEF Open
        <5>2. net'[q][r] = net[q][r]
          BY <2>1, <4>2
        <5> QED
          BY <5>1, <5>2 DEF Inv, LinksInv
      <4> QED
        BY <4>1, <4>2
    <3>4. linked' \subseteq {{q, r} : q, r \in Devices}
      BY <3>1 DEF Inv, LinksInv
    <3> QED
      BY <1>6, <3>3, <3>4 DEF Inv, LinksInv
  <2> QED
    BY <2>2, <2>3
<1>11. budget' = budget \/ Spend(0, 1)
  BY DEF Connect, Disconnect
<1> QED
  BY <1>1, <1>6, <1>9, <1>10, <1>11, NetworkStep DEF S, Inv, ClockInv

LEMMA NextInv ==
  ASSUME Inv, [Next]_vars
  PROVE  Inv'
<1>1. CASE UNCHANGED vars
  <2>1. UNCHANGED <<group, settings, announcing, linked, net, greeted, clock, stale, torn, revived,
                    budget>>
    BY <1>1 DEF vars, dialogs, wire, history
  <2>2. DialogsInv' /\ LinksInv' /\ ClockInv'
    BY <2>1 DEF Inv, DialogsInv, LinksInv, Open, ClockInv
  <2>3. \A h : Agree(h) => Agree(h)'
    BY <2>1 DEF Agree
  <2> QED
    BY <2>1, <2>2, <2>3 DEF Inv
<1>2. CASE Next
  BY <1>2, CreateGroupInv, DisbandGroupInv, SetAdminInv, UnsetAdminInv, AddMembersInv, LeaveGroupInv,
     RemoveMemberInv, AnnounceInv, SaveNameInv, OpenDialogInv, ReceiveInv, LinkInv DEF Next
<1> QED
  BY <1>1, <1>2

LEMMA Invariance == Spec => []Inv
<1>1. Init => Inv
  BY InitInv
<1>2. Inv /\ [Next]_vars => Inv'
  BY NextInv
<1> QED
  BY <1>1, <1>2, PTL DEF Spec

-----------------------------------------------------------------------------
(* The theorems.                                                            *)

\* The copies of the group are typed and no newer than the changes, members have roles, and
\* a lost connection holds no messages.
THEOREM TypeCorrect == Spec => []TypeOK
<1>1. Inv => TypeOK
  <2> SUFFICES ASSUME Inv
               PROVE  TypeOK
    OBVIOUS
  <2>1. PICK h \in [Nat -> Groups] : Agree(h)
    BY DEF Inv
  <2>2. /\ clock \in 0 .. MaxChanges + 1 /\ stale \in BOOLEAN
        /\ torn \union revived \subseteq 1 .. MaxChanges + 1
    BY BoundsAssumption DEF Inv, ClockInv
  <2>3. ASSUME NEW g \in Groups, Dated(g, clock)
        PROVE  g \in Copy
    <3>1. /\ g.version \in 0 .. MaxChanges + 1 /\ g.at \in 0 .. MaxChanges + 1
          /\ g.text \in 0 .. MaxChanges + 1
      BY <2>2, <2>3, BoundsAssumption DEF Dated
    <3> QED
      BY <3>1 DEF Groups, Copy
  <2>4. NoGroup \in Copy
    BY NoGroupIsAGroup, BoundsAssumption DEF NoGroup, Groups, Copy
  <2>5. \A g : Told(h, torn, revived, g, clock) => g \in Copy
    BY <2>3 DEF Told
  <2>6. /\ group \in [Devices -> Copy] /\ settings \in [Devices -> Copy]
        /\ announcing \subseteq Devices
    BY <2>1, <2>3, <2>4, <2>5 DEF Agree, Inv, DialogsInv
  <2>7. ASSUME NEW d \in Devices, NEW p \in Members(group[d])
        PROVE  Role(group[d], p) # "none"
    <3>1. group[d] # NoGroup /\ group[d].rows # NoRows
      BY DEF Members, NoGroup, NoRow, NoRows
    <3> QED
      BY <2>1, <3>1 DEF Agree, Kept, OwnedRows, Members, Role
  <2> DEFINE Typed == [event : Events, group : Copy]
             S == Sent(h, torn, revived, clock)
  <2>8. S \subseteq Typed
    BY <2>4, <2>5 DEF Sent
  <2>9. net \in [Devices -> [Devices -> Seq(S)]]
    BY <2>1 DEF Agree
  <2> HIDE DEF Typed, S
  <2>10. \A d, p \in Devices : net[d][p] \in Seq(Typed)
    BY <2>8, <2>9
  <2>11. ASSUME NEW d \in Devices, NEW p \in Devices
         PROVE  /\ net[d][p] \in Seq([event : Events, group : Copy])
                /\ {d, p} \notin linked => net[d][p] = << >>
    <3>1. net[d][p] \in Seq(Typed)
      BY <2>10
    <3>2. {d, p} \notin linked => net[d][p] = << >>
      BY DEF Inv, LinksInv, Open
    <3> QED
      BY <3>1, <3>2 DEF Typed
  <2>12. /\ linked \subseteq {{d, p} : d, p \in Devices}
         /\ greeted \in [Devices -> [Devices -> {"never", "answered", "dropped"}]]
    BY DEF Inv, LinksInv
  <2>13. \A d \in Devices : \A p \in Members(group[d]) : Role(group[d], p) # "none"
    BY <2>7, Zenon
  <2>14. \A d, p \in Devices : /\ net[d][p] \in Seq([event : Events, group : Copy])
                               /\ {d, p} \notin linked => net[d][p] = << >>
    BY <2>11, Zenon
  <2> QED
    BY <2>2, <2>6, <2>12, <2>13, <2>14, PTL DEF TypeOK
<1> QED
  BY <1>1, Invariance, PTL

\* Copies with the same version and time are the same group on all devices, since a time
\* belongs to one change and whatever goes out later of it is a copy of what it made.  The
\* members differ only if a device has stopped before it wrote them, and only for an
\* announcement saved after a disband do the devices disagree on whether the group is active.
THEOREM SameStampIsSameGroup == Spec => []SameStampSameGroup
<1>1. Inv => SameStampSameGroup
  <2> SUFFICES ASSUME Inv, NEW d \in Devices, NEW p \in Devices, Stamp(d) = Stamp(p),
                      group[d].version > 0
               PROVE  /\ group[d].text = group[p].text
                      /\ group[d].at \notin torn => ActiveRows(group[d]) = ActiveRows(group[p])
                      /\ group[d].at \notin revived => group[d].active = group[p].active
    BY DEF SameStampSameGroup
  <2>1. PICK h \in [Nat -> Groups] : Agree(h)
    BY DEF Inv
  <2>2. group[d].at = group[p].at /\ group[p].version > 0
    BY DEF Stamp
  <2>3. group[d] # NoGroup /\ group[p] # NoGroup
    BY <2>2 DEF NoGroup
  <2>4. /\ Told(h, torn, revived, group[d], clock)
        /\ Told(h, torn, revived, group[p], clock)
    BY <2>1, <2>3 DEF Agree
  <2> QED
    BY <2>2, <2>4 DEF Told
<1> QED
  BY <1>1, Invariance, PTL

\* Whoever changes what at the same time, whichever copies are lost or late and wherever a
\* write stops, a group that has members has its owner and no other.
THEOREM OwnerAlwaysStays == Spec => []OwnerStays
<1>1. Inv => OwnerStays
  <2> SUFFICES ASSUME Inv, NEW d \in Devices, Members(group[d]) # {}
               PROVE  {p \in Members(group[d]) : Role(group[d], p) = "owner"} = {Owner}
    BY DEF OwnerStays
  <2>1. group[d] # NoGroup /\ group[d].rows # NoRows
    BY DEF Members, NoGroup, NoRow, NoRows
  <2>2. OwnedRows(group[d].rows)
    BY <2>1 DEF Inv, Agree, Kept
  <2> QED
    BY <2>2, OwnerIsADevice DEF OwnedRows, Members, Role
<1> QED
  BY <1>1, Invariance, PTL
=============================================================================
