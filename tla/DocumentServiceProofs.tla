------------------------- MODULE DocumentServiceProofs -------------------------
(***************************************************************************)
(* Proofs about the shared files of the service, for every number of files,*)
(* versions, edits, faults and restarts.                                   *)
(***************************************************************************)
EXTENDS DocumentService, FiniteSetTheorems, TLAPS

-----------------------------------------------------------------------------
(* One state of the tables: what the connection reads, or what is durable.  *)

Rows ==
  [file : [id : FileIds \union {0}, current : VersionIds \union {0}],
   versions : SUBSET Versions,
   tokens : SUBSET VersionIds]

NumbersOf(rows, f) == {v.number : v \in VersionsOf(rows, f)}

\* The row that a file names is its latest one.
HasCurrent(rows) ==
  /\ rows.file.id = 0 <=> rows.file.current = 0
  /\ rows.file.id # 0 =>
       \E v \in VersionsOf(rows, rows.file.id) :
         /\ v.id = rows.file.current
         /\ \A w \in VersionsOf(rows, rows.file.id) : w.id <= v.id

\* VersionNumbersAscend in inductive form: no Cardinality.
Numbered(rows) ==
  /\ \A f \in FileIds : \E m \in Nat : NumbersOf(rows, f) = 1 .. m
  /\ \A v, w \in rows.versions :
       v.file = w.file /\ v.id < w.id => v.number < w.number \/ w.number = 1

\* The first n keys of file_versions were given to rows; a key names one row.
Keyed(rows, n) ==
  /\ \A v \in rows.versions : v.id <= n /\ v.number <= v.id
  /\ \A v, w \in rows.versions : v.id = w.id => v = w

Good(rows, n) == rows \in Rows /\ HasCurrent(rows) /\ Numbered(rows) /\ Keyed(rows, n)

LEMMA Bounds ==
  /\ \A f : f \in FileIds <=> f \in Nat /\ 1 <= f /\ f <= MaxFiles
  /\ \A v : v \in VersionIds <=> v \in Nat /\ 1 <= v /\ v <= MaxVersions
BY BoundsAssumption DEF FileIds, VersionIds

LEMMA MaxOfInterval ==
  ASSUME NEW m \in Nat
  PROVE  Max((1 .. m) \union {0}) = m
<1> DEFINE S == (1 .. m) \union {0}
<1>1. m \in S /\ \A y \in S : m >= y
  OBVIOUS
<1>2. \A x \in S : (\A y \in S : x >= y) => x = m
  BY <1>1
<1> QED
  BY <1>1, <1>2 DEF Max

\* The first tables.
LEMMA GoodAtFirst == Good(NoRows, 0)
<1>1. NoRows \in Rows
  BY DEF NoRows, NoFile, Rows
<1>2. HasCurrent(NoRows) /\ Keyed(NoRows, 0)
  BY DEF NoRows, NoFile, HasCurrent, Keyed
<1>3. \A f \in FileIds : NumbersOf(NoRows, f) = 1 .. 0
  BY DEF NoRows, NumbersOf, VersionsOf
<1>4. Numbered(NoRows)
  BY <1>3 DEF Numbered, NoRows
<1> QED
  BY <1>1, <1>2, <1>4 DEF Good

LEMMA GoodLater ==
  ASSUME NEW rows, NEW n \in Nat, NEW m \in Nat, n <= m, Good(rows, n)
  PROVE  Good(rows, m)
<1>1. \A v \in rows.versions : v.id \in Nat
  BY Bounds DEF Good, Rows, Versions
<1> QED
  BY <1>1 DEF Good, Keyed

\* Tokens come and go without a change of the other tables.
LEMMA GoodTokens ==
  ASSUME NEW rows, NEW n, Good(rows, n), NEW T \in SUBSET VersionIds
  PROVE  Good([rows EXCEPT !.tokens = T], n)
<1> DEFINE new == [rows EXCEPT !.tokens = T]
<1>1. /\ new \in Rows
      /\ new.versions = rows.versions /\ new.file = rows.file
  BY DEF Good, Rows
<1> HIDE DEF new
<1>2. \A f : VersionsOf(new, f) = VersionsOf(rows, f) /\ NumbersOf(new, f) = NumbersOf(rows, f)
  BY <1>1 DEF VersionsOf, NumbersOf
<1>3. HasCurrent(new) /\ Numbered(new) /\ Keyed(new, n)
  BY <1>1, <1>2 DEF Good, HasCurrent, Numbered, Keyed
<1>4. Good(new, n)
  BY <1>1, <1>3 DEF Good
<1> QED
  BY <1>4 DEF new

\* deleteFileAndVersions takes the file and all of its versions.
LEMMA GoodWithoutFile ==
  ASSUME NEW rows, NEW n, Good(rows, n), NEW f
  PROVE  Good([rows EXCEPT !.file = NoFile, !.versions = @ \ VersionsOf(rows, f)], n)
<1> DEFINE new == [rows EXCEPT !.file = NoFile, !.versions = @ \ VersionsOf(rows, f)]
<1>1. /\ new \in Rows /\ new.file = NoFile
      /\ new.versions = {v \in rows.versions : v.file # f}
  BY DEF Good, Rows, NoFile, VersionsOf
<1> HIDE DEF new
<1>2. HasCurrent(new) /\ Keyed(new, n)
  BY <1>1 DEF Good, HasCurrent, Keyed, NoFile
<1>3. ASSUME NEW g \in FileIds PROVE \E m \in Nat : NumbersOf(new, g) = 1 .. m
  <2>1. CASE g = f
    <3>1. NumbersOf(new, g) = 1 .. 0
      BY <1>1, <2>1 DEF NumbersOf, VersionsOf
    <3> QED
      BY <3>1
  <2>2. CASE g # f
    <3>1. VersionsOf(new, g) = VersionsOf(rows, g)
      BY <1>1, <2>2 DEF VersionsOf
    <3> QED
      BY <3>1 DEF NumbersOf, Good, Numbered
  <2> QED
    BY <2>1, <2>2
<1>4. Numbered(new)
  BY <1>1, <1>3 DEF Good, Numbered
<1>5. Good(new, n)
  BY <1>1, <1>2, <1>4 DEF Good
<1> QED
  BY <1>5 DEF new

\* insertVersion with the next key and the next number of its file, or 1, and what the
\* request makes of the row in files.
LEMMA GoodWithRow ==
  ASSUME NEW rows, NEW n \in Nat, Good(rows, n), n < MaxVersions,
         NEW v, NEW m \in Nat,
         v = [id |-> n + 1, file |-> v.file, number |-> v.number,
              content |-> v.content, key |-> v.key],
         v.number \in {m + 1, 1},
         v.file \in FileIds, v.content \in Contents, v.key \in VersionIds \union {0},
         NumbersOf(rows, v.file) = 1 .. m,
         NEW file,
         \/ file = rows.file /\ rows.file.id # v.file
         \/ file = [id |-> v.file, current |-> v.id]
  PROVE  Good([rows EXCEPT !.versions = @ \union {v}, !.file = file], n + 1)
<1> DEFINE new == [rows EXCEPT !.versions = @ \union {v}, !.file = file]
<1>1. n + 1 \in VersionIds
  BY Bounds, BoundsAssumption
<1>2. m <= n
  <2>1. CASE m = 0
    BY <2>1
  <2>2. CASE m # 0
    <3>1. m \in NumbersOf(rows, v.file)
      BY <2>2
    <3>2. PICK w \in rows.versions : w.number = m
      BY <3>1 DEF NumbersOf, VersionsOf
    <3>3. w.number <= w.id /\ w.id <= n /\ w.id \in Nat /\ w.number \in Nat
      BY Bounds DEF Good, Keyed, Rows, Versions
    <3> QED
      BY <3>2, <3>3
  <2> QED
    BY <2>1, <2>2
<1>3. v.id = n + 1 /\ v.number \in {m + 1, 1}
  OBVIOUS
<1>4. v \in Versions
  BY <1>1, <1>2, Bounds, BoundsAssumption DEF Versions
<1>5. /\ rows.versions \subseteq Versions
      /\ \A w \in rows.versions : w.id \in Nat /\ w.number \in Nat /\ w.id <= n
      /\ rows.file.id \in FileIds \union {0}
  BY Bounds DEF Good, Rows, Versions, Keyed
<1>6. new \in Rows /\ new.file = file /\ new.versions = rows.versions \union {v}
  <2>1. file \in [id : FileIds \union {0}, current : VersionIds \union {0}]
    BY <1>1, <1>3 DEF Good, Rows
  <2>2. rows \in Rows /\ rows.versions \union {v} \in SUBSET Versions
    BY <1>4, <1>5 DEF Good
  <2> QED
    BY <2>1, <2>2 DEF Rows
<1> HIDE DEF new
<1>7. \A g : VersionsOf(new, g) = IF g = v.file THEN VersionsOf(rows, g) \union {v}
                                               ELSE VersionsOf(rows, g)
  BY <1>6 DEF VersionsOf
<1>8. \A w \in VersionsOf(rows, v.file) : w.number \in 1 .. m
  BY DEF NumbersOf
<1>9. HasCurrent(new)
  <2>1. CASE file = rows.file /\ rows.file.id # v.file
    BY <2>1, <1>6, <1>7 DEF Good, HasCurrent
  <2>2. CASE file = [id |-> v.file, current |-> v.id]
    <3>1. v.file # 0 /\ v.id # 0
      BY <1>1, <1>3, Bounds
    <3>2. v \in VersionsOf(new, v.file)
      BY <1>7
    <3>3. \A w \in VersionsOf(new, v.file) : w.id <= v.id
      <4>1. \A w \in rows.versions : w.id <= v.id
        BY <1>3, <1>5
      <4>2. v.id <= v.id
        BY <1>3
      <4> QED
        BY <1>6, <4>1, <4>2 DEF VersionsOf
    <3> QED
      BY <1>6, <2>2, <3>1, <3>2, <3>3 DEF HasCurrent
  <2> QED
    BY <2>1, <2>2
<1>10. ASSUME NEW g \in FileIds PROVE \E k \in Nat : NumbersOf(new, g) = 1 .. k
  <2>1. CASE g = v.file
    <3>1. NumbersOf(new, g) = NumbersOf(rows, g) \union {v.number}
      BY <1>7, <2>1 DEF NumbersOf
    <3>2. \/ NumbersOf(new, g) = 1 .. (m + 1)
          \/ NumbersOf(new, g) = 1 .. m
      BY <1>3, <2>1, <3>1
    <3> QED
      BY <3>2
  <2>2. CASE g # v.file
    BY <1>7, <2>2 DEF NumbersOf, Good, Numbered
  <2> QED
    BY <2>1, <2>2
<1>11. \A w \in rows.versions : w.file = v.file => w.number < m + 1 /\ w.id < v.id
  BY <1>3, <1>5, <1>8 DEF VersionsOf
<1>12. Numbered(new)
  <2>1. ASSUME NEW u \in new.versions, NEW w \in new.versions, u.file = w.file, u.id < w.id
        PROVE  u.number < w.number \/ w.number = 1
    <3>1. CASE u \in rows.versions /\ w \in rows.versions
      BY <2>1, <3>1 DEF Good, Numbered
    <3>2. CASE w = v
      <4>1. u \in rows.versions
        BY <1>3, <1>6, <2>1, <3>2
      <4> QED
        BY <1>3, <1>11, <2>1, <3>2, <4>1
    <3>3. CASE u = v /\ w \in rows.versions
      BY <1>3, <1>5, <2>1, <3>3
    <3> QED
      BY <1>6, <3>1, <3>2, <3>3
  <2> QED
    BY <1>10, <2>1 DEF Numbered
<1>13. Keyed(new, n + 1)
  BY <1>2, <1>3, <1>5, <1>6 DEF Good, Keyed
<1>14. Good(new, n + 1)
  BY <1>6, <1>9, <1>12, <1>13 DEF Good
<1> QED
  BY <1>14 DEF new

-----------------------------------------------------------------------------
(* The connection, the storage directory and the answered uploads.          *)

Counts ==
  [files : Nat, versions : Nat, edits : Nat, faults : Nat, restarts : Nat]

DatabaseInv ==
  /\ db \in [now : Rows, durable : Rows, open : BOOLEAN]
  /\ used \in Counts
  /\ used.versions <= MaxVersions /\ used.edits <= MaxEdits
  /\ Good(db.now, used.versions) /\ Good(db.durable, used.versions)
  /\ ~db.open => db.now = db.durable
  /\ disk \subseteq VersionIds
  /\ RowsHaveBytes
  /\ promised \subseteq IdsIn(db.now)
  /\ UploadsAreDurable

\* Each step ends in rows that it made, in one of the ways a transaction ends.
LEMMA DatabaseStep ==
  ASSUME DatabaseInv,
         used' \in Counts,
         used.versions <= used'.versions,
         used'.versions <= MaxVersions, used'.edits <= MaxEdits,
         NEW rows, Good(rows, used'.versions),
         disk' \subseteq VersionIds,
         IdsIn(rows) \subseteq disk', promised' \subseteq IdsIn(rows),
         \/ db' = Committed(rows)
         \/ /\ IdsIn(db.durable) \subseteq disk' /\ promised' \subseteq promised
            /\ db' \in FailedCommits(rows) \union {Written(rows)}
  PROVE  DatabaseInv'
<1>1. Good(db.durable, used'.versions)
  BY GoodLater DEF DatabaseInv, Counts
<1>2. rows \in Rows /\ db.durable \in Rows
  BY DEF Good, DatabaseInv
<1>3. CASE db' = Committed(rows)
  BY <1>1, <1>2, <1>3
  DEF DatabaseInv, Committed, RowsHaveBytes, Databases, UploadsAreDurable, IdsIn
<1>4. CASE /\ IdsIn(db.durable) \subseteq disk' /\ promised' \subseteq promised
           /\ db' \in FailedCommits(rows) \union {Written(rows)}
  <2>1. promised' \subseteq IdsIn(db.durable)
    BY <1>4 DEF DatabaseInv, UploadsAreDurable
  <2>2. CASE db' = RolledBack
    BY <1>1, <1>2, <1>4, <2>1, <2>2
    DEF DatabaseInv, RolledBack, Committed, RowsHaveBytes, Databases, UploadsAreDurable, IdsIn
  <2>3. CASE db' = [db EXCEPT !.now = rows, !.open = TRUE]
    BY <1>1, <1>2, <1>4, <2>1, <2>3
    DEF DatabaseInv, RowsHaveBytes, Databases, UploadsAreDurable, IdsIn
  <2>4. CASE db' = Written(rows)
    <3>1. CASE db.open
      BY <1>1, <1>2, <1>4, <2>1, <2>4, <3>1
      DEF DatabaseInv, Written, RowsHaveBytes, Databases, UploadsAreDurable, IdsIn
    <3>2. CASE ~db.open
      BY <1>1, <1>2, <1>4, <2>1, <2>4, <3>2
      DEF DatabaseInv, Written, RowsHaveBytes, Databases, UploadsAreDurable, IdsIn
    <3> QED
      BY <3>1, <3>2
  <2> QED
    BY <1>4, <2>2, <2>3, <2>4 DEF FailedCommits
<1> QED
  BY <1>3, <1>4

\* The next number of a file, in the form that GoodWithRow asks for.
LEMMA NextNumber ==
  ASSUME DatabaseInv, NEW f \in FileIds
  PROVE  \E m \in Nat : NumbersOf(db.now, f) = 1 .. m /\ NextVersionNumbers(f) = {m + 1, 1}
<1>1. PICK m \in Nat : NumbersOf(db.now, f) = 1 .. m
  BY DEF DatabaseInv, Good, Numbered
<1>2. NextVersionNumbers(f) = {Max((1 .. m) \union {0}) + 1, 1}
  BY <1>1 DEF NextVersionNumbers, NumbersOf
<1> QED
  BY <1>1, <1>2, MaxOfInterval

\* A row for the next version of a file, inserted by WithVersion or by WithUpload.
LEMMA NextRow ==
  ASSUME DatabaseInv, used.versions < MaxVersions,
         NEW f \in FileIds, NEW content \in Contents, NEW key \in VersionIds \union {0},
         NEW number \in NextVersionNumbers(f),
         NEW v, v = Version(f, number, content, key),
         NEW rows, rows \in {WithVersion(v), WithUpload(v)}
  PROVE  /\ Good(rows, used.versions + 1)
         /\ IdsIn(rows) = IdsIn(db.now) \union {v.id}
         /\ v.id = used.versions + 1 /\ v.id \in VersionIds
         /\ v.file = f
<1>1. PICK m \in Nat : NumbersOf(db.now, f) = 1 .. m /\ number \in {m + 1, 1}
  BY NextNumber
<1>2. /\ v = [id |-> used.versions + 1, file |-> v.file, number |-> v.number,
              content |-> v.content, key |-> v.key]
      /\ v.number \in {m + 1, 1}
      /\ v.file = f /\ v.id = used.versions + 1
      /\ v.content = content /\ v.key = key
  BY <1>1 DEF Version
<1>3. used.versions \in Nat /\ db.now \in Rows /\ Good(db.now, used.versions)
  BY DEF DatabaseInv, Counts
<1>4. v.id \in VersionIds
  BY <1>2, <1>3, Bounds, BoundsAssumption
<1>5. \E file :
        /\ rows = [db.now EXCEPT !.versions = @ \union {v}, !.file = file]
        /\ \/ file = db.now.file /\ db.now.file.id # v.file
           \/ file = [id |-> v.file, current |-> v.id]
  <2>1. CASE rows = WithVersion(v)
    <3>1. CASE db.now.file.id = v.file
      <4>1. [db.now.file EXCEPT !.current = v.id] = [id |-> v.file, current |-> v.id]
        BY <1>3, <3>1 DEF Rows
      <4>2. rows = [db.now EXCEPT !.versions = @ \union {v},
                                  !.file = [id |-> v.file, current |-> v.id]]
        BY <2>1, <3>1, <4>1 DEF WithVersion
      <4> QED
        BY <4>2
    <3>2. CASE db.now.file.id # v.file
      <4>1. rows = [db.now EXCEPT !.versions = @ \union {v}, !.file = db.now.file]
        BY <2>1, <3>2 DEF WithVersion
      <4> QED
        BY <4>1, <3>2
    <3> QED
      BY <3>1, <3>2
  <2>2. CASE rows = WithUpload(v)
    BY <2>2 DEF WithUpload
  <2> QED
    BY <2>1, <2>2
<1>6. PICK file :
        /\ rows = [db.now EXCEPT !.versions = @ \union {v}, !.file = file]
        /\ \/ file = db.now.file /\ db.now.file.id # v.file
           \/ file = [id |-> v.file, current |-> v.id]
  BY <1>5
<1>7. Good(rows, used.versions + 1)
  <2>1. v.file \in FileIds /\ v.content \in Contents /\ v.key \in VersionIds \union {0}
    BY <1>2
  <2>2. NumbersOf(db.now, v.file) = 1 .. m
    BY <1>1, <1>2
  <2>3. /\ v = [id |-> used.versions + 1, file |-> v.file, number |-> v.number,
                content |-> v.content, key |-> v.key]
        /\ v.number \in {m + 1, 1}
    BY <1>2
  <2>4. Good([db.now EXCEPT !.versions = @ \union {v}, !.file = file], used.versions + 1)
    BY <1>3, <1>6, <2>1, <2>2, <2>3, GoodWithRow, Zenon
  <2> QED
    BY <1>6, <2>4
<1>8. rows.versions = db.now.versions \union {v}
  BY <1>3, <1>6 DEF Rows
<1> QED
  BY <1>2, <1>4, <1>7, <1>8 DEF IdsIn

\* A step that leaves the tables alone, or drops an open transaction.
LEMMA DatabaseKept ==
  ASSUME DatabaseInv,
         used' \in Counts,
         used'.versions = used.versions, used'.edits <= MaxEdits,
         db' \in {db, RolledBack}, UNCHANGED <<disk, promised>>
  PROVE  DatabaseInv'
<1>1. CASE db' = db
  BY <1>1 DEF DatabaseInv, RowsHaveBytes, Databases, UploadsAreDurable, IdsIn
<1>2. CASE db' = RolledBack
  BY <1>2
  DEF DatabaseInv, RolledBack, Committed, RowsHaveBytes, Databases, UploadsAreDurable, IdsIn
<1> QED
  BY <1>1, <1>2

-----------------------------------------------------------------------------
(* The editing sessions and the callbacks that download.                    *)

Sessions ==
  [state : {"none", "editing", "closing", "closed"}, file : FileIds \union {0},
   content : Contents]
Calls == [key : VersionIds, status : {2, 6}, content : Contents, file : FileIds]

SessionInv ==
  /\ session \in [VersionIds -> Sessions]
  /\ \A k \in VersionIds : session[k].state # "none" => session[k].file \in FileIds
  /\ calls \in Seq(Calls)
  /\ \A i \in DOMAIN calls :
       LET s == session[calls[i].key]
       IN s.state # "none" /\ s.content # 0 /\ s.file = calls[i].file
  /\ \A i, j \in DOMAIN calls : calls[i].file = calls[j].file => i = j
  /\ stuck \in BOOLEAN

Inv == DatabaseInv /\ SessionInv

LEMMA SessionKept ==
  ASSUME SessionInv, UNCHANGED <<session, calls, stuck>>
  PROVE  SessionInv'
BY DEF SessionInv

LEMMA CallsTyped ==
  ASSUME SessionInv, NEW i \in DOMAIN calls
  PROVE  calls[i] \in Calls /\ calls[i].key \in VersionIds /\ calls[i].file \in FileIds
<1>1. calls \in Seq(Calls)
  BY DEF SessionInv
<1>2. calls[i] \in Calls
  BY <1>1
<1> QED
  BY <1>2 DEF Calls

\* The innermost callback and the ones that wait for it.
LEMMA Innermost ==
  ASSUME SessionInv, calls # << >>
  PROVE  /\ Last(calls) \in Calls /\ Front(calls) \in Seq(Calls)
         /\ Len(calls) \in DOMAIN calls /\ Last(calls) = calls[Len(calls)]
         /\ DOMAIN Front(calls) = DOMAIN calls \ {Len(calls)}
         /\ \A i \in DOMAIN Front(calls) : Front(calls)[i] = calls[i]
BY DEF SessionInv, Last, Front

\* A session goes from one state to another; a callback that is answered leaves the
\* stack.
LEMMA SessionMoves ==
  ASSUME SessionInv, NEW k \in VersionIds, session[k].state # "none",
         NEW state \in {"editing", "closing", "closed"},
         session' = [session EXCEPT ![k].state = state],
         UNCHANGED stuck,
         \/ calls' = calls
         \/ calls # << >> /\ calls' = Front(calls)
  PROVE  SessionInv'
<1>1. /\ session' \in [VersionIds -> Sessions]
      /\ \A j \in VersionIds :
           /\ session'[j].content = session[j].content
           /\ session'[j].file = session[j].file
           /\ session[j].state # "none" <=> session'[j].state # "none"
  BY DEF SessionInv, Sessions
<1>2. /\ calls' \in Seq(Calls) /\ DOMAIN calls' \subseteq DOMAIN calls
      /\ \A i \in DOMAIN calls' : calls'[i] = calls[i]
  BY Innermost DEF SessionInv
<1>3. \A i \in DOMAIN calls : calls[i].key \in VersionIds
  BY CallsTyped
<1> QED
  BY <1>1, <1>2, <1>3 DEF SessionInv

-----------------------------------------------------------------------------
(* Every step keeps the invariant.                                          *)

LEMMA InitInv ==
  ASSUME Init
  PROVE  Inv
<1>1. Good(NoRows, 0) /\ NoRows \in Rows
  BY GoodAtFirst DEF Good
<1>2. DatabaseInv
  BY <1>1, BoundsAssumption
  DEF Init, DatabaseInv, Counts, RowsHaveBytes, UploadsAreDurable, Databases, IdsIn, NoRows
<1>3. SessionInv
  <2>1. NoSession \in Sessions
    BY BoundsAssumption DEF NoSession, Sessions, Contents
  <2>2. session = [k \in VersionIds |-> NoSession] /\ calls = << >> /\ stuck = FALSE
    BY DEF Init
  <2>3. calls \in Seq(Calls) /\ DOMAIN calls = {}
    BY <2>2
  <2> QED
    BY <2>1, <2>2, <2>3 DEF SessionInv, NoSession
<1> QED
  BY <1>2, <1>3 DEF Inv

\* used' in the steps that count something.
LEMMA UseTyped ==
  ASSUME DatabaseInv
  PROVE  /\ Use("faults") \in Counts
         /\ Use("faults").versions = used.versions /\ Use("faults").edits = used.edits
         /\ Use("restarts") \in Counts
         /\ Use("restarts").versions = used.versions /\ Use("restarts").edits = used.edits
         /\ Use("versions") \in Counts
         /\ Use("versions").versions = used.versions + 1 /\ Use("versions").edits = used.edits
<1>1. used \in Counts
  BY DEF DatabaseInv
<1>2. /\ Use("faults") = [used EXCEPT !.faults = @ + 1]
      /\ Use("restarts") = [used EXCEPT !.restarts = @ + 1]
      /\ Use("versions") = [used EXCEPT !.versions = @ + 1]
  BY DEF Use
<1> QED
  BY <1>1, <1>2 DEF Counts

\* The steps of Upload, WopiPut and FinishSave with the number that they took.
UploadWith(number) ==
  LET v == Version(Uploaded, number, 0, 0)
  IN \/ db' = RolledBack /\ UNCHANGED <<disk, promised, used>>
     \/ /\ ~db.open
        /\ db' = Committed(WithUpload(v))
        /\ disk' = disk \union {v.id}
        /\ promised' = promised \union {v.id}
        /\ used' = [used EXCEPT !.versions = v.id, !.files = Max({@, v.file})]
     \/ UploadFails(v)

WopiPutWith(number) ==
  LET v == Version(db.now.file.id, number, 0, 0)
  IN /\ db' = Committed(WithVersion(v)) \/ db' \in FailedCommits(WithVersion(v))
     /\ used' \in {Use("versions"), [Use("versions") EXCEPT !.faults = @ + 1]}
     /\ disk' = disk \union {v.id}

FinishSaveWith(number) ==
  LET call == Last(calls)
      v == Version(call.file, number, call.content, call.key)
  IN \/ used' = Use("faults") /\ db' \in {db, RolledBack} /\ UNCHANGED <<disk, session>>
     \/ /\ used.versions < MaxVersions
        /\ disk' = disk \union {v.id}
        /\ session' = Answered(call)
        /\ db' = Committed(WithVersion(v)) \/ db' \in FailedCommits(WithVersion(v))
        /\ used' \in {Use("versions"), [Use("versions") EXCEPT !.faults = @ + 1]}

LEMMA UploadInv ==
  ASSUME Inv, Upload
  PROVE  Inv'
<1>0. PICK number \in NextVersionNumbers(Uploaded) : UploadWith(number)
  BY DEF Upload, UploadWith
<1> DEFINE v == Version(Uploaded, number, 0, 0)
<1>1. SessionInv'
  BY SessionKept DEF Inv, SessionInv, Upload
<1> SUFFICES DatabaseInv'
  BY <1>1 DEF Inv
<1>2. Uploaded \in FileIds
  <2>1. db.now.file.id \in FileIds \union {0} /\ used.files \in Nat
    BY DEF Inv, DatabaseInv, Rows, Counts
  <2> QED
    BY <2>1, Bounds DEF Uploaded, FileExists, Upload
<1>3. 0 \in Contents /\ 0 \in VersionIds \union {0}
  BY BoundsAssumption DEF Contents
<1>4. /\ Good(WithUpload(v), used.versions + 1)
      /\ IdsIn(WithUpload(v)) = IdsIn(db.now) \union {v.id}
      /\ v.id = used.versions + 1 /\ v.id \in VersionIds
      /\ v.file = Uploaded
  BY <1>2, <1>3, NextRow DEF Inv, Upload
<1>5. CASE db' = RolledBack /\ UNCHANGED <<disk, promised, used>>
  BY <1>5, DatabaseKept DEF Inv, DatabaseInv
<1>6. CASE UploadFails(v)
  BY <1>6, DatabaseKept, UseTyped DEF Inv, DatabaseInv, UploadFails
<1>7. CASE /\ ~db.open
           /\ db' = Committed(WithUpload(v))
           /\ disk' = disk \union {v.id}
           /\ promised' = promised \union {v.id}
           /\ used' = [used EXCEPT !.versions = v.id, !.files = Max({@, v.file})]
  <2>1. Max({used.files, v.file}) \in Nat
    <3>1. used.files \in Nat /\ v.file \in Nat
      BY <1>2, <1>4, Bounds DEF Inv, DatabaseInv, Counts
    <3>2. \E x \in {used.files, v.file} : \A y \in {used.files, v.file} : x >= y
      BY <3>1
    <3> QED
      BY <3>1, <3>2 DEF Max
  <2>2. /\ used' \in Counts
        /\ used'.versions = used.versions + 1 /\ used'.edits = used.edits
    <3>1. used \in Counts /\ v.id \in Nat /\ v.id = used.versions + 1
      BY <1>4, Bounds DEF Inv, DatabaseInv
    <3>2. used' = [used EXCEPT !.versions = v.id, !.files = Max({used.files, v.file})]
      BY <1>7
    <3> HIDE DEF v
    <3> QED
      BY <2>1, <3>1, <3>2 DEF Counts
  <2>3. used.versions \in Nat /\ used.versions < MaxVersions /\ used.edits <= MaxEdits
    BY DEF Inv, DatabaseInv, Counts, Upload
  <2>4. /\ IdsIn(WithUpload(v)) \subseteq disk' /\ promised' \subseteq IdsIn(WithUpload(v))
        /\ disk' \subseteq VersionIds
    BY <1>4, <1>7 DEF Inv, DatabaseInv, RowsHaveBytes, Databases
  <2> HIDE DEF v
  <2> QED
    BY <1>4, <1>7, <2>2, <2>3, <2>4, DatabaseStep, BoundsAssumption DEF Inv
<1> QED
  BY <1>0, <1>5, <1>6, <1>7 DEF UploadWith

LEMMA DeleteFileInv ==
  ASSUME Inv, DeleteFile
  PROVE  Inv'
<1> DEFINE f == db.now.file.id
           ids == {v.id : v \in VersionsOf(db.now, f)}
           rows == [db.now EXCEPT !.file = NoFile, !.versions = @ \ VersionsOf(db.now, f)]
<1>1. SessionInv'
  BY SessionKept DEF Inv, SessionInv, DeleteFile
<1> SUFFICES DatabaseInv'
  BY <1>1 DEF Inv
<1>2. Good(rows, used.versions) /\ db.now \in Rows
  BY GoodWithoutFile DEF Inv, DatabaseInv
<1>3. rows.versions = db.now.versions \ VersionsOf(db.now, f)
  BY <1>2 DEF Rows
<1>4. promised' = promised \ ids
  BY DEF DeleteFile
<1>5. /\ \A v, w \in db.now.versions : v.id = w.id => v = w
      /\ IdsIn(db.now) \subseteq disk /\ IdsIn(db.durable) \subseteq disk
      /\ disk \subseteq VersionIds /\ promised \subseteq IdsIn(db.now)
  BY DEF Inv, DatabaseInv, Good, Keyed, RowsHaveBytes, Databases
<1> HIDE DEF rows
<1>6. IdsIn(rows) = IdsIn(db.now) \ ids
  BY <1>3, <1>5 DEF IdsIn, VersionsOf
<1>7. IdsIn(rows) \subseteq disk \ ids /\ promised' \subseteq IdsIn(rows) /\ promised' \subseteq promised
  BY <1>4, <1>5, <1>6
<1>8. CASE db' = Committed(rows) /\ disk' = disk \ ids /\ UNCHANGED used
  <2>1. used' \in Counts /\ used' = used /\ used.versions <= used'.versions
    BY <1>8 DEF Inv, DatabaseInv, Counts
  <2> QED
    BY <1>2, <1>5, <1>7, <1>8, <2>1, DatabaseStep DEF Inv, DatabaseInv
<1>9. CASE used' = Use("faults") /\ db' \in FailedCommits(rows) /\ UNCHANGED disk
  <2>1. /\ used' \in Counts /\ used.versions <= used'.versions
        /\ used'.versions = used.versions /\ used'.edits = used.edits
    BY <1>9, UseTyped DEF Inv, DatabaseInv, Counts
  <2> QED
    BY <1>2, <1>5, <1>7, <1>9, <2>1, DatabaseStep DEF Inv, DatabaseInv
<1> QED
  BY <1>8, <1>9 DEF DeleteFile, rows

LEMMA CleanupInv ==
  ASSUME Inv, Cleanup
  PROVE  Inv'
<1>1. SessionInv'
  BY SessionKept DEF Inv, SessionInv, Cleanup
<1>2. PICK T \in SUBSET db.now.tokens : db' = Written([db.now EXCEPT !.tokens = T])
  BY DEF Cleanup, Cleaned
<1>3. db.now \in Rows /\ T \in SUBSET VersionIds
  BY DEF Inv, DatabaseInv, Rows
<1> DEFINE rows == [db.now EXCEPT !.tokens = T]
<1>4. Good(rows, used.versions) /\ rows.versions = db.now.versions
  BY <1>3, GoodTokens DEF Inv, DatabaseInv, Rows
<1> HIDE DEF rows
<1>5. IdsIn(rows) = IdsIn(db.now)
  BY <1>4 DEF IdsIn
<1>6. /\ UNCHANGED <<disk, promised, used>>
      /\ used \in Counts /\ used.versions <= used.versions
      /\ used.versions <= MaxVersions /\ used.edits <= MaxEdits
      /\ disk \subseteq VersionIds /\ promised \subseteq IdsIn(db.now)
      /\ IdsIn(db.now) \subseteq disk /\ IdsIn(db.durable) \subseteq disk
  BY DEF Inv, DatabaseInv, Counts, RowsHaveBytes, Databases, Cleanup
<1>7. db' = Written(rows)
  BY <1>2 DEF rows
<1>8. DatabaseInv'
  BY <1>4, <1>5, <1>6, <1>7, DatabaseStep DEF Inv
<1> QED
  BY <1>1, <1>8 DEF Inv

LEMMA WopiPutInv ==
  ASSUME Inv, WopiPut
  PROVE  Inv'
<1>0. PICK number \in NextVersionNumbers(db.now.file.id) : WopiPutWith(number)
  BY DEF WopiPut, WopiPutWith
<1> DEFINE f == db.now.file.id
           v == Version(f, number, 0, 0)
           rows == WithVersion(v)
<1>1. SessionInv'
  BY SessionKept DEF Inv, SessionInv, WopiPut
<1>2. f \in FileIds /\ 0 \in Contents
  BY BoundsAssumption DEF Inv, DatabaseInv, Rows, WopiPut, FileExists, Contents
<1>3. /\ Good(rows, used.versions + 1)
      /\ IdsIn(rows) = IdsIn(db.now) \union {v.id}
      /\ v.id \in VersionIds
  BY <1>2, NextRow DEF Inv, WopiPut
<1>4. /\ disk' = disk \union {v.id} /\ promised' = promised
      /\ used' \in {Use("versions"), [Use("versions") EXCEPT !.faults = @ + 1]}
      /\ db' = Committed(rows) \/ db' \in FailedCommits(rows)
  BY <1>0 DEF WopiPut, WopiPutWith
<1> HIDE DEF v, rows
<1>5. /\ used' \in Counts /\ used'.versions = used.versions + 1
      /\ used'.edits = used.edits
  BY <1>4, UseTyped DEF Inv, Counts
<1>6. /\ used.versions \in Nat /\ used.versions < MaxVersions
      /\ used.edits <= MaxEdits
      /\ disk \subseteq VersionIds /\ promised \subseteq IdsIn(db.now)
      /\ IdsIn(db.now) \subseteq disk /\ IdsIn(db.durable) \subseteq disk
  BY DEF Inv, DatabaseInv, Counts, RowsHaveBytes, Databases, WopiPut
<1>7. used.versions <= used'.versions /\ used'.versions <= MaxVersions /\ used'.edits <= MaxEdits
  BY <1>5, <1>6, BoundsAssumption
<1>8. /\ disk' \subseteq VersionIds /\ IdsIn(rows) \subseteq disk'
      /\ promised' \subseteq IdsIn(rows) /\ IdsIn(db.durable) \subseteq disk'
      /\ promised' \subseteq promised
  BY <1>3, <1>4, <1>6
<1>9. DatabaseInv'
  BY <1>3, <1>4, <1>5, <1>7, <1>8, DatabaseStep DEF Inv
<1> QED
  BY <1>1, <1>9 DEF Inv

LEMMA OpenEditorInv ==
  ASSUME Inv, OpenEditor
  PROVE  Inv'
<1> DEFINE k == db.now.file.current
           T == db.now.tokens \union {k}
           rows == [db.now EXCEPT !.tokens = T]
<1>1. /\ k \in VersionIds /\ db.now.file.id \in FileIds
      /\ db.now \in Rows /\ T \in SUBSET VersionIds
  BY DEF Inv, DatabaseInv, Good, HasCurrent, Rows, OpenEditor, FileExists
<1>2. SessionInv'
  <2>1. 0 \in Contents
    BY BoundsAssumption DEF Contents
  <2>2. session' = [session EXCEPT ![k] =
                      [state |-> "editing", file |-> db.now.file.id, content |-> 0]]
    BY DEF OpenEditor
  <2>3. session' \in [VersionIds -> Sessions]
    BY <1>1, <2>1, <2>2 DEF Inv, SessionInv, Sessions
  <2>4. \A j \in VersionIds :
          j # k => session'[j] = session[j]
    BY <2>2 DEF Inv, SessionInv
  <2>5. session'[k].file \in FileIds
    BY <1>1, <2>2 DEF Inv, SessionInv
  <2>6. \A i \in DOMAIN calls : calls[i].key \in VersionIds /\ calls[i].key # k
    BY CallsTyped DEF Inv, SessionInv, OpenEditor
  <2> QED
    BY <2>3, <2>4, <2>5, <2>6 DEF Inv, SessionInv, OpenEditor
<1>3. Good(rows, used.versions) /\ rows.versions = db.now.versions
  BY <1>1, GoodTokens DEF Inv, DatabaseInv, Rows
<1>4. db' = Written(rows)
  BY DEF OpenEditor
<1> HIDE DEF rows
<1>5. IdsIn(rows) = IdsIn(db.now)
  BY <1>3 DEF IdsIn
<1>6. /\ UNCHANGED <<disk, promised, used>>
      /\ used \in Counts /\ used.versions <= used.versions
      /\ used.versions <= MaxVersions /\ used.edits <= MaxEdits
      /\ disk \subseteq VersionIds /\ promised \subseteq IdsIn(db.now)
      /\ IdsIn(db.now) \subseteq disk /\ IdsIn(db.durable) \subseteq disk
  BY DEF Inv, DatabaseInv, Counts, RowsHaveBytes, Databases, OpenEditor
<1>7. DatabaseInv'
  BY <1>3, <1>4, <1>5, <1>6, DatabaseStep DEF Inv
<1> QED
  BY <1>2, <1>7 DEF Inv

LEMMA EditInv ==
  ASSUME Inv, NEW k \in VersionIds, Edit(k)
  PROVE  Inv'
<1>1. used' \in Counts /\ used'.versions = used.versions /\ used'.edits = used.edits + 1
  <2>1. used' = [used EXCEPT !.edits = @ + 1]
    BY DEF Edit, Use
  <2> QED
    BY <2>1 DEF Inv, DatabaseInv, Counts
<1>2. used.edits \in Nat /\ used.edits < MaxEdits
  BY DEF Inv, DatabaseInv, Counts, Edit
<1>3. used'.edits <= MaxEdits /\ used.edits + 1 \in Contents
  BY <1>1, <1>2, BoundsAssumption DEF Contents
<1>4. DatabaseInv'
  BY <1>1, <1>3, DatabaseKept DEF Inv, Edit
<1>5. SessionInv'
  <2>1. session' = [session EXCEPT ![k].content = used.edits + 1]
    BY DEF Edit
  <2>2. session' \in [VersionIds -> Sessions]
    BY <1>3, <2>1 DEF Inv, SessionInv, Sessions
  <2>3. \A j \in VersionIds : /\ session'[j].state = session[j].state
                              /\ session'[j].file = session[j].file
                              /\ session[j].content # 0 => session'[j].content # 0
    BY <1>2, <2>1 DEF Inv, SessionInv, Sessions
  <2>4. \A i \in DOMAIN calls : calls[i].key \in VersionIds
    BY CallsTyped DEF Inv
  <2> QED
    BY <2>2, <2>3, <2>4 DEF Inv, SessionInv, Edit
<1> QED
  BY <1>4, <1>5 DEF Inv

LEMMA CloseInv ==
  ASSUME Inv, NEW k \in VersionIds, Close(k) \/ CloseUnchanged(k)
  PROVE  Inv'
<1>1. DatabaseInv'
  BY DatabaseKept DEF Inv, DatabaseInv, Close, CloseUnchanged
<1>2. CASE Close(k)
  <2>1. SessionInv'
    <3>1. /\ session[k].state # "none" /\ UNCHANGED <<calls, stuck>>
          /\ session' = [session EXCEPT ![k].state = "closing"]
      BY <1>2 DEF Close
    <3> QED
      BY <3>1, SessionMoves DEF Inv
  <2> QED
    BY <1>1, <2>1 DEF Inv
<1>3. CASE CloseUnchanged(k)
  <2>1. session' = [session EXCEPT ![k].state = "none"]
    BY <1>3 DEF CloseUnchanged
  <2>2. /\ session' \in [VersionIds -> Sessions]
        /\ session'[k].state = "none"
        /\ \A j \in VersionIds : j # k => session'[j] = session[j]
    BY <2>1 DEF Inv, SessionInv, Sessions
  <2>3. \A i \in DOMAIN calls : calls[i].key \in VersionIds /\ calls[i].key # k
    BY <1>3, CallsTyped DEF Inv, SessionInv, CloseUnchanged
  <2>4. SessionInv'
    BY <1>3, <2>2, <2>3 DEF Inv, SessionInv, CloseUnchanged
  <2> QED
    BY <1>1, <2>4 DEF Inv
<1> QED
  BY <1>2, <1>3

LEMMA StartSaveInv ==
  ASSUME Inv, NEW k \in VersionIds, StartSave(k)
  PROVE  Inv'
<1>1. DatabaseInv'
  BY DatabaseKept DEF Inv, DatabaseInv, StartSave
<1> SUFFICES SessionInv'
  BY <1>1 DEF Inv
<1>2. PICK status \in {2, 6} :
        /\ session[k].state = IF status = 2 THEN "closing" ELSE "editing"
        /\ LET call == [key |-> k, status |-> status, content |-> session[k].content,
                        file |-> session[k].file]
           IN \/ stuck' = TRUE /\ UNCHANGED <<session, calls>>
              \/ /\ ~MutexHeld(call.file)
                 /\ calls' = Append(calls, call)
                 /\ UNCHANGED <<session, stuck>>
              \/ session' = Answered(call) /\ UNCHANGED <<calls, stuck>>
  BY DEF StartSave
<1> DEFINE call == [key |-> k, status |-> status, content |-> session[k].content,
                    file |-> session[k].file]
<1>3. /\ call \in Calls /\ call.key = k /\ call.status = status
      /\ call.file = session[k].file
      /\ session[k].state # "none" /\ session[k].content # 0
  BY <1>2 DEF Inv, SessionInv, Sessions, Calls, StartSave
<1>4. CASE stuck' = TRUE /\ UNCHANGED <<session, calls>>
  BY <1>4 DEF Inv, SessionInv
<1>5. CASE ~MutexHeld(call.file) /\ calls' = Append(calls, call) /\ UNCHANGED <<session, stuck>>
  <2> HIDE DEF call
  <2>1. /\ calls' \in Seq(Calls)
        /\ DOMAIN calls' = DOMAIN calls \union {Len(calls) + 1}
        /\ Len(calls) + 1 \notin DOMAIN calls
        /\ \A i \in DOMAIN calls : calls'[i] = calls[i]
        /\ calls'[Len(calls) + 1] = call
    BY <1>3, <1>5 DEF Inv, SessionInv
  <2>2. \A i \in DOMAIN calls : calls[i].file # call.file
    BY <1>5 DEF MutexHeld
  <2> QED
    BY <1>3, <1>5, <2>1, <2>2 DEF Inv, SessionInv
<1>6. CASE session' = Answered(call) /\ UNCHANGED <<calls, stuck>>
  <2>1. CASE status = 2
    <3>1. session' = [session EXCEPT ![k].state = "closed"]
      BY <1>3, <1>6, <2>1 DEF Answered
    <3> QED
      BY <1>3, <1>6, <3>1, SessionMoves DEF Inv, call
  <2>2. CASE status # 2
    BY <1>3, <1>6, <2>2, SessionKept DEF Answered, Inv
  <2> QED
    BY <2>1, <2>2
<1> QED
  BY <1>2, <1>4, <1>5, <1>6

LEMMA FinishSaveInv ==
  ASSUME Inv, FinishSave
  PROVE  Inv'
<1>0. PICK number \in NextVersionNumbers(Last(calls).file) : FinishSaveWith(number)
  BY DEF FinishSave, FinishSaveWith, NumbersOfSave
<1> DEFINE call == Last(calls)
           v == Version(call.file, number, call.content, call.key)
           rows == WithVersion(v)
<1>1. /\ call \in Calls /\ call.key \in VersionIds /\ session[call.key].state # "none"
      /\ call.file \in FileIds /\ call.content \in Contents
  BY Innermost DEF Inv, SessionInv, FinishSave, Calls
<1>2. calls # << >> /\ calls' = Front(calls) /\ UNCHANGED stuck
  BY DEF FinishSave
<1>3. CASE used' = Use("faults") /\ db' \in {db, RolledBack} /\ UNCHANGED <<disk, session>>
  <2>1. DatabaseInv'
    BY <1>3, DatabaseKept, UseTyped DEF Inv, DatabaseInv, FinishSave
  <2>2. SessionInv'
    BY <1>2, <1>3, Innermost DEF Inv, SessionInv
  <2> QED
    BY <2>1, <2>2 DEF Inv
<1>4. CASE /\ used.versions < MaxVersions
           /\ disk' = disk \union {v.id}
           /\ session' = Answered(call)
           /\ db' = Committed(rows) \/ db' \in FailedCommits(rows)
           /\ used' \in {Use("versions"), [Use("versions") EXCEPT !.faults = @ + 1]}
  <2>1. /\ Good(rows, used.versions + 1)
        /\ IdsIn(rows) = IdsIn(db.now) \union {v.id}
        /\ v.id \in VersionIds
    BY <1>1, <1>4, NextRow DEF Inv
  <2> HIDE DEF v, rows
  <2>2. /\ used' \in Counts /\ used'.versions = used.versions + 1
        /\ used'.edits = used.edits
    BY <1>4, UseTyped DEF Inv, Counts
  <2>3. /\ used.versions \in Nat /\ used.edits <= MaxEdits
        /\ disk \subseteq VersionIds /\ promised \subseteq IdsIn(db.now)
        /\ IdsIn(db.now) \subseteq disk /\ IdsIn(db.durable) \subseteq disk
        /\ UNCHANGED promised
    BY DEF Inv, DatabaseInv, Counts, RowsHaveBytes, Databases, FinishSave
  <2>4. used.versions <= used'.versions /\ used'.versions <= MaxVersions /\ used'.edits <= MaxEdits
    BY <1>4, <2>2, <2>3, BoundsAssumption
  <2>5. /\ disk' \subseteq VersionIds /\ IdsIn(rows) \subseteq disk'
        /\ promised' \subseteq IdsIn(rows) /\ IdsIn(db.durable) \subseteq disk'
        /\ promised' \subseteq promised
    BY <1>4, <2>1, <2>3
  <2>6. DatabaseInv'
    BY <1>4, <2>1, <2>2, <2>4, <2>5, DatabaseStep DEF Inv
  <2>7. SessionInv'
    <3>1. CASE session' = [session EXCEPT ![call.key].state = "closed"]
      BY <1>1, <1>2, <3>1, SessionMoves DEF Inv
    <3>2. CASE session' = session
      BY <1>2, <3>2, Innermost DEF Inv, SessionInv
    <3> QED
      BY <1>4, <3>1, <3>2 DEF Answered
  <2> QED
    BY <2>6, <2>7 DEF Inv
<1> QED
  BY <1>0, <1>3, <1>4 DEF FinishSaveWith

LEMMA RestartInv ==
  ASSUME Inv, Restart
  PROVE  Inv'
<1>1. SessionInv'
  <2>1. calls' \in Seq(Calls) /\ DOMAIN calls' = {}
    BY DEF Restart
  <2> QED
    BY <2>1 DEF Inv, SessionInv, Restart
<1>2. PICK T \in SUBSET db.durable.tokens : db' = Committed([db.durable EXCEPT !.tokens = T])
  BY DEF Restart, Cleaned
<1> DEFINE rows == [db.durable EXCEPT !.tokens = T]
<1>3. db.durable \in Rows /\ T \in SUBSET VersionIds
  BY DEF Inv, DatabaseInv, Rows
<1>4. Good(rows, used.versions) /\ rows.versions = db.durable.versions
  BY <1>3, GoodTokens DEF Inv, DatabaseInv, Rows
<1>5. db' = Committed(rows)
  BY <1>2
<1> HIDE DEF rows
<1>6. IdsIn(rows) = IdsIn(db.durable)
  BY <1>4 DEF IdsIn
<1>7. /\ used' \in Counts /\ used'.versions = used.versions /\ used'.edits = used.edits
  BY UseTyped DEF Inv, Restart
<1>8. /\ UNCHANGED <<disk, promised>>
      /\ used.versions <= used.versions
      /\ used.versions <= MaxVersions /\ used.edits <= MaxEdits
      /\ disk \subseteq VersionIds /\ promised \subseteq IdsIn(db.durable)
      /\ IdsIn(db.durable) \subseteq disk
  BY DEF Inv, DatabaseInv, Counts, RowsHaveBytes, Databases, UploadsAreDurable, Restart
<1>9. DatabaseInv'
  BY <1>4, <1>5, <1>6, <1>7, <1>8, DatabaseStep DEF Inv
<1> QED
  BY <1>1, <1>9 DEF Inv

LEMMA NextInv ==
  ASSUME Inv, [Next]_vars
  PROVE  Inv'
<1>1. CASE UNCHANGED vars
  <2>1. DatabaseInv'
    BY <1>1, DatabaseKept DEF vars, Inv, DatabaseInv
  <2> QED
    BY <1>1, <2>1, SessionKept DEF vars, Inv
<1>2. CASE Next
  BY <1>2, UploadInv, DeleteFileInv, CleanupInv, WopiPutInv, OpenEditorInv, EditInv,
     CloseInv, StartSaveInv, FinishSaveInv, RestartInv DEF Next
<1> QED
  BY <1>1, <1>2

-----------------------------------------------------------------------------
(* What the invariant says in the words of the properties.                  *)

LEMMA InvImpliesTypeOK ==
  ASSUME Inv
  PROVE  TypeOK
<1>1. ASSUME NEW rows \in Databases
      PROVE  /\ rows.file.id \in FileIds \union {0}
             /\ rows.file.current \in IdsIn(rows) \union {0}
             /\ rows.file.id = 0 <=> rows.file.current = 0
             /\ rows.versions \subseteq Versions
             /\ rows.tokens \subseteq VersionIds
  <2>1. rows \in Rows /\ HasCurrent(rows)
    BY DEF Inv, DatabaseInv, Good, Databases
  <2>2. rows.file.current \in IdsIn(rows) \union {0}
    BY <2>1 DEF HasCurrent, IdsIn, VersionsOf, Rows
  <2> QED
    BY <2>1, <2>2 DEF Rows, HasCurrent
<1>2. promised \subseteq VersionIds /\ disk \subseteq VersionIds /\ db.open \in BOOLEAN
  BY DEF Inv, DatabaseInv, RowsHaveBytes, Databases
<1> QED
  BY <1>1, <1>2 DEF TypeOK, Inv, SessionInv, Sessions, Calls

LEMMA InvImpliesCurrentIsLatest ==
  ASSUME Inv
  PROVE  CurrentIsLatest
<1> SUFFICES ASSUME NEW rows \in Databases, NEW v \in rows.versions,
                    v.id = rows.file.current, NEW w \in VersionsOf(rows, v.file)
             PROVE  w.id <= v.id
  BY DEF CurrentIsLatest
<1>1. Good(rows, used.versions)
  BY DEF Inv, DatabaseInv, Databases
<1>2. rows.file.id # 0
  BY <1>1, Bounds DEF Good, HasCurrent, Rows, Versions
<1>3. PICK u \in VersionsOf(rows, rows.file.id) :
        /\ u.id = rows.file.current
        /\ \A x \in VersionsOf(rows, rows.file.id) : x.id <= u.id
  BY <1>1, <1>2 DEF Good, HasCurrent
<1>4. u = v /\ v.file = rows.file.id
  BY <1>1, <1>3 DEF Good, Keyed, VersionsOf
<1> QED
  BY <1>3, <1>4

LEMMA InvImpliesAscend ==
  ASSUME Inv
  PROVE  VersionNumbersAscend
<1> SUFFICES ASSUME NEW rows \in Databases, NEW f \in FileIds
             PROVE  /\ \A v, w \in VersionsOf(rows, f) :
                         v.id < w.id => v.number < w.number \/ w.number = 1
                    /\ NumbersOf(rows, f) = 1 .. Cardinality(NumbersOf(rows, f))
  BY DEF VersionNumbersAscend, NumbersOf
<1>1. Numbered(rows)
  BY DEF Inv, DatabaseInv, Databases, Good
<1>2. PICK m \in Nat : NumbersOf(rows, f) = 1 .. m
  BY <1>1 DEF Numbered
<1>3. Cardinality(1 .. m) = m
  BY FS_Interval
<1>4. \A v, w \in VersionsOf(rows, f) : v.id < w.id => v.number < w.number \/ w.number = 1
  BY <1>1 DEF Numbered, VersionsOf
<1> QED
  BY <1>2, <1>3, <1>4

-----------------------------------------------------------------------------
(* One save for each key.  A callback starts only while its key is the      *)
(* file's current version, a save with that key would have made a newer     *)
(* one, and the mutex keeps two callbacks of a file apart.                  *)

\* A saved version is of the file of the version that was edited, and newer.
SavesFollowKeys(rows) ==
  \A v, w \in rows.versions :
    /\ v.key # 0 /\ v.key = w.key => v = w
    /\ w.id = v.key => w.file = v.file /\ w.id < v.id

AllVersions == db.now.versions \union db.durable.versions

SavesInv ==
  /\ SavesFollowKeys(db.now) /\ SavesFollowKeys(db.durable)
  /\ db.now.file.id # 0 => db.durable.versions \subseteq db.now.versions
  /\ \A v \in AllVersions :
       /\ session[v.id].state # "none" => session[v.id].file = v.file
       /\ v.key <= used.versions
       /\ \A i \in DOMAIN calls : v.key # calls[i].key
  /\ \A k \in VersionIds : k > used.versions => session[k].state = "none"

\* The steps that add no row, and whose sessions stay with their files.
LEMMA SavesKept ==
  ASSUME Inv, Inv', SavesInv,
         \A rows \in {db'.now, db'.durable} :
           \E old \in Databases : rows.versions \subseteq old.versions,
         db'.now.file.id # 0 => db'.durable.versions \subseteq db'.now.versions,
         used'.versions = used.versions,
         \A k \in VersionIds : session'[k].state # "none" =>
           session[k].state # "none" /\ session'[k].file = session[k].file,
         \A i \in DOMAIN calls' : \E j \in DOMAIN calls : calls'[i].key = calls[j].key
  PROVE  SavesInv'
<1>1. AllVersions' \subseteq AllVersions
  BY DEF AllVersions, Databases
<1>2. SavesFollowKeys(db'.now) /\ SavesFollowKeys(db'.durable)
  BY DEF SavesInv, SavesFollowKeys, Databases
<1>3. \A v \in AllVersions : v.id \in VersionIds
  BY DEF AllVersions, Inv, DatabaseInv, Good, Rows, Versions
<1> QED
  BY <1>1, <1>2, <1>3 DEF SavesInv

\* A row is added with a key that no row has and no other callback works on.
LEMMA SavesRow ==
  ASSUME Inv, Inv', SavesInv,
         NEW v, v.id = used.versions + 1, v.id \in VersionIds, v.key \in Nat,
         v.key <= used.versions,
         \A w \in db.now.versions : w.id = v.key => w.file = v.file,
         v.key # 0 => \A w \in AllVersions : w.key # v.key,
         \A i \in DOMAIN calls' : \E j \in DOMAIN calls :
           calls'[i].key = calls[j].key /\ v.key # calls[j].key,
         NEW rows, rows.versions = db.now.versions \union {v},
         rows.file.id = db.now.file.id \/ db' = Committed(rows),
         db' = Committed(rows) \/ db' \in FailedCommits(rows),
         used'.versions = used.versions + 1,
         \A k \in VersionIds : session'[k].state # "none" =>
           session[k].state # "none" /\ session'[k].file = session[k].file
  PROVE  SavesInv'
<1>1. /\ used.versions \in Nat
      /\ \A w \in AllVersions : w.id \in VersionIds /\ w.id <= used.versions
                                /\ w.key \in Nat
  BY Bounds DEF AllVersions, Inv, DatabaseInv, Counts, Good, Keyed, Rows, Versions
<1> DEFINE Ends(now, durable) == db'.now = now /\ db'.durable = durable
<1>0. \/ Ends(rows, rows) /\ db' = Committed(rows)
      \/ Ends(rows, db.durable) /\ rows.file.id = db.now.file.id
      \/ Ends(db.durable, db.durable)
  <2>1. CASE db' = Committed(rows)
    BY <2>1 DEF Committed
  <2>2. CASE db' \in FailedCommits(rows) /\ rows.file.id = db.now.file.id
    <3>1. db \in [now : Rows, durable : Rows, open : BOOLEAN]
      BY DEF Inv, DatabaseInv
    <3>2. CASE db' = RolledBack
      BY <3>2 DEF RolledBack, Committed
    <3>3. CASE db' = [db EXCEPT !.now = rows, !.open = TRUE]
      <4>1. db'.now = rows /\ db'.durable = db.durable
        BY <3>1, <3>3
      <4> QED
        BY <2>2, <4>1
    <3> QED
      BY <2>2, <3>2, <3>3 DEF FailedCommits
  <2> QED
    BY <2>1, <2>2
<1>2. AllVersions' \subseteq AllVersions \union {v}
  BY <1>0 DEF AllVersions
<1>3. v.key # v.id
  BY <1>1, Bounds
<1>4. SavesFollowKeys(rows)
  <2>1. \A w \in db.now.versions : w.key # v.id
    BY <1>1 DEF SavesInv, AllVersions
  <2>2. \A w \in db.now.versions : v.key # 0 => w.key # v.key
    BY DEF AllVersions
  <2>3. \A w \in db.now.versions : w.id < v.id
    BY <1>1, Bounds DEF AllVersions
  <2> QED
    BY <1>3, <2>1, <2>2, <2>3 DEF SavesInv, SavesFollowKeys
<1>5. /\ SavesFollowKeys(db'.now) /\ SavesFollowKeys(db'.durable)
      /\ db'.now.file.id # 0 => db'.durable.versions \subseteq db'.now.versions
  BY <1>0, <1>4 DEF SavesInv
<1>6. \A k \in VersionIds : k > used'.versions => session'[k].state = "none"
  BY <1>1, Bounds DEF SavesInv
<1>7. session'[v.id].state = "none"
  BY <1>1, Bounds DEF SavesInv
<1>8. \A w \in AllVersions' :
        /\ session'[w.id].state # "none" => session'[w.id].file = w.file
        /\ w.key <= used'.versions
        /\ \A i \in DOMAIN calls' : w.key # calls'[i].key
  BY <1>1, <1>2, <1>7 DEF SavesInv
<1> QED
  BY <1>5, <1>6, <1>8 DEF SavesInv

\* How the tables stand after a statement, a commit or a rollback.
LEMMA TablesAfter ==
  ASSUME Inv, NEW rows
  PROVE  /\ db' = Committed(rows) => db'.now = rows /\ db'.durable = rows
         /\ db' = RolledBack => db'.now = db.durable /\ db'.durable = db.durable
         /\ db' \in FailedCommits(rows) =>
              \/ db'.now = rows /\ db'.durable = db.durable
              \/ db'.now = db.durable /\ db'.durable = db.durable
         /\ db' = Written(rows) => db'.now = rows /\ db'.durable \in {rows, db.durable}
<1>1. db \in [now : Rows, durable : Rows, open : BOOLEAN]
  BY DEF Inv, DatabaseInv
<1>2. /\ db' = Committed(rows) => db'.now = rows /\ db'.durable = rows
      /\ db' = RolledBack => db'.now = db.durable /\ db'.durable = db.durable
  BY DEF Committed, RolledBack
<1>3. ASSUME db' = [db EXCEPT !.now = rows, !.open = TRUE]
      PROVE  db'.now = rows /\ db'.durable = db.durable
  BY <1>1, <1>3
<1>4. ASSUME db' = Written(rows)
      PROVE  db'.now = rows /\ db'.durable \in {rows, db.durable}
  BY <1>1, <1>4 DEF Written
<1> QED
  BY <1>2, <1>3, <1>4 DEF FailedCommits

LEMMA InitSaves ==
  ASSUME Init
  PROVE  SavesInv
<1>1. db.now = NoRows /\ db.durable = NoRows /\ NoRows.versions = {} /\ NoRows.file.id = 0
  BY DEF Init, NoRows, NoFile
<1>2. \A k \in VersionIds : session[k].state = "none"
  BY DEF Init, NoSession
<1> QED
  BY <1>1, <1>2 DEF SavesInv, SavesFollowKeys, AllVersions

\* Steps whose rows are those of before, and whose calls and sessions stay.
LEMMA QuietSaves ==
  ASSUME Inv, Inv', SavesInv,
         NEW rows, rows.versions = db.now.versions \/ rows.versions = db.durable.versions,
         rows.file.id = db.now.file.id \/ db' = Committed(rows),
         rows.versions = db.now.versions \/ db' = Committed(rows),
         db' = db \/ db' = RolledBack \/ db' = Committed(rows) \/ db' = Written(rows),
         used'.versions = used.versions,
         \A k \in VersionIds : session'[k].state # "none" =>
           session[k].state # "none" /\ session'[k].file = session[k].file,
         \A i \in DOMAIN calls' : \E j \in DOMAIN calls : calls'[i].key = calls[j].key
  PROVE  SavesInv'
<1>1. \A new \in {db'.now, db'.durable} :
        \E old \in Databases : new.versions \subseteq old.versions
  BY TablesAfter DEF Databases
<1>2. db'.now.file.id # 0 => db'.durable.versions \subseteq db'.now.versions
  BY TablesAfter DEF SavesInv
<1> QED
  BY <1>1, <1>2, SavesKept

LEMMA UploadSaves ==
  ASSUME Inv, Inv', SavesInv, Upload
  PROVE  SavesInv'
<1>0. PICK number \in NextVersionNumbers(Uploaded) : UploadWith(number)
  BY DEF Upload, UploadWith
<1> DEFINE v == Version(Uploaded, number, 0, 0)
           rows == WithUpload(v)
<1>1. UNCHANGED <<session, calls>>
  BY DEF Upload
<1>2. CASE db' = RolledBack /\ used' \in {used, Use("faults")}
  <2>1. used'.versions = used.versions
    BY <1>2, UseTyped DEF Inv
  <2> QED
    BY <1>1, <1>2, <2>1, QuietSaves
<1>3. CASE db' = Committed(rows) /\ used' = [used EXCEPT !.versions = v.id, !.files = Max({@, v.file})]
  <2>1. /\ v.id = used.versions + 1 /\ v.key = 0
        /\ rows.versions = db.now.versions \union {v}
    BY DEF Version, WithUpload, Inv, DatabaseInv, Rows
  <2>2. v.id \in VersionIds
    BY <2>1, Bounds, BoundsAssumption DEF Inv, DatabaseInv, Counts, Upload
  <2>3. used'.versions = used.versions + 1
    BY <1>3, <2>1 DEF Inv, DatabaseInv, Counts
  <2>4. /\ used.versions \in Nat
        /\ \A w \in db.now.versions : w.id # 0
    BY Bounds DEF Inv, DatabaseInv, Counts, Good, Rows, Versions
  <2>5. \A i \in DOMAIN calls : calls[i].key # 0
    BY CallsTyped, Bounds DEF Inv
  <2> HIDE DEF v, rows
  <2> QED
    BY <1>1, <1>3, <2>1, <2>2, <2>3, <2>4, <2>5, SavesRow
<1> QED
  BY <1>0, <1>2, <1>3 DEF UploadWith, UploadFails

LEMMA DeleteFileSaves ==
  ASSUME Inv, Inv', SavesInv, DeleteFile
  PROVE  SavesInv'
<1> DEFINE rows == [db.now EXCEPT !.file = NoFile,
                                  !.versions = @ \ VersionsOf(db.now, db.now.file.id)]
<1>1. rows.versions \subseteq db.now.versions /\ rows.file.id = 0
  <2>1. db.now \in Rows
    BY DEF Inv, DatabaseInv
  <2> QED
    BY <2>1 DEF Rows, NoFile
<1>2. /\ db' = Committed(rows) \/ db' \in FailedCommits(rows)
      /\ used' \in {used, Use("faults")}
      /\ UNCHANGED <<session, calls>> /\ ~db.open
  BY DEF DeleteFile
<1>3. used'.versions = used.versions
  BY <1>2, UseTyped DEF Inv
<1> HIDE DEF rows
<1>4. \/ db'.now = rows /\ db'.durable \in {rows, db.durable}
      \/ db'.now = db.durable /\ db'.durable = db.durable
  BY <1>2, TablesAfter
<1>5. /\ \A new \in {db'.now, db'.durable} :
           \E old \in Databases : new.versions \subseteq old.versions
      /\ db'.now.file.id # 0 => db'.durable.versions \subseteq db'.now.versions
  BY <1>1, <1>4 DEF Databases
<1> QED
  BY <1>2, <1>3, <1>5, SavesKept

LEMMA CleanupSaves ==
  ASSUME Inv, Inv', SavesInv, Cleanup
  PROVE  SavesInv'
<1>1. PICK T \in SUBSET db.now.tokens : db' = Written([db.now EXCEPT !.tokens = T])
  BY DEF Cleanup, Cleaned
<1> DEFINE rows == [db.now EXCEPT !.tokens = T]
<1>2. rows.versions = db.now.versions /\ rows.file = db.now.file
  BY DEF Inv, DatabaseInv, Rows
<1>3. UNCHANGED <<session, calls, used>> /\ db' = Written(rows)
  BY <1>1 DEF Cleanup
<1> HIDE DEF rows
<1> QED
  BY <1>2, <1>3, QuietSaves

LEMMA RestartSaves ==
  ASSUME Inv, Inv', SavesInv, Restart
  PROVE  SavesInv'
<1>1. PICK T \in SUBSET db.durable.tokens : db' = Committed([db.durable EXCEPT !.tokens = T])
  BY DEF Restart, Cleaned
<1> DEFINE rows == [db.durable EXCEPT !.tokens = T]
<1>2. rows.versions = db.durable.versions
  BY DEF Inv, DatabaseInv, Rows
<1>3. UNCHANGED session /\ db' = Committed(rows) /\ DOMAIN calls' = {}
  BY <1>1 DEF Restart
<1>4. used'.versions = used.versions
  BY UseTyped DEF Inv, Restart
<1> HIDE DEF rows
<1> QED
  BY <1>2, <1>3, <1>4, QuietSaves

LEMMA WopiPutSaves ==
  ASSUME Inv, Inv', SavesInv, WopiPut
  PROVE  SavesInv'
<1>0. PICK number \in NextVersionNumbers(db.now.file.id) : WopiPutWith(number)
  BY DEF WopiPut, WopiPutWith
<1> DEFINE f == db.now.file.id
           v == Version(f, number, 0, 0)
           rows == WithVersion(v)
<1>1. /\ UNCHANGED <<session, calls>>
      /\ used' \in {Use("versions"), [Use("versions") EXCEPT !.faults = @ + 1]}
      /\ db' = Committed(rows) \/ db' \in FailedCommits(rows)
  BY <1>0 DEF WopiPut, WopiPutWith
<1>2. /\ v.id = used.versions + 1 /\ v.key = 0 /\ v.file = f
      /\ rows.versions = db.now.versions \union {v}
      /\ rows.file.id = db.now.file.id
  BY DEF Version, WithVersion, Inv, DatabaseInv, Rows
<1>3. v.id \in VersionIds
  BY <1>2, Bounds, BoundsAssumption DEF Inv, DatabaseInv, Counts, WopiPut
<1>4. used'.versions = used.versions + 1
  BY <1>1, UseTyped DEF Inv, Counts
<1>5. /\ used.versions \in Nat
      /\ \A w \in db.now.versions : w.id # 0
  BY Bounds DEF Inv, DatabaseInv, Counts, Good, Rows, Versions
<1>6. \A i \in DOMAIN calls : calls[i].key # 0
  BY CallsTyped, Bounds DEF Inv
<1> HIDE DEF v, rows
<1> QED
  BY <1>1, <1>2, <1>3, <1>4, <1>5, <1>6, SavesRow

\* A session opens on the key of a current version, whose file it takes.
LEMMA OpenEditorSaves ==
  ASSUME Inv, Inv', SavesInv, OpenEditor
  PROVE  SavesInv'
<1> DEFINE k == db.now.file.current
           rows == [db.now EXCEPT !.tokens = @ \union {k}]
<1>1. rows.versions = db.now.versions /\ rows.file = db.now.file
  BY DEF Inv, DatabaseInv, Rows
<1>2. db' = Written(rows) /\ UNCHANGED <<calls, used>> /\ db.now.file.id # 0
  BY DEF OpenEditor, FileExists
<1>3. db'.now = rows /\ db'.durable \in {rows, db.durable}
  BY <1>2, TablesAfter
<1> HIDE DEF rows
<1>4. PICK u \in db.now.versions : u.id = k /\ u.file = db.now.file.id
  BY <1>2 DEF Inv, DatabaseInv, Good, HasCurrent, VersionsOf
<1>5. /\ k \in VersionIds /\ k <= used.versions
      /\ \A w \in AllVersions : w.id \in VersionIds
      /\ \A w \in db.now.versions : w.id = k => w = u
  BY <1>4 DEF Inv, DatabaseInv, Good, Keyed, Rows, Versions, AllVersions
<1>6. /\ session'[k].file = db.now.file.id
      /\ \A j \in VersionIds : j # k => session'[j] = session[j]
  BY <1>5 DEF OpenEditor, Inv, SessionInv
<1>7. \A i \in DOMAIN calls : calls[i].key # k
  BY CallsTyped DEF Inv, SessionInv, OpenEditor
<1>8. db.durable.versions \subseteq db.now.versions
  BY <1>2 DEF SavesInv
<1>9. AllVersions' = AllVersions /\ AllVersions = db.now.versions
  BY <1>1, <1>3, <1>8 DEF AllVersions
<1>10. \A w \in AllVersions : session'[w.id].state # "none" => session'[w.id].file = w.file
  BY <1>4, <1>5, <1>6, <1>9 DEF SavesInv
<1>11. \A j \in VersionIds : j > used.versions => session'[j].state = "none"
  BY <1>5, <1>6, Bounds DEF SavesInv, Inv, DatabaseInv, Counts
<1>12. /\ SavesFollowKeys(db'.now) /\ SavesFollowKeys(db'.durable)
       /\ db'.durable.versions \subseteq db'.now.versions
  BY <1>1, <1>3, <1>8 DEF SavesInv, SavesFollowKeys
<1> QED
  BY <1>2, <1>9, <1>10, <1>11, <1>12 DEF SavesInv

LEMMA EditSaves ==
  ASSUME Inv, Inv', SavesInv, NEW k \in VersionIds, Edit(k) \/ Close(k) \/ CloseUnchanged(k)
  PROVE  SavesInv'
<1>1. UNCHANGED <<db, calls>>
  BY DEF Edit, Close, CloseUnchanged
<1>2. used'.versions = used.versions
  <2>1. CASE Edit(k)
    <3>1. used' = [used EXCEPT !.edits = @ + 1]
      BY <2>1 DEF Edit, Use
    <3> QED
      BY <3>1 DEF Inv, DatabaseInv, Counts
  <2> QED
    BY <2>1 DEF Close, CloseUnchanged
<1>3. /\ session[k].state # "none"
      /\ \A j \in VersionIds :
           /\ session'[j].file = session[j].file
           /\ j # k => session'[j] = session[j]
  BY DEF Inv, SessionInv, Sessions, Edit, Close, CloseUnchanged
<1> QED
  BY <1>1, <1>2, <1>3, QuietSaves

\* A callback works on the current version: no row was saved with its key.
LEMMA StartSaveSaves ==
  ASSUME Inv, Inv', SavesInv, NEW k \in VersionIds, StartSave(k)
  PROVE  SavesInv'
<1>1. UNCHANGED <<db, used>>
  BY DEF StartSave
<1>2. /\ session[k].state # "none"
      /\ \A j \in VersionIds :
           /\ session'[j].file = session[j].file
           /\ j # k => session'[j] = session[j]
  BY DEF StartSave, Answered, Inv, SessionInv, Sessions
<1>3. CASE UNCHANGED calls
  BY <1>1, <1>2, <1>3, QuietSaves
<1>4. CASE /\ db.now.file.current = k
           /\ \E call : calls' = Append(calls, call) /\ call.key = k
  <2>1. db.now.file.id # 0
    BY <1>4, Bounds DEF Inv, DatabaseInv, Good, HasCurrent
  <2>2. PICK u \in VersionsOf(db.now, db.now.file.id) :
          u.id = k /\ \A w \in VersionsOf(db.now, db.now.file.id) : w.id <= u.id
    BY <1>4, <2>1 DEF Inv, DatabaseInv, Good, HasCurrent
  <2>3. \A w \in db.now.versions : w.id \in Nat
    BY Bounds DEF Inv, DatabaseInv, Good, Rows, Versions
  <2>4. \A w \in db.now.versions : w.key # k
    BY <2>2, <2>3 DEF SavesInv, SavesFollowKeys, VersionsOf
  <2>5. \A w \in AllVersions : w.key # k
    BY <2>1, <2>4 DEF SavesInv, AllVersions
  <2>6. \A i \in DOMAIN calls' : calls'[i].key = k \/ (i \in DOMAIN calls /\ calls'[i] = calls[i])
    BY <1>4 DEF Inv, SessionInv
  <2>7. \A w \in AllVersions : w.id \in VersionIds
    BY DEF AllVersions, Inv, DatabaseInv, Good, Rows, Versions
  <2>8. /\ AllVersions' = AllVersions
        /\ \A w \in AllVersions : \A i \in DOMAIN calls' : w.key # calls'[i].key
    BY <1>1, <2>5, <2>6 DEF SavesInv, AllVersions
  <2>9. \A j \in VersionIds : session'[j].state # "none" => session[j].state # "none"
    BY <1>2
  <2> QED
    BY <1>1, <1>2, <2>7, <2>8, <2>9 DEF SavesInv, SavesFollowKeys
<1>5. UNCHANGED calls \/ /\ db.now.file.current = k
                         /\ \E call : calls' = Append(calls, call) /\ call.key = k
  BY DEF StartSave
<1> QED
  BY <1>3, <1>4, <1>5

\* The save of the innermost callback: the others have other keys.
LEMMA FinishSaveSaves ==
  ASSUME Inv, Inv', SavesInv, FinishSave
  PROVE  SavesInv'
<1>0. PICK number \in NextVersionNumbers(Last(calls).file) : FinishSaveWith(number)
  BY DEF FinishSave, FinishSaveWith, NumbersOfSave
<1> DEFINE call == Last(calls)
           v == Version(call.file, number, call.content, call.key)
           rows == WithVersion(v)
<1>1. /\ call \in Calls /\ call.key \in VersionIds /\ call.file \in FileIds
      /\ session[call.key].state # "none" /\ session[call.key].file = call.file
      /\ \A w \in AllVersions : w.key # call.key
  BY Innermost DEF Inv, SessionInv, SavesInv, FinishSave, Calls
<1>2. \A i \in DOMAIN calls' : /\ i \in DOMAIN calls /\ calls'[i] = calls[i]
                               /\ calls[i].key # call.key
  <2>1. /\ calls' = Front(calls) /\ calls # << >>
    BY DEF FinishSave
  <2>2. /\ DOMAIN calls' = DOMAIN calls \ {Len(calls)} /\ Len(calls) \in DOMAIN calls
        /\ \A i \in DOMAIN calls' : calls'[i] = calls[i]
        /\ call = calls[Len(calls)]
    BY <2>1, Innermost DEF Inv
  <2>3. \A i \in DOMAIN calls : i # Len(calls) => calls[i].file # call.file
    BY <2>2 DEF Inv, SessionInv
  <2>4. \A i \in DOMAIN calls : session[calls[i].key].file = calls[i].file
    BY DEF Inv, SessionInv
  <2> QED
    BY <2>2, <2>3, <2>4
<1>3. CASE used' = Use("faults") /\ db' \in {db, RolledBack} /\ UNCHANGED session
  <2>1. used'.versions = used.versions
    BY <1>3, UseTyped DEF Inv
  <2> QED
    BY <1>2, <1>3, <2>1, QuietSaves
<1>4. CASE /\ used.versions < MaxVersions
           /\ session' = Answered(call)
           /\ db' = Committed(rows) \/ db' \in FailedCommits(rows)
           /\ used' \in {Use("versions"), [Use("versions") EXCEPT !.faults = @ + 1]}
  <2>1. /\ v.id = used.versions + 1 /\ v.key = call.key /\ v.file = call.file
        /\ rows.versions = db.now.versions \union {v}
        /\ rows.file.id = db.now.file.id
    BY DEF Version, WithVersion, Inv, DatabaseInv, Rows
  <2>2. v.id \in VersionIds
    BY <1>4, <2>1, Bounds, BoundsAssumption DEF Inv, DatabaseInv, Counts
  <2>3. used'.versions = used.versions + 1
    BY <1>4, UseTyped DEF Inv, Counts
  <2>4. v.key \in Nat /\ v.key <= used.versions
    BY <1>1, <2>1, Bounds DEF SavesInv, Inv, DatabaseInv, Counts
  <2>5. \A w \in db.now.versions : w.id = v.key => w.file = v.file
    BY <1>1, <2>1 DEF SavesInv, AllVersions
  <2>6. \A k \in VersionIds : session'[k].state # "none" =>
          session[k].state # "none" /\ session'[k].file = session[k].file
    BY <1>1, <1>4 DEF Answered, Inv, SessionInv, Sessions
  <2> HIDE DEF v, rows
  <2>7. \A w \in AllVersions : w.key # v.key
    BY <1>1, <2>1
  <2>8. \A i \in DOMAIN calls' : \E j \in DOMAIN calls :
          calls'[i].key = calls[j].key /\ v.key # calls[j].key
    BY <1>2, <2>1
  <2> QED
    BY <1>4, <2>1, <2>2, <2>3, <2>4, <2>5, <2>6, <2>7, <2>8, SavesRow
<1> QED
  BY <1>0, <1>3, <1>4 DEF FinishSaveWith

LEMMA NextSaves ==
  ASSUME Inv, Inv', SavesInv, [Next]_vars
  PROVE  SavesInv'
<1>1. CASE UNCHANGED vars
  BY <1>1 DEF vars, SavesInv, SavesFollowKeys, AllVersions
<1>2. CASE Next
  BY <1>2, UploadSaves, DeleteFileSaves, CleanupSaves, WopiPutSaves, OpenEditorSaves,
     EditSaves, StartSaveSaves, FinishSaveSaves, RestartSaves DEF Next
<1> QED
  BY <1>1, <1>2

-----------------------------------------------------------------------------
(* The theorems.                                                            *)

THEOREM Invariance == Spec => [](Inv /\ SavesInv)
<1>1. Init => Inv /\ SavesInv
  BY InitInv, InitSaves
<1>2. Inv /\ SavesInv /\ [Next]_vars => (Inv /\ SavesInv)'
  BY NextInv, NextSaves
<1> QED
  BY <1>1, <1>2, PTL DEF Spec

\* Type correctness of the tables, the sessions and the callbacks.
THEOREM TypeCorrect == Spec => []TypeOK
BY Invariance, InvImpliesTypeOK, PTL

\* Version numbers ascend without a gap, but for a number 1 that a failed SELECT gives to a
\* later version, and a file shows its latest version.
THEOREM HistoriesAreOrdered == Spec => []VersionsAreOrdered
<1>1. Inv => VersionsAreOrdered
  BY InvImpliesAscend, InvImpliesCurrentIsLatest DEF VersionsAreOrdered
<1> QED
  BY <1>1, Invariance, PTL

\* No row without bytes, and no answered upload lost, after any crash, failed commit or
\* deletion.
THEOREM NothingGetsLost == Spec => []NothingIsLost
<1>1. Inv => NothingIsLost
  BY DEF Inv, DatabaseInv, NothingIsLost
<1> QED
  BY <1>1, Invariance, PTL

\* A document key makes at most one version.
THEOREM KeysSaveOnce == Spec => []EachKeySavesOnce
<1>1. SavesInv => EachKeySavesOnce
  BY DEF SavesInv, SavesFollowKeys, EachKeySavesOnce, Databases
<1> QED
  BY <1>1, Invariance, PTL

=============================================================================
