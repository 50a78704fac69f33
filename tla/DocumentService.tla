---------------------------- MODULE DocumentService ----------------------------
(***************************************************************************)
(* The shared files of the service and their versions: the upload, version *)
(* and delete routes of FileServiceHttpServer, WopiHandler,                *)
(* OnlyOfficeCallbackHandler and the tables of FileServiceDatabase.        *)
(*                                                                         *)
(* One name of one workspace.  All handlers run on one thread, but the     *)
(* save callback of the Document Server downloads the edited document in a *)
(* nested event loop with the file's mutex locked; the requests that       *)
(* arrive meanwhile run inside it, and a callback that needs the same      *)
(* mutex then waits for a lock of its own thread.  The Document Server is  *)
(* external: it keeps one editing session for each document key, and the   *)
(* editor page makes the key of the file's version when it is opened.      *)
(*                                                                         *)
(* Time is not modelled: a token may be found expired at any time.  A      *)
(* request that is refused changes nothing, and so do WOPI locks, which    *)
(* only refuse a putFile that does not quote them.                         *)
(***************************************************************************)
EXTENDS Integers, Sequences, FiniteSets, SequencesExt, FiniteSetsExt

CONSTANTS
  MaxFiles,      \* bounds for model checking
  MaxVersions,
  MaxEdits,
  MaxFaults,     \* failed statements, commits and downloads
  MaxRestarts

ASSUME BoundsAssumption == MaxFiles \in Nat /\ MaxVersions \in Nat /\ MaxEdits \in Nat

FileIds == 1 .. MaxFiles
VersionIds == 1 .. MaxVersions

VARIABLES
  db,         \* what the connection reads, what is durable, is a transaction open
  disk,       \* versions whose bytes are in the storage directory
  session,    \* the Document Server's editing session of each version's key
  calls,      \* save callbacks that download, the innermost last
  stuck,      \* the thread waits for a mutex that it holds
  promised,   \* versions whose upload was answered with 201
  used        \* files, versions, edits, faults and restarts that happened

vars == <<db, disk, session, calls, stuck, promised, used>>

NoFile == [id |-> 0, current |-> 0]
NoSession == [state |-> "none", file |-> 0, content |-> 0]

\* The rows of files, file_versions and wopi_tokens.
NoRows == [file |-> NoFile, versions |-> {}, tokens |-> {}]

Init ==
  /\ db = [now |-> NoRows, durable |-> NoRows, open |-> FALSE]
  /\ disk = {}
  /\ session = [k \in VersionIds |-> NoSession]
  /\ calls = << >>
  /\ stuck = FALSE
  /\ promised = {}
  /\ used = [files |-> 0, versions |-> 0, edits |-> 0, faults |-> 0, restarts |-> 0]

Use(what) == [used EXCEPT ![what] = @ + 1]

-----------------------------------------------------------------------------
(* The database.  An operator whose comment begins with "Faulty" is a      *)
(* version of the next definition with a plausible mistake.                *)

\* A statement outside of a transaction, unless one was left open.
Written(rows) == [db EXCEPT !.now = rows, !.durable = IF db.open THEN @ ELSE rows]

Committed(rows) == [now |-> rows, durable |-> rows, open |-> FALSE]
RolledBack == Committed(db.durable)

\* A failed commit leaves the transaction open, or SQLite gives it up.
FailedCommits(rows) == {[db EXCEPT !.now = rows, !.open = TRUE], RolledBack}

IdsIn(rows) == {v.id : v \in rows.versions}
VersionsOf(rows, f) == {v \in rows.versions : v.file = f}

\* nextVersionNumber: one more than the greatest, or 1 if its SELECT fails.
NextVersionNumbers(f) == {Max({v.number : v \in VersionsOf(db.now, f)} \union {0}) + 1, 1}

\* Faulty: the number is the one that followed the edited version.
NumbersAfterKey(call) ==
  {Max({v.number : v \in {w \in db.now.versions : w.id = call.key}} \union {0}) + 1, 1}

\* handleStatus2or6: the number is taken after the download.
NumbersOfSave(call) == NextVersionNumbers(call.file)

Version(f, number, content, key) ==
  [id |-> used.versions + 1, file |-> f, number |-> number, content |-> content, key |-> key]

\* insertVersion and updateFileCurrentVersion, which finds no row of a deleted file.
WithVersion(v) ==
  [db.now EXCEPT
     !.versions = @ \union {v},
     !.file = IF @.id = v.file THEN [@ EXCEPT !.current = v.id] ELSE @]

\* Faulty: the new file has no version.
WithFileOnly(v) ==
  [db.now EXCEPT !.versions = @ \union {v}, !.file = [@ EXCEPT !.id = v.file]]

\* An upload inserts the file first if the name is new.
WithUpload(v) ==
  [db.now EXCEPT !.versions = @ \union {v}, !.file = [id |-> v.file, current |-> v.id]]

\* deleteExpiredWopiTokens: any tokens may have expired.
Cleaned(rows) == {[rows EXCEPT !.tokens = T] : T \in SUBSET rows.tokens}

-----------------------------------------------------------------------------
(* The files of a workspace.                                               *)

FileExists == db.now.file.id # 0
Uploaded == IF FileExists THEN db.now.file.id ELSE used.files + 1

\* Faulty: the route answers without looking at the result of the commit.
AnsweredAnyway(v) ==
  /\ db' \in FailedCommits(WithUpload(v))
  /\ disk' = disk \union {v.id}
  /\ promised' = promised \union {v.id}
  /\ used' = [Use("faults") EXCEPT !.versions = v.id, !.files = Max({@, v.file})]

\* rollbackAndCleanup.
UploadFails(v) ==
  /\ db' = RolledBack
  /\ used' = Use("faults")
  /\ UNCHANGED <<disk, promised>>

\* PUT files and POST versions: bytes, file if it is new, version, current version.
Upload ==
  /\ ~stuck /\ used.versions < MaxVersions /\ Uploaded <= MaxFiles
  /\ \E number \in NextVersionNumbers(Uploaded) :
     LET v == Version(Uploaded, number, 0, 0)
     IN \/ /\ db.open       \* the transaction cannot begin
           /\ db' = RolledBack
           /\ UNCHANGED <<disk, promised, used>>
        \/ /\ ~db.open
           /\ db' = Committed(WithUpload(v))
           /\ disk' = disk \union {v.id}
           /\ promised' = promised \union {v.id}
           /\ used' = [used EXCEPT !.versions = v.id, !.files = Max({@, v.file})]
        \/ /\ ~db.open /\ used.faults < MaxFaults
           /\ UploadFails(v)
  /\ UNCHANGED <<session, calls, stuck>>

\* DELETE files: the tokens of the file stay.
DeleteFile ==
  /\ ~stuck /\ FileExists /\ ~db.open
  /\ LET f == db.now.file.id
         ids == {v.id : v \in VersionsOf(db.now, f)}
         rows == [db.now EXCEPT !.file = NoFile, !.versions = @ \ VersionsOf(db.now, f)]
     IN /\ \/ db' = Committed(rows) /\ disk' = disk \ ids /\ UNCHANGED used
           \/ /\ used.faults < MaxFaults /\ used' = Use("faults")
              /\ db' \in FailedCommits(rows)
              /\ UNCHANGED disk
        /\ promised' = promised \ ids
  /\ UNCHANGED <<session, calls, stuck>>

\* The timer of the HTTP server, each hour.
Cleanup ==
  /\ ~stuck
  /\ \E rows \in Cleaned(db.now) : db' = Written(rows)
  /\ UNCHANGED <<disk, session, calls, stuck, promised, used>>

-----------------------------------------------------------------------------
(* WOPI: putFile, for the holder of a token and of the lock if there is    *)
(* one.                                                                    *)

\* putFile looks at the result of neither begin nor commit.
WopiPut ==
  /\ ~stuck /\ db.now.tokens # {} /\ FileExists /\ used.versions < MaxVersions
  /\ \E number \in NextVersionNumbers(db.now.file.id) :
     LET v == Version(db.now.file.id, number, 0, 0)
     IN /\ \/ db' = Committed(WithVersion(v)) /\ used' = Use("versions")
           \/ /\ used.faults < MaxFaults
              /\ db' \in FailedCommits(WithVersion(v))
              /\ used' = [Use("versions") EXCEPT !.faults = @ + 1]
        /\ disk' = disk \union {v.id}
  /\ UNCHANGED <<session, calls, stuck, promised>>

-----------------------------------------------------------------------------
(* The Document Server and its callback.                                   *)

\* POST wopi-tokens and the editor page, whose key names the current version.
OpenEditor ==
  /\ ~stuck /\ FileExists
  /\ LET k == db.now.file.current
     IN /\ session[k].state = "none"
        /\ db' = Written([db.now EXCEPT !.tokens = @ \union {k}])
        /\ session' = [session EXCEPT ![k] =
                         [state |-> "editing", file |-> db.now.file.id, content |-> 0]]
  /\ UNCHANGED <<disk, calls, stuck, promised, used>>

Edit(k) ==
  /\ session[k].state = "editing" /\ used.edits < MaxEdits
  /\ session' = [session EXCEPT ![k].content = used.edits + 1]
  /\ used' = Use("edits")
  /\ UNCHANGED <<db, disk, calls, stuck, promised>>

\* The last user leaves a document that changed: status 2 until it is answered.
Close(k) ==
  /\ session[k].state = "editing" /\ session[k].content # 0
  /\ session' = [session EXCEPT ![k].state = "closing"]
  /\ UNCHANGED <<db, disk, calls, stuck, promised, used>>

\* The last user leaves without a change: status 4, which only deletes the lock.
CloseUnchanged(k) ==
  /\ session[k].state = "editing" /\ session[k].content = 0
  /\ session' = [session EXCEPT ![k].state = "none"]
  /\ UNCHANGED <<db, disk, calls, stuck, promised, used>>

Answered(call) ==
  IF call.status = 2 THEN [session EXCEPT ![call.key].state = "closed"] ELSE session

\* Faulty: no mutex.
NeverHeld(f) == FALSE

MutexHeld(f) == \E i \in DOMAIN calls : calls[i].file = f

\* handleCallback and handleStatus2or6 up to the download; an error changes nothing.
StartSave(k) ==
  /\ ~stuck /\ k \in db.now.tokens
  /\ session[k].content # 0
  /\ \E status \in {2, 6} :
       /\ session[k].state = IF status = 2 THEN "closing" ELSE "editing"
       /\ LET call == [key |-> k, status |-> status, content |-> session[k].content,
                       file |-> session[k].file]
          IN \/ /\ MutexHeld(call.file)
                /\ stuck' = TRUE
                /\ UNCHANGED <<session, calls>>
             \/ /\ ~MutexHeld(call.file) /\ db.now.file.id = call.file
                /\ db.now.file.current = k
                /\ calls' = Append(calls, call)
                /\ UNCHANGED <<session, stuck>>
             \/ /\ ~MutexHeld(call.file) /\ db.now.file.id = call.file
                /\ db.now.file.current # k     \* a stale key is answered without a save
                /\ session' = Answered(call)
                /\ UNCHANGED <<calls, stuck>>
  /\ UNCHANGED <<db, disk, promised, used>>

\* The innermost download ends: an error, or the version is saved; commit is not looked at.
FinishSave ==
  /\ ~stuck /\ calls # << >>
  /\ calls' = Front(calls)
  /\ \E number \in NumbersOfSave(Last(calls)) :
     LET call == Last(calls)
         v == Version(call.file, number, call.content, call.key)
     IN \/ /\ used.faults < MaxFaults /\ used' = Use("faults")
           /\ db' \in {db, RolledBack}
           /\ UNCHANGED <<disk, session>>
        \/ /\ used.versions < MaxVersions
           /\ disk' = disk \union {v.id}
           /\ session' = Answered(call)
           /\ \/ db' = Committed(WithVersion(v)) /\ used' = Use("versions")
              \/ /\ used.faults < MaxFaults
                 /\ db' \in FailedCommits(WithVersion(v))
                 /\ used' = [Use("versions") EXCEPT !.faults = @ + 1]
  /\ UNCHANGED <<stuck, promised>>

\* The service stops and starts: SQLite forgets what was not committed.
Restart ==
  /\ used.restarts < MaxRestarts /\ used' = Use("restarts")
  /\ \E rows \in Cleaned(db.durable) : db' = Committed(rows)
  /\ calls' = << >>
  /\ stuck' = FALSE
  /\ UNCHANGED <<disk, session, promised>>

Next ==
  \/ Upload \/ DeleteFile \/ Cleanup \/ WopiPut \/ OpenEditor
  \/ \E k \in VersionIds : Edit(k) \/ Close(k) \/ CloseUnchanged(k) \/ StartSave(k)
  \/ FinishSave \/ Restart

Spec == Init /\ [][Next]_vars

-----------------------------------------------------------------------------
(* Properties.                                                             *)

Contents == 0 .. MaxEdits
Versions ==
  [id : VersionIds, file : FileIds, number : VersionIds, content : Contents,
   key : VersionIds \union {0}]

\* What the connection reads and what a crash would leave.
Databases == {db.now, db.durable}

(* The types of the variables; a file has a version, and the callbacks that *)
(* download are those of distinct files.                                   *)
TypeOK ==
  /\ db.open \in BOOLEAN
  /\ \A rows \in Databases :
       /\ rows.file.id \in FileIds \union {0}
       /\ rows.file.current \in IdsIn(rows) \union {0}
       /\ rows.file.id = 0 <=> rows.file.current = 0
       /\ rows.versions \subseteq Versions
       /\ rows.tokens \subseteq VersionIds
  /\ disk \subseteq VersionIds /\ promised \subseteq VersionIds
  /\ session \in [VersionIds -> [state : {"none", "editing", "closing", "closed"},
                                 file : FileIds \union {0}, content : Contents]]
  /\ calls \in Seq([key : VersionIds, status : {2, 6}, content : Contents, file : FileIds])
  /\ \A i, j \in DOMAIN calls : calls[i].file = calls[j].file => i = j
  /\ stuck \in BOOLEAN

(* A later version of a file has a higher number, without a gap, though an *)
(* upload may come while a save callback downloads, and no constraint of   *)
(* the table says so; a failed SELECT gives a later version the number 1.  *)
VersionNumbersAscend ==
  \A rows \in Databases, f \in FileIds :
    LET versions == VersionsOf(rows, f)
        numbers == {v.number : v \in versions}
    IN /\ \A v, w \in versions : v.id < w.id => v.number < w.number \/ w.number = 1
       /\ numbers = 1 .. Cardinality(numbers)

(* The version that a file shows, downloads and opens in the editor is the *)
(* last one saved (updateFileCurrentVersion beside each insertVersion).    *)
CurrentIsLatest ==
  \A rows \in Databases : \A v \in rows.versions :
    v.id = rows.file.current => \A w \in VersionsOf(rows, v.file) : w.id <= v.id

(* Each version that the database names, now or after a crash, has its     *)
(* bytes: they are saved before the row and deleted after the commit.      *)
RowsHaveBytes == \A rows \in Databases : IdsIn(rows) \subseteq disk

(* An upload that was answered with 201 survives a crash, until somebody   *)
(* asks to delete the file, whatever fails in the requests after it.       *)
UploadsAreDurable == promised \subseteq IdsIn(db.durable)

(* The history of a file is in order, now and after a crash.               *)
VersionsAreOrdered == VersionNumbersAscend /\ CurrentIsLatest

(* Nothing that the service has promised or names is lost.                 *)
NothingIsLost == RowsHaveBytes /\ UploadsAreDurable

(* The edits of one document key make at most one version, however often   *)
(* the Document Server sends its callback ("版本防重" in                     *)
(* handleStatus2or6 and the mutex around it).                              *)
EachKeySavesOnce ==
  \A rows \in Databases : \A v, w \in rows.versions : v.key # 0 /\ v.key = w.key => v = w

(* Status 2 says "编辑完成，需保存": when the editing session of a file ends   *)
(* and nobody else has changed the file, its last content is a version.    *)
FinishedEditsAreSaved ==
  [][\A k \in VersionIds :
       LET current == {v \in db'.now.versions : v.id = db'.now.file.current}
       IN /\ session[k].state = "closing" /\ session'[k].state = "closed"
          /\ \E v \in current : k \in {v.id, v.key}
          => \E v \in db'.now.versions : v.content = session[k].content]_vars

=============================================================================
