---------------------------- MODULE FileOperations ----------------------------
(***************************************************************************)
(* Operations on one stored file (FileOperationsService and the commands   *)
(* that call it): move, rename, delete, visibility and target apps, each   *)
(* under the lock of the file and inside one database transaction of the   *)
(* controller, on a store of objects that knows no transactions.           *)
(*                                                                         *)
(* The lock is released inside the transaction, before it commits.  The    *)
(* database is read committed: a transaction sees committed rows and its   *)
(* own writes, a write waits for the transaction that wrote the row or     *)
(* holds the same object key, and commits or rolls back as a whole.  An    *)
(* object is the bytes of the file it was uploaded for.                    *)
(***************************************************************************)
EXTENDS FileLock

CONSTANTS
  Folder, Name,    \* an object key is a folder and a file name
  Home,            \* Home[f]: where file f was uploaded to
  Gone,            \* no row, no object
  Op,              \* the operations the environment asks for
  MaxRequests,     \* bound of the model: requests in a behaviour
  Faults           \* of "query", "stat", "storage", "timeout", "stall", "die"

File == Key
Place == Folder \X Name
Row == [at : Place, status : {"UPLOADED", "COPYING"}]

ASSUME FileAssumption ==
  /\ Key # {} /\ Folder # {} /\ Name # {} /\ Op # {}
  /\ None # Gone /\ Gone \notin Key \cup Row /\ None \notin Row
  /\ Home \in [File -> Place]
  /\ \A f, g \in File : Home[f] = Home[g] => f = g
  /\ Op \subseteq {"move", "rename", "delete", "visibility", "apps"}
  /\ MaxRequests \in Nat
  /\ Faults \subseteq {"query", "stat", "storage", "timeout", "stall", "die"}

VARIABLES
  row,        \* committed row of a file, or Gone
  object,     \* what the store keeps at a place: a file's bytes, or Gone
  draft,      \* what a session's open transaction has written, None if nothing
  job,        \* the operation a session runs
  copy,       \* the entity it read
  step,       \* where it is
  asked,      \* requests so far
  open,       \* its transaction has not been closed by the database
  touched,    \* it changed the store
  cause       \* history: what has happened that can cost a file its object

vars == <<lockVars, row, object, draft, job, copy, step, asked, open, touched, cause>>

Job == [op : Op, file : File, folder : Folder, name : Name]
NoJob == CHOOSE j \in Job : TRUE

\* The arguments an operation does not have are those of NoJob.
Asked(j) ==
  /\ j.op # "delete" => j.folder = NoJob.folder \/ j.op = "move"
  /\ j.op # "delete" => j.name = NoJob.name \/ j.op = "rename"
  /\ j.op = "delete" => j.file = NoJob.file
Step == {"idle", "find", "early", "lock", "read", "check", "copying", "source",
         "copy", "cut", "uploaded", "delete", "erase", "write", "purge", "leave",
         "fail", "commit", "abort", "dead"}
Cause == {"lockLost", "uncommitted", "stale", "timeout", "rollback", "stat", "purge", "again"}

TypeOK ==
  /\ LockTypeOK
  /\ row \in [File -> Row \cup {Gone}]
  /\ object \in [Place -> File \cup {Gone}]
  /\ draft \in [Session -> Row \cup {Gone, None}]
  /\ job \in [Session -> Job]
  /\ copy \in [Session -> Row \cup {Gone}]
  /\ step \in [Session -> Step]
  /\ asked \in 0..MaxRequests
  /\ open \in [Session -> BOOLEAN]
  /\ touched \in [Session -> BOOLEAN]
  /\ cause \in SUBSET Cause

Init ==
  /\ LockInit
  /\ row = [f \in File |-> [at |-> Home[f], status |-> "UPLOADED"]]
  /\ object = [p \in Place |-> IF \E f \in File : Home[f] = p
                               THEN CHOOSE f \in File : Home[f] = p ELSE Gone]
  /\ draft = [s \in Session |-> None]
  /\ job = [s \in Session |-> NoJob]
  /\ copy = [s \in Session |-> Gone]
  /\ step = [s \in Session |-> "idle"]
  /\ asked = 0
  /\ open = [s \in Session |-> FALSE]
  /\ touched = [s \in Session |-> FALSE]
  /\ cause = {}

-----------------------------------------------------------------------------
(* The database. *)

Others(s) == Session \ {s}
Changing(f, S) == {t \in S : draft[t] # None /\ job[t].file = f}

\* What session s reads of file f.
Visible(s, f) ==
  IF draft[s] # None /\ job[s].file = f THEN draft[s] ELSE row[f]

\* Another transaction has written the row and is still open.
RowBusy(s, f) == Changing(f, Others(s)) # {}

\* The unique index on the object key: a transaction waits while another open
\* one takes or gives up the key, and fails when a committed row has it.
KeyBusy(s, f, p) ==
  \E t \in Others(s) :
    /\ draft[t] # None /\ job[t].file # f
    /\ \/ draft[t] # Gone /\ draft[t].at = p
       \/ row[job[t].file] # Gone /\ row[job[t].file].at = p
KeyTaken(f, p) == \E g \in File \ {f} : row[g] # Gone /\ row[g].at = p

\* The accidents after one more of kind c.
After(c) == cause \cup {IF c \in cause THEN "again" ELSE c}

Goto(s, l) == step' = [step EXCEPT ![s] = l]

\* FileRepository.update writes every column of the entity.  The row may have
\* been deleted since, and another row may have the key: the operation fails.
UpdateRow(s, r, next) ==
  LET f == job[s].file IN
  /\ ~RowBusy(s, f)
  /\ ~KeyBusy(s, f, r.at)
  /\ IF ~open[s] \/ row[f] = Gone \/ KeyTaken(f, r.at)
     THEN Goto(s, "fail") /\ UNCHANGED draft
     ELSE Goto(s, next) /\ draft' = [draft EXCEPT ![s] = r]
  /\ UNCHANGED <<row, copy>>

\* FileRepository.delete: a row that is gone is an error.
DeleteRow(s, next) ==
  LET f == job[s].file IN
  /\ ~RowBusy(s, f)
  /\ IF ~open[s] \/ row[f] = Gone
     THEN Goto(s, "fail") /\ UNCHANGED draft
     ELSE Goto(s, next) /\ draft' = [draft EXCEPT ![s] = Gone]
  /\ UNCHANGED <<row, copy>>

-----------------------------------------------------------------------------
(* A request: one operation inside one transaction. *)

Target(s) ==   \* the key the operation aims at, from the entity it read
  IF job[s].op = "move" THEN <<job[s].folder, copy[s].at[2]>>
                        ELSE <<copy[s].at[1], job[s].name>>

Keep == UNCHANGED <<row, object, draft, copy, asked, open, touched, cause>>

\* The controller opens the transaction and runs the command: deletions look for
\* the row first, target apps read it before they lock, the others lock at once.
Request(s, j) ==
  /\ step[s] = "idle" /\ Asked(j) /\ asked < MaxRequests
  /\ asked' = asked + 1
  /\ job' = [job EXCEPT ![s] = j]
  /\ IF j.op = "delete" THEN Goto(s, "find") /\ UNCHANGED lockVars
     ELSE IF j.op = "apps" THEN Goto(s, "early") /\ UNCHANGED lockVars
     ELSE Goto(s, "lock") /\ BeginLock(s, {j.file})
  /\ open' = [open EXCEPT ![s] = TRUE]
  /\ UNCHANGED <<row, object, draft, copy, touched, cause>>

\* The row of that path and name.  Without one the object, if there is one, is
\* deleted without a lock.  A query that fails, in a transaction that was closed or
\* otherwise, is taken for "no row" by DeleteUserFile, and ends DeleteCommonFile.
FindFile(s) ==
  LET p == <<job[s].folder, job[s].name>>
      found == {f \in File : row[f] # Gone /\ row[f].at = p}
      failing == ~open[s] \/ "query" \in Faults
  IN
  /\ step[s] = "find"
  /\ \/ /\ open[s]
        /\ \E f \in found : /\ job' = [job EXCEPT ![s].file = f]
                           /\ BeginLock(s, {f})
        /\ Goto(s, "lock")
     \/ /\ found = {} \/ failing
        /\ Goto(s, IF object[p] = Gone THEN "abort" ELSE "purge")
        /\ UNCHANGED <<lockVars, job>>
     \/ failing /\ Goto(s, "abort") /\ UNCHANGED <<lockVars, job>>
  /\ Keep

\* Some row, committed or not, has the key p.
Owned(s, p) == \/ \E f \in File : row[f] # Gone /\ row[f].at = p
               \/ \E t \in Others(s) : draft[t] \notin {None, Gone} /\ draft[t].at = p

PurgeObject(s) ==
  LET p == <<job[s].folder, job[s].name>> IN
  /\ step[s] = "purge"
  /\ object' = [object EXCEPT ![p] = Gone]
  /\ touched' = [touched EXCEPT ![s] = TRUE]
  /\ cause' = IF object[p] # Gone /\ Owned(s, p) THEN After("purge") ELSE cause
  /\ Goto(s, "commit")
  /\ UNCHANGED <<lockVars, row, draft, job, copy, open, asked>>

\* updateFileTargetApps reads the row before it locks the file.
ReadEarly(s) ==
  /\ step[s] = "early"
  /\ copy' = [copy EXCEPT ![s] = row[job[s].file]]
  /\ IF row[job[s].file] = Gone
     THEN Goto(s, "abort") /\ UNCHANGED lockVars
     ELSE Goto(s, "lock") /\ BeginLock(s, {job[s].file})
  /\ UNCHANGED <<row, object, draft, job, open, touched, cause, asked>>

\* The lock service's own steps of the request.
Locking(s) ==
  /\ step[s] \in {"lock", "leave", "fail"}
  /\ \/ \E k \in Key : GetLock(s, k) \/ MissLock(s, k) \/ DropLock(s, k)
     \/ step[s] \in {"leave", "fail"} /\ LeaveLocked(s)
  /\ IF phase[s] = "acquiring" /\ phase'[s] = "releasing"
     THEN Goto(s, "fail") ELSE UNCHANGED step
  /\ UNCHANGED <<row, object, draft, job, copy, open, touched, cause, asked>>

Locked(s) ==
  /\ step[s] = "lock"
  /\ EnterLocked(s)
  /\ Goto(s, IF job[s].op = "apps" THEN "write" ELSE "read")
  /\ UNCHANGED job
  /\ Keep

Beat(s) ==
  /\ \E k \in Key : Heartbeat(s, k)
  /\ UNCHANGED <<step, job>>
  /\ Keep

-----------------------------------------------------------------------------
(* The operations, under the lock. *)

Working(s, l) == step[s] = l /\ phase[s] = "locked" /\ UNCHANGED <<lockVars, job, asked>>

\* findById, access and status: whatever is not UPLOADED is refused.
ReadRow(s) ==
  LET f == job[s].file  r == Visible(s, f) IN
  /\ Working(s, "read")
  /\ copy' = [copy EXCEPT ![s] = r]
  /\ Goto(s, IF ~open[s] \/ r = Gone \/ r.status # "UPLOADED" THEN "fail"
             ELSE CASE job[s].op \in {"move", "rename"} -> "check"
                    [] job[s].op = "delete" -> "delete"
                    [] OTHER -> "write")
  /\ cause' = cause \cup (IF RowBusy(s, f) THEN {"uncommitted"} ELSE {})
                  \cup (IF slot[f] # s THEN {"lockLost"} ELSE {})
  /\ UNCHANGED <<row, object, draft, open, touched>>

\* What ensureDestinationAvailable says to callers that do not overwrite: the key
\* is free, or the source is gone and the object at the key may be it, or both
\* objects are the same bytes.
Available(from, to) ==
  object[to] = Gone \/ object[from] = Gone \/ object[from] = object[to]

CheckDestination(s) ==
  /\ Working(s, "check")
  /\ Goto(s, IF Target(s) = copy[s].at THEN "leave"
             ELSE IF Available(copy[s].at, Target(s)) THEN "copying" ELSE "fail")
  /\ Keep

\* Faulty: nobody looks whether another row has the key.
WriteCopyingUnchecked(s) ==
  /\ Working(s, "copying")
  /\ ~RowBusy(s, job[s].file)
  /\ draft' = [draft EXCEPT ![s] = [copy[s] EXCEPT !.status = "COPYING", !.at = Target(s)]]
  /\ Goto(s, "source")
  /\ UNCHANGED <<row, copy, object, open, touched, cause>>

\* Database first: the row takes the new key in status COPYING.
WriteCopying(s) ==
  /\ Working(s, "copying")
  /\ UpdateRow(s, [copy[s] EXCEPT !.status = "COPYING", !.at = Target(s)], "source")
  /\ UNCHANGED <<object, open, touched, cause>>

\* Faulty: the early return leaves the row in COPYING.
CheckSourceReturning(s) ==
  /\ Working(s, "source")
  /\ Goto(s, IF object[copy[s].at] = Gone THEN "leave" ELSE "copy")
  /\ UNCHANGED <<row, object, draft, copy, open, touched, cause>>

\* Without an object at the old key the row moves alone.  The MinIO driver also
\* answers so when it cannot tell.
CheckSource(s) ==
  /\ Working(s, "source")
  /\ \/ /\ Goto(s, IF object[copy[s].at] = Gone THEN "uploaded" ELSE "copy")
        /\ UNCHANGED cause
     \/ /\ "stat" \in Faults /\ object[copy[s].at] # Gone
        /\ Goto(s, "uploaded")
        /\ cause' = After("stat")
  /\ UNCHANGED <<row, object, draft, copy, open, touched>>

\* moveObject, first half: copy to the new key.
CopyObject(s) ==
  /\ Working(s, "copy")
  /\ \/ /\ object[copy[s].at] # Gone
        /\ object' = [object EXCEPT ![Target(s)] = object[copy[s].at]]
        /\ touched' = [touched EXCEPT ![s] = TRUE]
        /\ Goto(s, "cut")
     \/ /\ object[copy[s].at] = Gone \/ "storage" \in Faults
        /\ Goto(s, "fail")
        /\ UNCHANGED <<object, touched>>
  /\ UNCHANGED <<row, draft, copy, open, cause>>

\* moveObject, second half: remove the old key.
CutObject(s) ==
  /\ Working(s, "cut")
  /\ \/ object' = [object EXCEPT ![copy[s].at] = Gone] /\ Goto(s, "uploaded")
     \/ "storage" \in Faults /\ UNCHANGED object /\ Goto(s, "fail")
  /\ UNCHANGED <<row, draft, copy, open, touched, cause>>

\* Faulty: the entity that was read, with the old key.
WriteUploadedAsRead(s) ==
  /\ Working(s, "uploaded")
  /\ UpdateRow(s, copy[s], "leave")
  /\ UNCHANGED <<object, open, touched, cause>>

\* Back to UPLOADED.
WriteUploaded(s) ==
  /\ Working(s, "uploaded")
  /\ UpdateRow(s, [copy[s] EXCEPT !.at = Target(s)], "leave")
  /\ UNCHANGED <<object, open, touched, cause>>

\* deleteFile: the row first.
DeleteFileRow(s) ==
  /\ Working(s, "delete")
  /\ DeleteRow(s, "erase")
  /\ UNCHANGED <<object, open, touched, cause>>

\* Then the object, at the key the entity had.
EraseObject(s) ==
  /\ Working(s, "erase")
  /\ \/ /\ object' = [object EXCEPT ![copy[s].at] = Gone]
        /\ touched' = [touched EXCEPT ![s] = object[copy[s].at] # Gone]
        /\ Goto(s, "leave")
     \/ /\ "storage" \in Faults /\ object[copy[s].at] # Gone
        /\ Goto(s, "fail")
        /\ UNCHANGED <<object, touched>>
  /\ UNCHANGED <<row, draft, copy, open, cause>>

\* setFileVisibility and updateFileTargetApps write the whole row: the second
\* one as it was before the file was locked.  The columns they are about are left
\* out of the row.
WriteRow(s) ==
  /\ Working(s, "write")
  /\ UpdateRow(s, copy[s], "leave")
  /\ cause' = cause \cup (IF row[job[s].file] # copy[s] THEN {"stale"} ELSE {})
  /\ UNCHANGED <<object, open, touched>>

-----------------------------------------------------------------------------
(* The end of the transaction. *)

Reset(s) ==
  /\ draft' = [draft EXCEPT ![s] = None]
  /\ open' = [open EXCEPT ![s] = FALSE]
  /\ touched' = [touched EXCEPT ![s] = FALSE]
  /\ copy' = [copy EXCEPT ![s] = Gone]
  /\ job' = [job EXCEPT ![s] = NoJob]

\* withFileLock returns, or throws, to the controller after it has released the
\* lock, while the transaction is open.
Unlocked(s) ==
  /\ step[s] \in {"leave", "fail"}
  /\ EndCall(s)
  /\ Goto(s, IF step[s] = "leave" THEN "commit" ELSE "abort")
  /\ UNCHANGED job
  /\ Keep

Commit(s) ==
  /\ step[s] = "commit" /\ open[s]
  /\ row' = IF draft[s] = None THEN row ELSE [row EXCEPT ![job[s].file] = draft[s]]
  /\ Goto(s, "idle")
  /\ Reset(s)
  /\ UNCHANGED <<lockVars, object, cause, asked>>

\* The store keeps what it has been told.
Rollback(s) ==
  /\ step[s] = "abort" \/ (step[s] = "commit" /\ ~open[s])
  /\ cause' = IF touched[s] THEN After("rollback") ELSE cause
  /\ Goto(s, "idle")
  /\ Reset(s)
  /\ UNCHANGED <<lockVars, row, object, asked>>

\* The database closes the transaction (5 seconds, or a lost connection); the
\* program notices at its next statement.
Timeout(s) ==
  /\ "timeout" \in Faults
  /\ open[s]
  /\ open' = [open EXCEPT ![s] = FALSE]
  /\ draft' = [draft EXCEPT ![s] = None]
  /\ cause' = cause \cup {"timeout"}
  /\ UNCHANGED <<lockVars, row, object, job, copy, step, touched, asked>>

\* The process dies: the database rolls back, the lock stays until it runs out.
Die(s) ==
  /\ "die" \in Faults
  /\ step[s] \notin {"idle", "dead"}
  /\ IF phase[s] = "free"
     THEN UNCHANGED lockVars ELSE LockerDies(s)
  /\ cause' = IF touched[s] THEN After("rollback") ELSE cause
  /\ Goto(s, "dead")
  /\ Reset(s)
  /\ UNCHANGED <<row, object, asked>>

\* The next request of another process.
Restart(s) ==
  /\ step[s] = "dead"
  /\ Goto(s, "idle")
  /\ IF phase[s] = "dead" THEN LockerRestarts(s) ELSE UNCHANGED lockVars
  /\ UNCHANGED job
  /\ Keep

\* A live holder refreshes its key in time unless its process stalls.
Refreshed ==
  \A k \in Key : slotTtl[k] = 1 /\ slot[k] # None =>
                   \/ k \notin taken[slot[k]]
                   \/ phase[slot[k]] # "locked"

Tick ==
  /\ Refreshed \/ "stall" \in Faults
  /\ SlotTick
  /\ cause' = IF \E k \in Key : slotTtl[k] = 1 /\ \E s \in Session : k \in taken[s]
              THEN cause \cup {"lockLost"} ELSE cause
  /\ UNCHANGED <<row, object, draft, job, copy, step, open, touched, asked>>

Advance(s) ==
  \/ FindFile(s) \/ PurgeObject(s) \/ ReadEarly(s) \/ Locking(s) \/ Locked(s)
  \/ ReadRow(s) \/ CheckDestination(s) \/ WriteCopying(s) \/ CheckSource(s)
  \/ CopyObject(s) \/ CutObject(s) \/ WriteUploaded(s)
  \/ DeleteFileRow(s) \/ EraseObject(s) \/ WriteRow(s)
  \/ Unlocked(s) \/ Commit(s) \/ Rollback(s)

Next ==
  \/ Tick
  \/ \E s \in Session :
       \/ \E j \in Job : Request(s, j)
       \/ Advance(s) \/ Beat(s) \/ Timeout(s) \/ Die(s) \/ Restart(s)

Spec == Init /\ [][Next]_vars

-----------------------------------------------------------------------------
(* Properties. *)

\* No committed row is ever in COPYING: the status that blocks every operation on
\* a file is gone when its transaction ends, whichever way moveFile or renameFile
\* left, so a crash or an early return never leaves a file stuck.
NeverLeftCopying ==
  \A f \in File : row[f] # Gone => row[f].status = "UPLOADED"

\* An uploaded file that no transaction is changing is served from the key of its
\* row, unless one of the named accidents happened: a lock ran out during an
\* operation, a row was read or written back while another transaction had not
\* committed its change or before it did, a transaction rolled back after the store
\* was changed, the driver took an error for absence, or an object was removed by
\* name because its row was being moved or could not be read.
ServedWithoutAccident ==
  cause = {} =>
    \A f \in File : row[f] # Gone /\ Changing(f, Session) = {} => object[row[f].at] = f

\* A key is never served with the bytes of another file that still has a row, not
\* even after one transaction rolled back with the store changed, or one object was
\* removed under its row, or one error was taken for absence: the unique index keeps
\* movers away from a key until its owner has left it (WriteCopying before
\* CopyObject).  It takes two: bytes lost in one accident and an orphan left by
\* another, which "source gone, destination there" takes for the file itself.
OneAccident == \E c \in {"rollback", "purge", "stat"} : cause \subseteq {c}

NoForeignBytes ==
  OneAccident =>
    \A f \in File : row[f] # Gone =>
      \/ object[row[f].at] \in {f, Gone}
      \/ row[object[row[f].at]] = Gone
=============================================================================
