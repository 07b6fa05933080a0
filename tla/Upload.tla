-------------------------------- MODULE Upload --------------------------------
(***************************************************************************)
(* Multipart uploads of one user: MultipartUploadService with the counters *)
(* of ConcurrencyService, the reservations of FileQuotaService, the locks  *)
(* of FileLockService, the file table, the database transaction that the   *)
(* controller wraps around "initiate" and "complete", and the object store. *)
(*                                                                         *)
(* Everything is keyed by user, so one user is enough.  An attempt is one  *)
(* call of initiate; it names the multipart session it opens and the file  *)
(* record it inserts.  Time is the age of a record: 0 while the upload is  *)
(* live, 1 once isUploadExpired refuses it, 2 once the cleanup worker may  *)
(* pick it.                                                                *)
(***************************************************************************)
EXTENDS RedisCounters, FiniteSets, FiniteSetsExt

CONSTANTS
  Attempt,     \* calls of initiate; also names of records, sessions and paths
  Wanted,      \* Wanted[u]: the path u asks for, named by an attempt
  Size,        \* Size[u]: bytes declared by u
  MaxQuota,    \* storage quota of the user's tier
  MaxSlots,    \* min(globalMaxSimultaneousFiles, maxSimultaneousFiles)
  Request,     \* HTTP requests that run at the same time
  Cleaner,     \* the stale-uploads-cleanup worker
  Absent,      \* no record
  None,        \* nobody, no lock
  Dead,        \* holder of a lock that nobody holds any more
  Ops,         \* the operations clients call
  Faults,      \* what may go wrong: "storage", "tx", "redis", "crash"
  Expiry,      \* when counters run out: "quiet", "stale" or "long"
  StatErrorMeansAbsent  \* objectExists answers false when the store fails

ASSUME SetAssumption ==
  /\ IsFiniteSet(Attempt) /\ IsFiniteSet(Request)
  /\ Cleaner \notin Request
  /\ None \notin Attempt /\ Absent \notin [path : Attempt, mpu : Attempt,
       st : {"uploading", "uploaded"}, age : 0..2]
  /\ {None, Dead} \cap (Request \cup {Cleaner}) = {} /\ None # Dead
ASSUME LimitAssumption ==
  /\ Wanted \in [Attempt -> Attempt]
  /\ Size \in [Attempt -> Nat \ {0}]
  /\ MaxQuota \in Nat /\ MaxSlots \in Nat
ASSUME SwitchAssumption ==
  /\ Ops \subseteq {"initiate", "complete", "abort", "heartbeat", "clear"}
  /\ Faults \subseteq {"storage", "tx", "redis", "crash"}
  /\ Expiry \in {"quiet", "stale", "long"}
  /\ StatErrorMeansAbsent \in BOOLEAN

VARIABLES
  row,         \* the committed file records
  mpu,         \* the multipart sessions of the object store
  objects,     \* paths under which the object store has an object
  slots,       \* counter of concurrent uploads
  reserved,    \* counter of reserved bytes
  unrecorded,  \* history: attempts let through without their reservation
  userLock, quotaLock, fileLock,
  req          \* the running operations

redis == <<slots, reserved, unrecorded>>
locks == <<userLock, quotaLock, fileLock>>
store == <<mpu, objects>>
vars == <<row, store, redis, locks, req>>

Process == Request \cup {Cleaner}
Row == [path : Attempt, mpu : Attempt, st : {"uploading", "uploaded"}, age : 0..2]
Location == {"idle", "i_reserve", "i_slot", "i_store", "i_refund", "i_undo",
  "commit", "c_store", "c_update", "c_finalize", "c_release", "c_catch",
  "c_finally", "a_delete", "a_commit", "a_refund", "h_update", "next", "k_delete"}
Write == [id : Attempt \cup {None}, row : Row \cup {Absent}]

Operation == [pc : Location, op : Ops \cup {"none", "cleanup"}, id : Attempt \cup {None},
              seen : Row \cup {Absent}, tx : {"none", "open", "closed"}, write : Write,
              todo : SUBSET [id : Attempt, row : Row], failed : BOOLEAN]

NoWrite == [id |-> None, row |-> Absent]

\* A request that is not running: op and the other fields say nothing.
Idle == [pc |-> "idle", op |-> "none", id |-> None, seen |-> Absent,
         tx |-> "none", write |-> NoWrite, todo |-> {}, failed |-> FALSE]

TypeOK ==
  /\ row \in [Attempt -> Row \cup {Absent}]
  /\ mpu \in [Attempt -> {"none", "open", "completed", "aborted"}]
  /\ objects \subseteq Attempt
  /\ slots \in Key /\ reserved \in Key /\ unrecorded \subseteq Attempt
  /\ userLock \in Process \cup {None, Dead}
  /\ quotaLock \in Process \cup {None, Dead}
  /\ fileLock \in [Attempt -> Process \cup {None, Dead}]
  /\ req \in [Process -> Operation]

Init ==
  /\ row = [u \in Attempt |-> Absent]
  /\ mpu = [u \in Attempt |-> "none"]
  /\ objects = {}
  /\ slots = Missing /\ reserved = Missing /\ unrecorded = {}
  /\ userLock = None /\ quotaLock = None
  /\ fileLock = [u \in Attempt |-> None]
  /\ req = [p \in Process |-> Idle]

-----------------------------------------------------------------------------
(* What the queries of FileRepository answer: committed records. *)

Present(id) == row[id] # Absent
Uploading(id) == Present(id) /\ row[id].st = "uploading"
Uploaded(id) == Present(id) /\ row[id].st = "uploaded"
Active == {id \in Attempt : Uploading(id)}
UsedBytes ==
  MapThenSumSet(LAMBDA id : Size[row[id].mpu], {id \in Attempt : Uploaded(id)})
RecordAt(path) == {id \in Attempt : Present(id) /\ row[id].path = path}

\* A row that another open transaction has written is locked until it ends.
RowFree(p, id) == \A q \in Process \ {p} : req[q].write.id # id
PathFree(p, path) ==
  \A q \in Process \ {p} :
    LET w == req[q].write IN
    w.id # None => /\ w.row # Absent => w.row.path # path
                   /\ Present(w.id) => row[w.id].path # path

At(p, pc) == req[p].pc = pc
Goto(p, pc) == req' = [req EXCEPT ![p].pc = pc]
Ends(p) == req' = [req EXCEPT ![p] = Idle]
Calls(p, op) == p \in Request /\ At(p, "idle") /\ op \in Ops
Unlocked(p) == [id \in Attempt |-> IF fileLock[id] = p THEN None ELSE fileLock[id]]

\* ConcurrencyService swallows every Redis error and its callers go on: what a
\* counter may be after the call that turns it from old into new.
Outcomes(old, new) == {new} \cup {k \in {old} : "redis" \in Faults}

\* getReservedQuota: a read that fails counts as no reservation (only below the
\* quota: the bound on the counter).
ReservedReads ==
  {reserved.n} \cup {n \in {0} : "redis" \in Faults /\ reserved.n < MaxQuota}

-----------------------------------------------------------------------------
(* initiateUpload, inside the controller's transaction. *)

\* withUserLock makes one attempt.  validateDuplicatePathUpload (no upsert)
\* refuses a path that has a record.
BeginInitiate(p, u) ==
  /\ Calls(p, "initiate")
  /\ mpu[u] = "none" /\ \A q \in Process : req[q].id # u
  /\ userLock = None
  /\ RecordAt(Wanted[u]) = {}
  /\ userLock' = p
  /\ req' = [req EXCEPT ![p] = [Idle EXCEPT !.pc = "i_reserve", !.op = "initiate",
                                            !.id = u, !.tx = "open"]]
  /\ UNCHANGED <<row, store, redis, quotaLock, fileLock>>

\* The request throws: the user lock is released, the transaction rolled back.
InitiateThrows(p) == Ends(p) /\ userLock' = None

\* performQuotaCheck, when the reservations read are so many bytes.
Fits(u, bytes) ==
  /\ UsedBytes + bytes + Size[u] <= MaxQuota
  /\ Cardinality(Active) < MaxSlots

\* addReservation.  A failed adjustCounterWithTtl answers 0 and nobody looks at
\* the answer: the upload is let through (once for an attempt, the bound).
AddReservation(u) ==
  \/ reserved' = Adjusted(reserved, Size[u]) /\ UNCHANGED unrecorded
  \/ /\ "redis" \in Faults /\ u \notin unrecorded
     /\ unrecorded' = unrecorded \cup {u} /\ UNCHANGED reserved

\* checkAndReserveQuota, the work done under the quota lock.
Reserve(p) ==
  /\ At(p, "i_reserve") /\ quotaLock = p
  /\ quotaLock' = None
  /\ \E bytes \in ReservedReads :
       \/ /\ req[p].tx = "open" /\ Fits(req[p].id, bytes)
          /\ AddReservation(req[p].id)
          /\ Goto(p, "i_slot")
          /\ UNCHANGED userLock
       \/ /\ req[p].tx = "open" => ~Fits(req[p].id, bytes)
          /\ InitiateThrows(p)
          /\ UNCHANGED <<reserved, unrecorded>>
  /\ UNCHANGED <<row, store, slots, fileLock>>

\* generateUniqueFileName: the wanted name, or a free one if it was taken since.
FreePaths(u) ==
  IF RecordAt(Wanted[u]) = {} THEN {Wanted[u]}
  ELSE {path \in Attempt : RecordAt(path) = {}}

\* tryAcquireSlot, then the name is chosen; a script whose answer is lost counts
\* as refused, whether it took the slot or not.  The read of the storage
\* configuration before it is outside of every catch: with a closed transaction
\* the reservation stays behind.
AcquireSlot(p) ==
  LET u == req[p].id IN
  /\ At(p, "i_slot")
  /\ \/ /\ req[p].tx = "open" /\ Grants(slots, MaxSlots)
        /\ slots' = Acquired(slots)
        /\ \E path \in FreePaths(u) :
             req' = [req EXCEPT ![p].pc = "i_store", ![p].seen =
                       [path |-> path, mpu |-> u, st |-> "uploading", age |-> 0]]
        /\ UNCHANGED userLock
     \/ /\ req[p].tx = "open"
        /\ \/ ~Grants(slots, MaxSlots) /\ UNCHANGED slots
           \/ /\ "redis" \in Faults /\ Grants(slots, MaxSlots)
              /\ slots' \in {slots, Acquired(slots)}
        /\ Goto(p, "i_refund") /\ UNCHANGED userLock
     \/ /\ req[p].tx = "closed"
        /\ InitiateThrows(p) /\ UNCHANGED slots
  /\ UNCHANGED <<row, store, reserved, unrecorded, quotaLock, fileLock>>

\* save writes an upsert on the path: a record it meets keeps its id.
Upsert(r) ==
  [id |-> IF RecordAt(r.path) = {} THEN r.mpu ELSE CHOOSE id \in RecordAt(r.path) : TRUE,
   row |-> r]

\* The record is saved, the session opened and its id written; the user lock is
\* released before the controller commits.
Store(p) ==
  LET r == req[p].seen IN
  /\ At(p, "i_store")
  /\ req[p].tx = "open" /\ PathFree(p, r.path)
  /\ mpu' = [mpu EXCEPT ![r.mpu] = "open"]
  /\ req' = [req EXCEPT ![p].pc = "commit", ![p].write = Upsert(r)]
  /\ userLock' = None
  /\ UNCHANGED <<row, objects, redis, quotaLock, fileLock>>

\* The record, the session or the second write fails: compensation.
StoreFails(p) ==
  /\ At(p, "i_store")
  /\ req[p].tx = "closed" \/ "storage" \in Faults
  /\ mpu' \in {mpu, [mpu EXCEPT ![req[p].id] = "open"]}
  /\ Goto(p, "i_undo")
  /\ UNCHANGED <<row, objects, redis, locks>>

\* The controller's transaction ends.
Commit(p) ==
  /\ At(p, "commit")
  /\ row' = IF req[p].tx = "open"
            THEN [row EXCEPT ![req[p].write.id] = req[p].write.row] ELSE row
  /\ Ends(p)
  /\ UNCHANGED <<store, redis, locks>>

-----------------------------------------------------------------------------
(* withQuotaLock makes one attempt; the lock is held over the work under it. *)

WantsQuotaLock(p) ==
  /\ req[p].pc \in {"i_reserve", "i_refund", "i_undo", "c_finalize", "a_refund"}
  /\ quotaLock # p

TakeQuotaLock(p) ==
  /\ WantsQuotaLock(p) /\ quotaLock = None
  /\ quotaLock' = p
  /\ UNCHANGED <<row, store, redis, userLock, fileLock, req>>

QuotaLockBusy(p) ==
  /\ WantsQuotaLock(p) /\ quotaLock # None
  /\ \/ /\ At(p, "i_reserve") /\ InitiateThrows(p)
     \/ /\ At(p, "c_finalize") /\ Goto(p, "c_catch") /\ UNCHANGED userLock
  /\ UNCHANGED <<row, store, redis, quotaLock, fileLock>>

\* executeAbortUpload and the cleanup of one record return to their caller.
AbortReturns(p, threw) ==
  LET r == req[p] IN
  CASE r.op = "abort" -> Ends(p) /\ fileLock' = Unlocked(p)
    [] r.op = "complete" -> Goto(p, "c_finally") /\ UNCHANGED fileLock
    [] r.op \in {"clear", "cleanup"} ->
         /\ req' = [req EXCEPT ![p].pc = "next", ![p].id = None, ![p].seen = Absent,
                      ![p].todo = {t \in @ : t.id # r.id}, ![p].write = NoWrite,
                      ![p].failed = @ \/ (threw /\ r.op = "clear")]
         /\ fileLock' = Unlocked(p)

\* Compensation with Promise.allSettled: the reservation is given back when the
\* quota lock is free and left behind when it is busy, the slot is released
\* either way (a refused initiate has none).
Refund(p) ==
  /\ req[p].pc \in {"i_refund", "i_undo", "a_refund"}
  /\ \/ /\ quotaLock = p /\ quotaLock' = None
        /\ reserved' \in Outcomes(reserved, Decremented(reserved,
             Size[IF At(p, "a_refund") THEN req[p].seen.mpu ELSE req[p].id]))
     \/ /\ quotaLock \notin {None, p}
        /\ UNCHANGED <<quotaLock, reserved>>
  /\ IF At(p, "i_refund") THEN UNCHANGED slots
     ELSE slots' \in Outcomes(slots, Released(slots))
  /\ IF At(p, "a_refund")
     THEN AbortReturns(p, FALSE) /\ UNCHANGED userLock
     ELSE InitiateThrows(p) /\ UNCHANGED fileLock
  /\ UNCHANGED <<row, store, unrecorded>>

-----------------------------------------------------------------------------
(* completeUpload, inside the controller's transaction. *)

\* withFileLock makes one attempt; then the record is read and checked.
BeginComplete(p, id) ==
  /\ Calls(p, "complete")
  /\ fileLock[id] = None
  /\ Uploading(id) /\ row[id].age = 0
  /\ fileLock' = [fileLock EXCEPT ![id] = p]
  /\ req' = [req EXCEPT ![p] = [Idle EXCEPT !.pc = "c_store", !.op = "complete",
                                  !.id = id, !.seen = row[id], !.tx = "open"]]
  /\ UNCHANGED <<row, store, redis, userLock, quotaLock>>

\* storageService.completeMultipartUpload.
CompleteInStore(p) ==
  LET s == req[p].seen IN
  /\ At(p, "c_store") /\ mpu[s.mpu] = "open"
  /\ mpu' = [mpu EXCEPT ![s.mpu] = "completed"]
  /\ objects' = objects \cup {s.path}
  /\ \/ Goto(p, "c_update")
     \/ "storage" \in Faults /\ Goto(p, "c_catch")    \* the answer is lost
  /\ UNCHANGED <<row, redis, locks>>

\* Faulty: the failure is ignored.
CompleteInStoreIgnored(p) ==
  /\ At(p, "c_store") /\ Goto(p, "c_update")
  /\ UNCHANGED <<row, store, redis, locks>>

\* It fails: the session is gone, the store is down, or the parts are larger
\* than declared and the storage service aborts the session itself.
CompleteInStoreFails(p) ==
  LET s == req[p].seen IN
  /\ At(p, "c_store")
  /\ \/ mpu[s.mpu] # "open" /\ UNCHANGED mpu
     \/ /\ "storage" \in Faults /\ mpu[s.mpu] = "open"
        /\ mpu' \in {mpu, [mpu EXCEPT ![s.mpu] = "aborted"]}
  /\ Goto(p, "c_catch")
  /\ UNCHANGED <<row, objects, redis, locks>>

\* fileRepository.update of the record read before, in the transaction.
CompleteUpdate(p) ==
  LET r == req[p] IN
  /\ At(p, "c_update") /\ (r.tx = "open" => RowFree(p, r.id))
  /\ IF r.tx = "open" /\ Present(r.id)
     THEN req' = [req EXCEPT ![p].pc = "c_finalize", ![p].write =
            [id |-> r.id, row |-> [r.seen EXCEPT !.st = "uploaded", !.age = 0]]]
     ELSE Goto(p, "c_catch")
  /\ UNCHANGED <<row, store, redis, locks>>

\* finalizeQuotaUsage, the work done under the quota lock.
Finalize(p) ==
  /\ At(p, "c_finalize") /\ quotaLock = p
  /\ quotaLock' = None
  /\ reserved' \in Outcomes(reserved, Decremented(reserved, Size[req[p].seen.mpu]))
  /\ Goto(p, "c_release")
  /\ UNCHANGED <<row, store, slots, unrecorded, userLock, fileLock>>

\* The catch calls abortUpload, which reads the record through the open
\* transaction: it throws when that is closed or shows the update made in it.
CompleteCatch(p) ==
  LET r == req[p] IN
  /\ At(p, "c_catch")
  /\ IF r.tx = "open" /\ r.write = NoWrite /\ Uploading(r.id)
     THEN req' = [req EXCEPT ![p].pc = "a_delete", ![p].seen = row[r.id]]
     ELSE Goto(p, "c_finally")
  /\ UNCHANGED <<row, store, redis, locks>>

\* finally: the slot, then the file lock; the controller commits or rolls back.
CompleteFinally(p) ==
  /\ req[p].pc \in {"c_release", "c_finally"}
  /\ slots' \in Outcomes(slots, Released(slots))
  /\ fileLock' = Unlocked(p)
  /\ IF At(p, "c_release") THEN Goto(p, "commit") ELSE Ends(p)
  /\ UNCHANGED <<row, store, reserved, unrecorded, userLock, quotaLock>>

-----------------------------------------------------------------------------
(* abortUpload and the transaction of its own that it runs. *)

BeginAbort(p, id) ==
  /\ Calls(p, "abort")
  /\ fileLock[id] = None /\ Uploading(id)
  /\ fileLock' = [fileLock EXCEPT ![id] = p]
  /\ req' = [req EXCEPT ![p] = [Idle EXCEPT !.pc = "a_delete", !.op = "abort",
                                            !.id = id, !.seen = row[id]]]
  /\ UNCHANGED <<row, store, redis, userLock, quotaLock>>

\* What objectExists answers.
ObjectExists(path) ==
  {answer \in BOOLEAN : \/ answer = (path \in objects)
                        \/ "storage" \in Faults /\ answer = ~StatErrorMeansAbsent}

\* Faulty: the record is deleted although the store refuses and has the object.
AbortDeleteAnyway(p) ==
  LET r == req[p] IN
  /\ At(p, "a_delete") /\ RowFree(p, r.id)
  /\ IF Present(r.id)
     THEN /\ mpu' = IF mpu[r.seen.mpu] = "open"
                    THEN [mpu EXCEPT ![r.seen.mpu] = "aborted"] ELSE mpu
          /\ req' = [req EXCEPT ![p].pc = "a_commit", ![p].write = [id |-> r.id, row |-> Absent]]
          /\ UNCHANGED fileLock
     ELSE AbortReturns(p, TRUE) /\ UNCHANGED mpu
  /\ UNCHANGED <<row, objects, redis, userLock, quotaLock>>

\* The record is deleted and the session aborted.  When the store refuses, the
\* deletion stands only if there is no object; otherwise the transaction is
\* rolled back and the abort throws, as it does when the record is gone.
AbortDelete(p) ==
  LET r == req[p]
      session == mpu[r.seen.mpu]
      deletes == req' = [req EXCEPT ![p].pc = "a_commit",
                                    ![p].write = [id |-> r.id, row |-> Absent]]
  IN
  /\ At(p, "a_delete") /\ RowFree(p, r.id)
  /\ \/ /\ Present(r.id) /\ session = "open"
        /\ mpu' = [mpu EXCEPT ![r.seen.mpu] = "aborted"]
        /\ deletes /\ UNCHANGED fileLock
     \/ /\ Present(r.id) /\ (session # "open" \/ "storage" \in Faults)
        /\ UNCHANGED mpu
        /\ \/ FALSE \in ObjectExists(r.seen.path) /\ deletes /\ UNCHANGED fileLock
           \/ TRUE \in ObjectExists(r.seen.path) /\ AbortReturns(p, TRUE)
     \/ /\ ~Present(r.id)
        /\ AbortReturns(p, TRUE) /\ UNCHANGED mpu
  /\ UNCHANGED <<row, objects, redis, userLock, quotaLock>>

AbortCommit(p) ==
  /\ At(p, "a_commit")
  /\ \/ /\ row' = [row EXCEPT ![req[p].id] = Absent]
        /\ req' = [req EXCEPT ![p].pc = "a_refund", ![p].write = NoWrite]
        /\ UNCHANGED fileLock
     \/ /\ "tx" \in Faults
        /\ UNCHANGED row
        /\ IF req[p].op = "complete"
           THEN req' = [req EXCEPT ![p].pc = "c_finally", ![p].write = NoWrite] /\ UNCHANGED fileLock
           ELSE AbortReturns(p, TRUE)
  /\ UNCHANGED <<store, redis, userLock, quotaLock>>

-----------------------------------------------------------------------------
(* heartbeat: no lock, no transaction. *)

BeginHeartbeat(p, id) ==
  /\ Calls(p, "heartbeat")
  /\ Uploading(id) /\ row[id].age = 0
  /\ req' = [req EXCEPT ![p] = [Idle EXCEPT !.pc = "h_update", !.op = "heartbeat",
                                            !.id = id, !.seen = row[id]]]
  /\ UNCHANGED <<row, store, redis, locks>>

\* Faulty: an upsert instead of an update.
HeartbeatUpsert(p) ==
  LET r == req[p] IN
  /\ At(p, "h_update") /\ RowFree(p, r.id)
  /\ row' = [row EXCEPT ![r.id] = [r.seen EXCEPT !.age = 0]]
  /\ Ends(p)
  /\ UNCHANGED <<store, redis, locks>>

\* The whole record read before is written back; updating a record that is gone
\* throws.  EXPIRE of the slots changes neither the count nor that it has a TTL.
HeartbeatUpdate(p) ==
  LET r == req[p] IN
  /\ At(p, "h_update") /\ RowFree(p, r.id)
  /\ row' = IF Present(r.id) THEN [row EXCEPT ![r.id] = [r.seen EXCEPT !.age = 0]] ELSE row
  /\ Ends(p)
  /\ UNCHANGED <<store, redis, locks>>

-----------------------------------------------------------------------------
(* ClearUserConcurrencySlotsHandler and the cleanup worker go through a list. *)

Listed(ids) == {[id |-> id, row |-> row[id]] : id \in ids}

BeginClear(p) ==
  /\ Calls(p, "clear")
  /\ req' = [req EXCEPT ![p] = [Idle EXCEPT !.pc = "next", !.op = "clear",
                                            !.todo = Listed(Active)]]
  /\ UNCHANGED <<row, store, redis, locks>>

\* abortUpload of the next record: a busy lock (or a Redis that fails) or a record
\* that is not being uploaded any more counts as an error, one that is gone does
\* not.
ClearNext(p, t) ==
  /\ At(p, "next") /\ req[p].op = "clear" /\ t \in req[p].todo
  /\ \/ /\ fileLock[t.id] = None /\ Uploading(t.id)
        /\ fileLock' = [fileLock EXCEPT ![t.id] = p]
        /\ req' = [req EXCEPT ![p].pc = "a_delete", ![p].id = t.id, ![p].seen = row[t.id]]
     \/ /\ fileLock[t.id] # None \/ "redis" \in Faults
        /\ req' = [req EXCEPT ![p].todo = @ \ {t}, ![p].failed = TRUE]
        /\ UNCHANGED fileLock
     \/ /\ fileLock[t.id] = None /\ ~Uploading(t.id)
        /\ req' = [req EXCEPT ![p].todo = @ \ {t}, ![p].failed = @ \/ Present(t.id)]
        /\ UNCHANGED fileLock
  /\ UNCHANGED <<row, store, redis, userLock, quotaLock>>

\* clearUserSlots, only if every abort succeeded.
ClearSlots(p) ==
  /\ At(p, "next") /\ req[p].op = "clear" /\ req[p].todo = {}
  /\ slots' \in IF req[p].failed THEN {slots} ELSE Outcomes(slots, Missing)
  /\ Ends(p)
  /\ UNCHANGED <<row, store, reserved, unrecorded, locks>>

\* cleanupExpiredUploads: findExpiredUploads is read once.
BeginCleanup ==
  LET stale == {id \in Active : row[id].age = 2} IN
  /\ At(Cleaner, "idle") /\ stale # {}
  /\ req' = [req EXCEPT ![Cleaner] = [Idle EXCEPT !.pc = "next", !.op = "cleanup",
                                                  !.todo = Listed(stale)]]
  /\ UNCHANGED <<row, store, redis, locks>>

\* The session is aborted without a file lock; an error skips the record.
CleanupAbort(t) ==
  LET session == t.row.mpu IN
  /\ At(Cleaner, "next") /\ t \in req[Cleaner].todo
  /\ \/ /\ mpu[session] = "open"
        /\ mpu' = [mpu EXCEPT ![session] = "aborted"]
        /\ req' = [req EXCEPT ![Cleaner].pc = "k_delete",
                              ![Cleaner].id = t.id, ![Cleaner].seen = t.row]
     \/ /\ mpu[session] # "open" \/ "storage" \in Faults
        /\ req' = [req EXCEPT ![Cleaner].todo = @ \ {t}]
        /\ UNCHANGED mpu
  /\ UNCHANGED <<row, objects, redis, locks>>

\* Faulty: what was reserved is released even if another deleted the record.
CleanupDeleteOrGone ==
  LET id == req[Cleaner].id IN
  /\ At(Cleaner, "k_delete") /\ RowFree(Cleaner, id)
  /\ row' = [row EXCEPT ![id] = Absent]
  /\ Goto(Cleaner, "a_refund")
  /\ UNCHANGED <<store, redis, locks>>

\* Faulty: the record is forgotten.
CleanupWithoutDelete ==
  /\ At(Cleaner, "k_delete") /\ Goto(Cleaner, "a_refund")
  /\ UNCHANGED <<row, store, redis, locks>>

\* Deleting a record that is gone throws: nothing is released for it.
CleanupDelete ==
  LET id == req[Cleaner].id IN
  /\ At(Cleaner, "k_delete") /\ RowFree(Cleaner, id)
  /\ IF Present(id)
     THEN /\ row' = [row EXCEPT ![id] = Absent]
          /\ Goto(Cleaner, "a_refund") /\ UNCHANGED fileLock
     ELSE AbortReturns(Cleaner, FALSE) /\ UNCHANGED row
  /\ UNCHANGED <<store, redis, userLock, quotaLock>>

EndCleanup ==
  /\ At(Cleaner, "next") /\ req[Cleaner].todo = {}
  /\ Ends(Cleaner)
  /\ UNCHANGED <<row, store, redis, locks>>

-----------------------------------------------------------------------------
(* Time and failures. *)

\* Minutes pass.  The last one does not pass while a transaction or a heartbeat
\* that found the upload live is still open: transactions live five seconds.
Age(id) ==
  /\ Uploading(id) /\ row[id].age < 2
  /\ row[id].age = 1 => \A p \in Process :
       req[p].id = id => req[p].tx # "open" /\ ~At(p, "h_update")
  /\ row' = [row EXCEPT ![id].age = @ + 1]
  /\ UNCHANGED <<store, redis, locks, req>>

\* An interactive transaction runs out (or loses its connection).
TxTimeout(p) ==
  /\ "tx" \in Faults /\ req[p].tx = "open"
  /\ req[p].pc \in {"i_reserve", "i_slot", "i_store", "commit", "c_store", "c_update", "c_finalize"}
  /\ req' = [req EXCEPT ![p].tx = "closed", ![p].write = NoWrite]
  /\ UNCHANGED <<row, store, redis, locks>>

\* Two hours without an acquire or a heartbeat (slots) or a new reservation: no
\* request lasts that long.  "quiet": nor does an upload; "stale": one that the
\* worker failed to clean may; "long": heartbeats keep one alive, which renews
\* the slots and not the reservation.
MayExpire(counter) ==
  /\ \A p \in Process : At(p, "idle")
  /\ CASE Expiry = "quiet" -> Active = {}
       [] Expiry = "stale" -> \A id \in Active : row[id].age = 2
       [] Expiry = "long" -> counter = "reserved" \/ \A id \in Active : row[id].age = 2

SlotsExpire ==
  /\ slots.ttl /\ MayExpire("slots")
  /\ slots' = Missing
  /\ UNCHANGED <<row, store, reserved, unrecorded, locks, req>>

ReservedExpires ==
  /\ reserved.ttl /\ MayExpire("reserved")
  /\ reserved' = Missing
  /\ UNCHANGED <<row, store, slots, unrecorded, locks, req>>

\* The process dies: its transaction is rolled back, its locks stay.
Crash(p) ==
  LET Orphan(holder) == IF holder = p THEN Dead ELSE holder IN
  /\ "crash" \in Faults /\ ~At(p, "idle")
  /\ userLock' = Orphan(userLock) /\ quotaLock' = Orphan(quotaLock)
  /\ fileLock' = [id \in Attempt |-> Orphan(fileLock[id])]
  /\ Ends(p)
  /\ UNCHANGED <<row, store, redis>>

\* setSlot and releaseSlotWithValue fail without saying so: somebody who wants the
\* quota lock finds a key there that nobody holds.  (A key left of the two other
\* locks refuses calls that a client might not make; ClearNext has its refusal.)
QuotaLockStrays ==
  /\ "redis" \in Faults
  /\ quotaLock = None /\ \E p \in Process : WantsQuotaLock(p)
  /\ quotaLock' = Dead
  /\ UNCHANGED <<row, store, redis, userLock, fileLock, req>>

\* The TTL frees what a dead process holds, or nobody.
LocksExpire ==
  LET Freed(holder) == IF holder = Dead THEN None ELSE holder IN
  /\ Dead \in {userLock, quotaLock} \cup {fileLock[id] : id \in Attempt}
  /\ userLock' = Freed(userLock) /\ quotaLock' = Freed(quotaLock)
  /\ fileLock' = [id \in Attempt |-> Freed(fileLock[id])]
  /\ UNCHANGED <<row, store, redis, req>>

-----------------------------------------------------------------------------

Starts(p) ==
  \/ \E u \in Attempt : BeginInitiate(p, u) \/ BeginComplete(p, u)
                          \/ BeginAbort(p, u) \/ BeginHeartbeat(p, u)
  \/ BeginClear(p)

Continues(p) ==
  \/ TakeQuotaLock(p) \/ QuotaLockBusy(p) \/ Refund(p)
  \/ Reserve(p) \/ AcquireSlot(p) \/ Store(p) \/ StoreFails(p) \/ Commit(p)
  \/ CompleteInStore(p) \/ CompleteInStoreFails(p) \/ CompleteUpdate(p) \/ Finalize(p)
  \/ CompleteCatch(p) \/ CompleteFinally(p)
  \/ AbortDelete(p) \/ AbortCommit(p) \/ HeartbeatUpdate(p)
  \/ \E t \in req[p].todo : ClearNext(p, t)
  \/ ClearSlots(p)

Cleans ==
  BeginCleanup \/ (\E t \in req[Cleaner].todo : CleanupAbort(t)) \/ CleanupDelete \/ EndCleanup

Environment ==
  \/ \E id \in Attempt : Age(id)
  \/ \E p \in Process : TxTimeout(p) \/ Crash(p)
  \/ SlotsExpire \/ ReservedExpires \/ QuotaLockStrays \/ LocksExpire

Next ==
  \/ \E p \in Request : Starts(p)
  \/ \E p \in Process : Continues(p)
  \/ Cleans
  \/ Environment

Spec == Init /\ [][Next]_vars

-----------------------------------------------------------------------------
(* Properties. *)

\* Bytes and uploads that the counters must still account for: uploads whose
\* session may yet be completed and that the cleanup worker may not touch yet.
Live == {id \in Active : row[id].age < 2 /\ mpu[row[id].mpu] = "open"}

\* What complete, abort, cleanup and the transactions promise together: an object
\* in the store always has its record (nothing is deleted under an object).
NoOrphanObject == \A path \in objects : RecordAt(path) # {}

\* A record says "uploaded" only when the object is in the store.
UploadedIsStored ==
  \A id \in Attempt : Uploaded(id) => row[id].path \in objects

\* The bytes of the live uploads stay reserved, but for those of the uploads that
\* Redis failed to record: no failure, retry or cleanup of one upload gives back
\* what another holds, and a lost reservation costs its own bytes and no more.
LiveBytesReserved ==
  MapThenSumSet(LAMBDA id : Size[row[id].mpu], Live)
    <= reserved.n + MapThenSumSet(LAMBDA u : Size[u], unrecorded)

\* The live uploads hold a slot each, so no more than MaxSlots are live.
LiveUploadsHaveSlots == Cardinality(Live) <= slots.n

\* A record that abort or cleanup deleted is not written again by a heartbeat or
\* a completion that read it before.
DeletedStaysDeleted ==
  [][\A id \in Attempt :
       ~Present(id) /\ mpu[id] = "aborted" => ~(Present(id)')]_vars

-----------------------------------------------------------------------------
(* Requests end, time passes, the worker runs; clients may do nothing. *)

Fairness ==
  /\ \A p \in Process : WF_vars(Continues(p))
  /\ WF_vars(Cleans)
  /\ \A id \in Attempt : WF_vars(Age(id))
  /\ WF_vars(SlotsExpire) /\ WF_vars(ReservedExpires) /\ WF_vars(LocksExpire)

FairSpec == Spec /\ Fairness

\* An abandoned upload is removed by the cleanup worker.
AbandonedUploadsRemoved ==
  \A id \in Attempt : Uploading(id) ~> ~Uploading(id)

\* What is left behind disappears: when uploads stop, both counters return to 0.
CountersDrain ==
  (<>[](Active = {} /\ \A p \in Request : At(p, "idle")))
    => <>[](slots.n = 0 /\ reserved.n = 0)
=============================================================================
