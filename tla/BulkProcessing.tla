---------------------------- MODULE BulkProcessing ----------------------------
(***************************************************************************)
(* Imports of one uploaded Excel file: requests (BulkProcessingRequest),   *)
(* the start and cancel commands with the controller's transaction, the    *)
(* BullMQ jobs, the worker that runs BulkProcessingService with the product*)
(* catalog processor, the handler of "failed" events and the cleanup job.  *)
(*                                                                         *)
(* Nobody but start (and the end of a cancellation) takes the file lock:   *)
(* commands, worker and handlers read a request row, work on their copy    *)
(* and write every column of it back.                                      *)
(***************************************************************************)
EXTENDS Naturals, FiniteSets

CONSTANTS
  Request,     \* bulk processing requests for the file
  Job,         \* ids that start gives to its jobs: bounds the accepted starts
  Client,      \* HTTP requests that run at the same time
  Worker,      \* job slots: BULK_PROCESSING_CONCURRENCY of every process
  None,
  Attempts,    \* BULK_PROCESSING_ATTEMPTS
  Chunks,      \* pages of 50 products that the file's rows make
  Ops,         \* the commands clients send
  Faults       \* what may go wrong

ASSUME NameAssumption ==
  /\ None \notin Request \cup Job \cup Client \cup Worker
  /\ Client \cap Worker = {} /\ (Client \cup Worker) \cap Job = {}
ASSUME BoundAssumption ==
  /\ Attempts \in Nat \ {0} /\ Chunks \in Nat \ {0}
  /\ Ops \subseteq {"start", "cancel"}
  /\ Faults \subseteq {"storage", "archive", "stream", "queue", "tx", "crash", "early"}

VARIABLES
  req,         \* committed request rows
  file,        \* status of the file record
  fileLock,    \* holder of file_lock:<fileId>
  job,         \* the jobs as Redis keeps them
  cleanup,     \* a CLEANUP_TEMP_FILES job is queued
  imported,    \* pages of products that exist for a request
  tail,        \* pages that go on being imported after the attempt has failed
  run          \* the running commands, jobs and event handlers

db == <<req, file>>
products == <<imported, tail>>
vars == <<db, fileLock, job, cleanup, products, run>>

\* The event handler of job j is the process j.
Process == Client \cup Worker \cup Job
Status == {"none", "PENDING", "PROCESSING", "COMPLETED", "FAILED", "CANCELLING", "CANCELLED"}
\* failed is the column failedRows, in pages, as setLogs sets it: what rows that are
\* logged add to it before is written over then, and left out.
Row == [st : Status, job : Job \cup {None}, orig : BOOLEAN, failed : Nat]
NoRow == [st |-> "none", job |-> None, orig |-> FALSE, failed |-> 0]
NoTail == [n |-> 0, j |-> None, row |-> NoRow]
NoJob == [r |-> None, st |-> "none", flag |-> FALSE, tries |-> 0, stalls |-> 0]
Idle == [pc |-> "idle", r |-> None, j |-> None, seen |-> NoRow, write |-> NoRow,
         err |-> "none", n |-> 0, bad |-> 0]

JobRow == [r : Request \cup {None}, flag : BOOLEAN, tries : 0..Attempts, stalls : 0..1,
  st : {"none", "waiting", "delayed", "active", "completed", "failed", "removed"}]
TailRow == [n : 0..Chunks, j : Job \cup {None}, row : Row]
Place ==
  {"idle", "s_lock", "s_write", "s_queue", "s_unlock", "commit",
   "x_write", "x_state", "x_remove", "x_flag", "x_cancel",
   "w_check", "w_load", "w_start", "w_begin", "w_rows", "w_hung", "w_logs", "w_media", "w_total",
   "w_loop", "w_complete", "w_media_fail", "w_erase", "w_cleanup", "w_end",
   "w_basic", "w_free", "w_basic_fail", "w_catch", "w_fail", "w_restore", "w_throw",
   "h_read", "h_products", "h_restore", "h_free", "h_write"}
\* n pages have been gone through, and bad of them are counted as failed.
Running == [r : Request \cup {None}, j : Job \cup {None}, seen : Row, write : Row,
  err : {"none", "cancel", "error"}, n : 0..Chunks, bad : Nat, pc : Place]

\* Two jobs of one request may import more pages than the file has.
TypeOK ==
  /\ req \in [Request -> Row]
  /\ file \in {"uploaded", "processing", "erasing", "gone"}
  /\ fileLock \in Client \cup Job \cup {None}
  /\ job \in [Job -> JobRow]
  /\ cleanup \in BOOLEAN
  /\ imported \in [Request -> Nat]
  /\ tail \in [Request -> TailRow]
  /\ run \in [Process -> Running]

Init ==
  /\ req = [r \in Request |-> NoRow]
  /\ file = "uploaded" /\ fileLock = None
  /\ job = [j \in Job |-> NoJob]
  /\ cleanup = FALSE
  /\ imported = [r \in Request |-> 0]
  /\ tail = [r \in Request |-> NoTail]
  /\ run = [p \in Process |-> Idle]

-----------------------------------------------------------------------------

At(p, pc) == run[p].pc = pc
Goto(p, pc) == run' = [run EXCEPT ![p].pc = pc]
Reads(p, row, pc) == run' = [run EXCEPT ![p].pc = pc, ![p].seen = row]
Ends(p) == run' = [run EXCEPT ![p] = Idle]

\* Rows that an open transaction of another process has written are locked.
RowFree(p, r) == \A c \in Client \ {p} : run[c].r = r => run[c].write = NoRow
FileFree(p) == \A c \in Client \ {p} : run[c].j # None => run[c].write = NoRow

\* bulkProcessingRequestRepository.update: every column, in no transaction.
Update(p, row) == RowFree(p, run[p].r) /\ req' = [req EXCEPT ![run[p].r] = row]

Ended(row) == row.st \in {"FAILED", "COMPLETED"}
Failed(row) == [row EXCEPT !.st = "FAILED"]
Cancelled(row) == [row EXCEPT !.st = "CANCELLED", !.job = None]

-----------------------------------------------------------------------------
(* The commands. *)

Create(r) ==
  /\ req[r] = NoRow /\ fileLock = None /\ file = "uploaded"
  /\ req' = [req EXCEPT ![r].st = "PENDING"]
  /\ UNCHANGED <<file, fileLock, job, cleanup, products, run>>

Fresh(j) == job[j] = NoJob /\ \A c \in Client : run[c].j # j

BeginStart(c, r, j) ==
  /\ At(c, "idle") /\ "start" \in Ops /\ req[r] # NoRow /\ Fresh(j)
  /\ run' = [run EXCEPT ![c] = [Idle EXCEPT !.pc = "s_lock", !.r = r, !.j = j]]
  /\ UNCHANGED <<db, fileLock, job, cleanup, products>>

\* What start refuses: a request in progress, completed or already queued.
Startable(row) ==
  /\ row.st \notin {"PROCESSING", "COMPLETED"}
  /\ row.st = "PENDING" => row.job = None

\* Under the file lock the request and the file are read; a lock that stays busy
\* makes the command throw.
StartLocked(c) ==
  LET row == req[run[c].r] IN
  /\ At(c, "s_lock")
  /\ IF fileLock = None /\ Startable(row) /\ file = "uploaded"
     THEN fileLock' = c /\ Reads(c, row, "s_write")
     ELSE Ends(c) /\ UNCHANGED fileLock
  /\ UNCHANGED <<db, job, cleanup, products>>

\* In the transaction: the file is PROCESSING, the request has the job's id and
\* the original status in its metadata. A file that is gone cannot be updated.
StartWrite(c) ==
  /\ At(c, "s_write") /\ RowFree(c, run[c].r) /\ FileFree(c)
  /\ IF file = "gone"
     THEN Ends(c) /\ fileLock' = None
     ELSE /\ run' = [run EXCEPT ![c].pc = "s_queue",
                       ![c].write = [run[c].seen EXCEPT !.job = run[c].j, !.orig = TRUE]]
          /\ UNCHANGED fileLock
  /\ UNCHANGED <<db, job, cleanup, products>>

StartQueue(c) ==
  /\ At(c, "s_queue")
  /\ \/ /\ job' = [job EXCEPT ![run[c].j] = [NoJob EXCEPT !.r = run[c].r, !.st = "waiting"]]
        /\ Goto(c, "s_unlock") /\ UNCHANGED fileLock
     \/ "queue" \in Faults /\ Ends(c) /\ fileLock' = None /\ UNCHANGED job
  /\ UNCHANGED <<db, cleanup, products>>

StartUnlock(c) ==
  /\ At(c, "s_unlock") /\ Goto(c, "commit")
  /\ fileLock' = None
  /\ UNCHANGED <<db, job, cleanup, products>>

\* The controller's transaction commits, or is rolled back.
Commit(c) ==
  /\ At(c, "commit")
  /\ \/ /\ req' = [req EXCEPT ![run[c].r] = run[c].write]
        /\ file' = IF run[c].j # None THEN "processing" ELSE file
     \/ "tx" \in Faults /\ UNCHANGED db
  /\ Ends(c)
  /\ UNCHANGED <<fileLock, job, cleanup, products>>

\* isCancellable; a request that is cancelled or cancelling is left alone.
Cancellable(row) == row.st \in {"PENDING", "PROCESSING"}

BeginCancel(c, r) ==
  /\ At(c, "idle") /\ "cancel" \in Ops /\ Cancellable(req[r])
  /\ run' = [run EXCEPT ![c] = [Idle EXCEPT !.pc = "x_write", !.r = r, !.seen = req[r]]]
  /\ UNCHANGED <<db, fileLock, job, cleanup, products>>

\* startCancellation, in the transaction.
CancelWrite(c) ==
  LET row == run[c].seen IN
  /\ At(c, "x_write") /\ RowFree(c, run[c].r)
  /\ run' = [run EXCEPT ![c].write = [row EXCEPT !.st = "CANCELLING"],
                        ![c].pc = IF row.job = None THEN "x_cancel" ELSE "x_state"]
  /\ UNCHANGED <<db, fileLock, job, cleanup, products>>

\* cancelJob asks for the state of the job.
CancelState(c) ==
  LET st == job[run[c].seen.job].st IN
  /\ At(c, "x_state")
  /\ Goto(c, CASE st \in {"waiting", "delayed"} -> "x_remove"
               [] st = "active" -> "x_flag"
               [] OTHER -> "x_cancel")
  /\ UNCHANGED <<db, fileLock, job, cleanup, products>>

\* A job that became active in between cannot be removed; the error is caught.
CancelRemove(c) ==
  LET j == run[c].seen.job IN
  /\ At(c, "x_remove") /\ Goto(c, "x_cancel")
  /\ job' = IF job[j].st = "active" THEN job ELSE [job EXCEPT ![j].st = "removed"]
  /\ UNCHANGED <<db, fileLock, cleanup, products>>

\* An active job is flagged; its failure is to complete the cancellation.
CancelFlag(c) ==
  /\ At(c, "x_flag") /\ Goto(c, "commit")
  /\ job' = [job EXCEPT ![run[c].seen.job].flag = TRUE]
  /\ UNCHANGED <<db, fileLock, cleanup, products>>

CancelDone(c) ==
  /\ At(c, "x_cancel")
  /\ run' = [run EXCEPT ![c].pc = "commit", ![c].write = Cancelled(@)]
  /\ UNCHANGED <<db, fileLock, job, cleanup, products>>

ClientStep(c) ==
  \/ StartLocked(c) \/ StartWrite(c) \/ StartQueue(c) \/ StartUnlock(c)
  \/ CancelWrite(c) \/ CancelState(c) \/ CancelRemove(c) \/ CancelFlag(c) \/ CancelDone(c)
  \/ Commit(c)

-----------------------------------------------------------------------------
(* A worker's attempt at a job. *)

HandlerIdle(j) == At(j, "idle")
Flagged(w) == job[run[w].j].flag
Throws(w, err, pc) == run' = [run EXCEPT ![w].pc = pc, ![w].err = err]

\* Redis hands a waiting job to a worker. That the start has committed by then
\* and that the handler of an earlier attempt has ended is a matter of time only.
Pick(w, j) ==
  /\ At(w, "idle") /\ job[j].st = "waiting" /\ HandlerIdle(j)
  /\ ("early" \in Faults) \/ \A c \in Client : run[c].j # j
  /\ job' = [job EXCEPT ![j].st = "active"]
  /\ run' = [run EXCEPT ![w] = [Idle EXCEPT !.pc = "w_check", !.r = job[j].r, !.j = j]]
  /\ UNCHANGED <<db, fileLock, cleanup, products>>

\* handle: a flagged job fails before the service is called.
Check(w) ==
  /\ At(w, "w_check")
  /\ IF Flagged(w) THEN Throws(w, "cancel", "w_throw") ELSE Goto(w, "w_load")
  /\ UNCHANGED <<db, fileLock, job, cleanup, products>>

\* The file record, the stream of its object and the processor.
Load(w) ==
  /\ At(w, "w_load")
  /\ \/ file # "gone" /\ Goto(w, "w_start")
     \/ (file = "gone" \/ "storage" \in Faults) /\ Throws(w, "error", "w_basic")
  /\ UNCHANGED <<db, fileLock, job, cleanup, products>>

\* Faulty: start() accepts a request in every state.
StartsAlways(row) == row.st # "none"

\* BulkProcessingRequest.start.
Starts(row) == row.st = "PENDING"

\* onStart: the latest row decides.
OnStart(w) ==
  LET row == req[run[w].r] IN
  /\ At(w, "w_start")
  /\ CASE row.st \in {"CANCELLING", "CANCELLED"} -> Throws(w, "cancel", "w_catch")
       [] Starts(row) -> Reads(w, [row EXCEPT !.st = "PROCESSING"], "w_begin")
       [] OTHER -> Throws(w, "error", "w_catch")
  /\ UNCHANGED <<db, fileLock, job, cleanup, products>>

Begin(w) ==
  /\ At(w, "w_begin") /\ Update(w, run[w].seen) /\ Goto(w, "w_rows")
  /\ UNCHANGED <<file, fileLock, job, cleanup, products>>

\* The rows of one page, treated alike: `here' when their products are upserted,
\* `fails' when they are counted as failed. A row that is not valid or whose upsert
\* throws is counted and passed over; so is one that throws later (the progress of
\* the job), but its product is there. Errors and warnings are logged in the copy of
\* the request, which is written.
Import(w) ==
  /\ At(w, "w_rows") /\ run[w].n < Chunks /\ ~Flagged(w)
  /\ \E here, fails \in {0, 1} :
       /\ here + fails > 0
       /\ imported' = [imported EXCEPT ![run[w].r] = @ + here]
       /\ run' = [run EXCEPT ![w].n = @ + 1, ![w].bad = @ + fails]
  /\ UNCHANGED req \/ Update(w, run[w].seen)
  /\ UNCHANGED <<file, fileLock, job, cleanup, tail>>

\* The last row is done, or a cancelled job makes the next one throw.
ImportStops(w) ==
  /\ At(w, "w_rows")
  /\ \/ Flagged(w) /\ Throws(w, "cancel", "w_catch")
     \/ run[w].n = Chunks /\ Goto(w, "w_logs")
  /\ UNCHANGED <<db, fileLock, job, cleanup, products>>

\* Faulty: an archive that breaks off counts as the end of the rows.
BreaksQuietly(w) ==
  /\ At(w, "w_rows") /\ "archive" \in Faults
  /\ Goto(w, "w_logs")
  /\ UNCHANGED <<db, fileLock, job, cleanup, products>>

\* The archive is broken: the attempt fails. The connection to the store breaks:
\* nobody listens to the stream's error and the attempt waits for ever. Rows that
\* have been parsed by then are still imported, in the background.
Breaks(w) ==
  /\ At(w, "w_rows")
  /\ \/ "archive" \in Faults /\ Throws(w, "error", "w_catch")
     \/ "stream" \in Faults /\ Goto(w, "w_hung")
  /\ \E k \in 0..(Chunks - run[w].n) :
       tail' = [tail EXCEPT ![run[w].r] = [n |-> k, j |-> run[w].j, row |-> run[w].seen]]
  /\ UNCHANGED <<db, fileLock, job, cleanup, imported>>

\* Here too a row may fail; the processor's copy is still written when a row has
\* errors or warnings.
ImportTail(r) ==
  /\ tail[r].n > 0
  /\ IF job[tail[r].j].flag
     THEN tail' = [tail EXCEPT ![r] = NoTail] /\ UNCHANGED <<req, imported>>
     ELSE /\ \E here \in {0, 1} : imported' = [imported EXCEPT ![r] = @ + here]
          /\ tail' = [tail EXCEPT ![r] = IF tail[r].n = 1 THEN NoTail ELSE [tail[r] EXCEPT !.n = @ - 1]]
          /\ \/ UNCHANGED req
             \/ /\ tail[r].row # NoRow /\ RowFree(None, r)
                /\ req' = [req EXCEPT ![r] = tail[r].row]
  /\ UNCHANGED <<file, fileLock, job, cleanup, run>>

\* Faulty: setLogs does not set the counters.
LogsKeepCounts(w) ==
  /\ At(w, "w_logs") /\ Update(w, run[w].seen)
  /\ \E pc \in {"w_complete", "w_media"} : Goto(w, pc)
  /\ UNCHANGED <<file, fileLock, job, cleanup, products>>

\* setLogs sets the counters of the copy, and it and markExcelProcessingCompleted
\* write it; the media of the products are a second phase, or were part of the first.
Logs(w) ==
  LET copy == [run[w].seen EXCEPT !.failed = run[w].bad] IN
  /\ At(w, "w_logs") /\ Update(w, copy)
  /\ \E pc \in {"w_complete", "w_media"} : Reads(w, copy, pc)
  /\ UNCHANGED <<file, fileLock, job, cleanup, products>>

\* The second phase starts from the latest row, whose total it sets; a row that
\* counts nothing yet gets the counters of the copy.
Media(w) ==
  LET row == req[run[w].r] IN
  /\ At(w, "w_media")
  /\ \E k \in {row.failed} \cup (IF row.failed = 0 THEN {run[w].seen.failed} ELSE {}) :
       run' = [run EXCEPT ![w].pc = "w_total", ![w].n = 0, ![w].seen = [row EXCEPT !.failed = k]]
  /\ UNCHANGED <<db, fileLock, job, cleanup, products>>

MediaTotal(w) ==
  /\ At(w, "w_total") /\ Update(w, run[w].seen) /\ Goto(w, "w_loop")
  /\ UNCHANGED <<file, fileLock, job, cleanup, products>>

\* The media of one page: a warning is written with the copy.
MediaWarns(w) ==
  /\ At(w, "w_loop") /\ ~Flagged(w) /\ run[w].n < Chunks
  /\ run[w].seen.st = "PROCESSING" /\ Update(w, run[w].seen)
  /\ run' = [run EXCEPT ![w].n = @ + 1]
  /\ UNCHANGED <<file, fileLock, job, cleanup, products>>

MediaEnds(w) ==
  /\ At(w, "w_loop")
  /\ IF Flagged(w) THEN Throws(w, "cancel", "w_catch") ELSE Goto(w, "w_complete")
  /\ UNCHANGED <<db, fileLock, job, cleanup, products>>

\* Faulty: the completed request is not saved.
CompleteUnsaved(w) ==
  /\ At(w, "w_complete") /\ run[w].seen.st = "PROCESSING"
  /\ Goto(w, "w_erase")
  /\ UNCHANGED <<db, fileLock, job, cleanup, products>>

\* complete() refuses a copy that is not PROCESSING.
Complete(w) ==
  LET row == run[w].seen IN
  /\ At(w, "w_complete")
  /\ CASE row.st = "PROCESSING" ->
              Update(w, [row EXCEPT !.st = "COMPLETED"]) /\ Goto(w, "w_erase")
       [] row.st = "COMPLETED" -> Throws(w, "error", "w_catch") /\ UNCHANGED req
       [] OTHER -> Reads(w, Failed(row), "w_media_fail") /\ UNCHANGED req
  /\ UNCHANGED <<file, fileLock, job, cleanup, products>>

MediaFail(w) ==
  /\ At(w, "w_media_fail") /\ Update(w, run[w].seen) /\ Throws(w, "error", "w_catch")
  /\ UNCHANGED <<file, fileLock, job, cleanup, products>>

\* markFileAsErasing swallows its errors.
Erase(w) ==
  /\ At(w, "w_erase") /\ FileFree(w)
  /\ file' = IF file = "gone" THEN "gone" ELSE "erasing"
  /\ Goto(w, IF file = "gone" THEN "w_end" ELSE "w_cleanup")
  /\ UNCHANGED <<req, fileLock, job, cleanup, products>>

QueueCleanup(w) ==
  /\ At(w, "w_cleanup") /\ Goto(w, "w_end")
  /\ cleanup' = TRUE \/ ("queue" \in Faults /\ UNCHANGED cleanup)
  /\ UNCHANGED <<db, fileLock, job, products>>

\* The last progress update may still fail the attempt.
End(w) ==
  /\ At(w, "w_end")
  /\ \/ Ends(w) /\ job' = [job EXCEPT ![run[w].j].st = "completed"]
     \/ "queue" \in Faults /\ Throws(w, "error", "w_catch") /\ UNCHANGED job
  /\ UNCHANGED <<db, fileLock, cleanup, products>>

-----------------------------------------------------------------------------
(* An attempt that fails. *)

\* Without a processor the service fails the request itself.
Basic(w) ==
  LET row == req[run[w].r] IN
  /\ At(w, "w_basic")
  /\ Reads(w, row, IF row.st \notin {"PENDING", "PROCESSING"} THEN "w_throw"
                   ELSE IF row.orig /\ file = "processing" THEN "w_free" ELSE "w_basic_fail")
  /\ UNCHANGED <<db, fileLock, job, cleanup, products>>

Freed == IF file = "gone" THEN "gone" ELSE "uploaded"

Free(w) ==
  /\ At(w, "w_free") /\ FileFree(w) /\ Goto(w, "w_basic_fail")
  /\ file' = Freed
  /\ UNCHANGED <<req, fileLock, job, cleanup, products>>

BasicFail(w) ==
  /\ At(w, "w_basic_fail") /\ Update(w, Failed(run[w].seen)) /\ Goto(w, "w_throw")
  /\ UNCHANGED <<file, fileLock, job, cleanup, products>>

\* onProcessingFailed: a request that is being cancelled or has ended is left alone.
Catch(w) ==
  LET row == req[run[w].r] IN
  /\ At(w, "w_catch")
  /\ Reads(w, Failed(row), IF row.st = "CANCELLING" \/ Ended(row) THEN "w_throw" ELSE "w_fail")
  /\ UNCHANGED <<db, fileLock, job, cleanup, products>>

Fail(w) ==
  /\ At(w, "w_fail") /\ Update(w, run[w].seen) /\ Goto(w, "w_restore")
  /\ UNCHANGED <<file, fileLock, job, cleanup, products>>

\* The failed row replaces the processor's copy; restoreFileStatusAfterCompletion
\* restores the file, whatever its status is by now.
Restore(w) ==
  /\ At(w, "w_restore") /\ FileFree(w) /\ Goto(w, "w_throw")
  /\ file' = IF run[w].seen.orig THEN Freed ELSE file
  /\ tail' = [tail EXCEPT ![run[w].r].row = NoRow]
  /\ UNCHANGED <<req, fileLock, job, cleanup, imported>>

\* The "failed" event of job j.
Handle(j, err) == [Idle EXCEPT !.pc = "h_read", !.r = job[j].r, !.err = err]

\* BullMQ counts the attempt, retries after a back-off, and emits "failed".
Throw(w) ==
  LET j == run[w].j IN
  /\ At(w, "w_throw")
  /\ job' = [job EXCEPT ![j].tries = @ + 1,
       ![j].st = IF job[j].tries + 1 < Attempts THEN "delayed" ELSE "failed"]
  /\ run' = [run EXCEPT ![w] = Idle, ![j] = Handle(j, run[w].err)]
  /\ UNCHANGED <<db, fileLock, cleanup, products>>

WorkerStep(w) ==
  \/ Check(w) \/ Load(w) \/ OnStart(w) \/ Begin(w) \/ Import(w) \/ ImportStops(w) \/ Breaks(w)
  \/ Logs(w)
  \/ Media(w) \/ MediaTotal(w) \/ MediaWarns(w) \/ MediaEnds(w)
  \/ Complete(w) \/ MediaFail(w) \/ Erase(w) \/ QueueCleanup(w) \/ End(w)
  \/ Basic(w) \/ Free(w) \/ BasicFail(w) \/ Catch(w) \/ Fail(w) \/ Restore(w) \/ Throw(w)

-----------------------------------------------------------------------------
(* The handler of the "failed" event of job j. *)

HandlerReads(j) ==
  /\ At(j, "h_read")
  /\ Reads(j, req[run[j].r], IF run[j].err = "cancel" THEN "h_products" ELSE "h_restore")
  /\ UNCHANGED <<db, fileLock, job, cleanup, products>>

\* The pages move up as products are deleted, and the offset moves on: every
\* other page is left.
DeleteProducts(j) ==
  /\ At(j, "h_products") /\ Goto(j, "h_restore")
  /\ imported' = [imported EXCEPT ![run[j].r] = @ \div 2]
  /\ UNCHANGED <<db, fileLock, job, cleanup, tail>>

\* Faulty: only a cancellation restores the file.
HandlerKeepsFile(j) ==
  /\ At(j, "h_restore") /\ Goto(j, "h_write")
  /\ UNCHANGED <<db, fileLock, job, cleanup, products>>

\* A cancellation takes the file lock and gives up when it stays busy; a failure
\* looks at the latest metadata and takes no lock.
HandlerRestores(j) ==
  /\ At(j, "h_restore")
  /\ IF run[j].err = "cancel"
     THEN \/ /\ run[j].seen.orig /\ fileLock = None /\ file = "processing"
             /\ fileLock' = j /\ Goto(j, "h_free")
          \/ /\ run[j].seen.orig => fileLock # None \/ file # "processing"
             /\ Goto(j, "h_write") /\ UNCHANGED fileLock
     ELSE /\ Goto(j, IF req[run[j].r].orig /\ file = "processing" THEN "h_free" ELSE "h_write")
          /\ UNCHANGED fileLock
  /\ UNCHANGED <<db, job, cleanup, products>>

HandlerFrees(j) ==
  /\ At(j, "h_free") /\ FileFree(j) /\ Goto(j, "h_write")
  /\ file' = Freed
  /\ fileLock' = IF fileLock = j THEN None ELSE fileLock
  /\ UNCHANGED <<req, job, cleanup, products>>

\* Faulty: a failure is written over whatever the request has become.
HandlerFailsAnyway(j) ==
  /\ At(j, "h_write") /\ Ends(j)
  /\ Update(j, Failed(run[j].seen))
  /\ UNCHANGED <<file, fileLock, job, cleanup, products>>

\* handleJobCancellation ends a cancellation; handleJobFailure fails whatever has
\* not ended.
HandlerWrites(j) ==
  LET row == run[j].seen IN
  /\ At(j, "h_write") /\ Ends(j)
  /\ CASE run[j].err = "cancel" /\ row.st = "CANCELLING" -> Update(j, Cancelled(row))
       [] run[j].err = "error" /\ ~Ended(row) -> Update(j, Failed(row))
       [] OTHER -> UNCHANGED req
  /\ UNCHANGED <<file, fileLock, job, cleanup, products>>

HandlerStep(j) ==
  \/ HandlerReads(j) \/ DeleteProducts(j) \/ HandlerRestores(j)
  \/ HandlerFrees(j) \/ HandlerWrites(j)

-----------------------------------------------------------------------------
(* The queue. *)

\* The back-off ends.
Promote(j) ==
  /\ job[j].st = "delayed" /\ HandlerIdle(j)
  /\ job' = [job EXCEPT ![j].st = "waiting"]
  /\ UNCHANGED <<db, fileLock, cleanup, products, run>>

\* The cleanup job, in a free slot of a worker; errors are swallowed.
Cleanup(w) ==
  /\ cleanup /\ At(w, "idle") /\ FileFree(w)
  /\ file' = "gone" \/ ("storage" \in Faults /\ UNCHANGED file)
  /\ cleanup' = FALSE
  /\ UNCHANGED <<req, fileLock, job, products, run>>

\* The process of worker and handlers stops; its lock on the job expires and the job is run
\* once more, or is failed when that has happened before (maxStalledCount 1).
Crash ==
  /\ "crash" \in Faults /\ \E p \in Worker \cup Job : ~At(p, "idle")
  /\ run' = [p \in Process |-> IF p \in Client THEN run[p] ELSE Idle]
  /\ fileLock' = IF fileLock \in Job THEN None ELSE fileLock
  /\ tail' = [r \in Request |-> NoTail]
  /\ UNCHANGED <<db, job, cleanup, imported>>

Stalled(j) ==
  /\ job[j].st = "active" /\ \A w \in Worker : run[w].j # j
  /\ IF job[j].stalls = 0
     THEN job' = [job EXCEPT ![j].st = "waiting", ![j].stalls = 1] /\ UNCHANGED run
     ELSE /\ job' = [job EXCEPT ![j].st = "failed"]
          /\ run' = [run EXCEPT ![j] = Handle(j, "error")]
  /\ UNCHANGED <<db, fileLock, cleanup, products>>

-----------------------------------------------------------------------------

Next ==
  \/ \E r \in Request : Create(r) \/ ImportTail(r)
  \/ \E c \in Client, r \in Request : BeginCancel(c, r) \/ \E j \in Job : BeginStart(c, r, j)
  \/ \E c \in Client : ClientStep(c)
  \/ \E w \in Worker : WorkerStep(w) \/ Cleanup(w) \/ \E j \in Job : Pick(w, j)
  \/ \E j \in Job : HandlerStep(j) \/ Promote(j) \/ Stalled(j)
  \/ Crash

Spec == Init /\ [][Next]_vars

\* Requests and event handlers run on; BullMQ hands every waiting job to the worker
\* in the end, promotes delayed jobs and looks for stalled ones.
FairSpec ==
  /\ Spec
  /\ \A c \in Client : WF_vars(ClientStep(c))
  /\ \A r \in Request : WF_vars(ImportTail(r))
  /\ \A w \in Worker : WF_vars(WorkerStep(w)) /\ SF_vars(Cleanup(w))
  /\ \A j \in Job : WF_vars(HandlerStep(j)) /\ WF_vars(Promote(j)) /\ WF_vars(Stalled(j))
  /\ \A j \in Job, w \in Worker : SF_vars(Pick(w, j))

-----------------------------------------------------------------------------
(* Properties. *)

\* A COMPLETED request accounts for every page of the file: its products exist, or
\* the row counts it as failed. What an error made the import pass over is shown.
CompletedCountsAllRows ==
  \A r \in Request : req[r].st = "COMPLETED" => imported[r] + req[r].failed >= Chunks

\* The uploaded file, the only copy of the rows, is thrown away only when some
\* attempt has gone through all of them: the products of every page exist, or the
\* attempt's request counts the page as failed. Whatever breaks an attempt off
\* before, the file can be imported again.
ErasedOnlyAfterImport ==
  [][file' = "erasing" /\ file # "erasing" =>
       \E w \in Worker : run[w].r # None /\ imported[run[w].r] + run[w].seen.failed >= Chunks]_vars

\* Retries, restarts and stalled jobs never import a page of a request twice: while
\* pages are imported, no more exist than this attempt has gone through.
ImportedOnce == \A w \in Worker : At(w, "w_rows") => imported[run[w].r] <= run[w].n

\* A completed import stays completed: no late write of a worker, of an event
\* handler or of a row in the background takes the result back.
CompletedStands ==
  [][\A r \in Request : req[r].st = "COMPLETED" => req'[r].st = "COMPLETED"]_vars

\* The file is not left PROCESSING by jobs that have all ended.
FileReleased == file = "processing" ~> file # "processing"

\* A request does not stay PROCESSING for ever.
ImportEnds ==
  \A r \in Request : (req[r].st = "PROCESSING") ~> (req[r].st # "PROCESSING")
=============================================================================
