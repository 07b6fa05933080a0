------------------------ MODULE BulkProcessingProofs ------------------------
(***************************************************************************)
(* What holds of imports for any number of requests, jobs, commands,       *)
(* workers, attempts and pages, whatever fails.                            *)
(*                                                                         *)
(* A page is imported once because a request leaves PENDING once: only the *)
(* attempt that has read it PENDING imports, and only the start that has   *)
(* read it PENDING writes it so.  Two starts that overlap, or a start whose*)
(* transaction is rolled back after it has queued its job, break this:     *)
(* that neither happens is the hypothesis StartsInOrder.                   *)
(***************************************************************************)
EXTENDS BulkProcessing, TLAPS

StartPc == {"s_lock", "s_write", "s_queue", "s_unlock"}
CancelPc == {"x_write", "x_state", "x_remove", "x_flag", "x_cancel"}
ClientPc == {"idle", "commit"} \cup StartPc \cup CancelPc
HandlerPc == {"idle", "h_read", "h_products", "h_restore", "h_free", "h_write"}
\* An attempt that has gone through all of its rows.
Done == {"w_logs", "w_media", "w_total", "w_loop", "w_complete", "w_media_fail",
         "w_erase", "w_cleanup", "w_end"}
\* An attempt that has moved its request to PROCESSING and not failed yet.
Later == {"w_rows", "w_hung"} \cup Done
WorkerPc == {"idle", "w_check", "w_load", "w_start", "w_begin", "w_basic", "w_free", "w_basic_fail",
             "w_catch", "w_fail", "w_restore", "w_throw"} \cup Later

\* A start that carries a copy of its request.
Starting(c) == run[c].j # None /\ run[c].pc \in {"s_write", "s_queue", "s_unlock", "commit"}

\* A job with an attempt or an event handler under way.
Busy(j) == job[j].st = "active" \/ run[j].pc # "idle"

\* Jobs of one request run one after the other, and a request that a start has read
\* as PENDING gets no job but the one of that start, until the start has committed.
StartsInOrder ==
  /\ \A i, j \in Job : Busy(i) /\ Busy(j) /\ job[i].r = job[j].r => i = j
  /\ \A c \in Client, j \in Job :
       Starting(c) /\ run[c].seen.st = "PENDING" /\ job[j].r = run[c].r => j = run[c].j

-----------------------------------------------------------------------------
(* The invariants. *)

JobOK(j) ==
  /\ job[j].st = "none" => job[j] = NoJob
  /\ job[j].st # "none" => job[j].r \in Request /\ req[job[j].r].st # "none"
  /\ job[j].st \in {"waiting", "delayed", "active"} => job[j].tries < Attempts

HandlerOK(j) ==
  /\ run[j].pc \in HandlerPc
  /\ run[j].pc # "idle" =>
       job[j].st \notin {"none", "waiting", "active"} /\ run[j].r = job[j].r

WorkerOK(w) ==
  /\ run[w].pc \in WorkerPc
  /\ run[w].pc = "idle" => run[w].j = None
  /\ run[w].pc # "idle" =>
       /\ run[w].j \in Job /\ job[run[w].j].st = "active" /\ run[w].r = job[run[w].j].r
       /\ \A v \in Worker : run[v].j = run[w].j => v = w
  /\ run[w].pc \in {"w_begin", "w_fail"} \cup Later => run[w].seen.st # "none"

ClientOK(c) ==
  LET s == run[c] IN
  /\ s.pc \in ClientPc
  /\ s.pc = "idle" => s.j = None
  /\ s.pc # "idle" => s.r \in Request /\ req[s.r].st # "none"
  /\ s.pc \in StartPc => s.j # None
  /\ s.pc \in {"s_lock", "s_write", "s_queue"} => job[s.j].st = "none"
  /\ s.pc \in {"s_unlock", "commit"} /\ s.j # None => job[s.j].st # "none" /\ job[s.j].r = s.r
  /\ Starting(c) => s.seen.st \notin {"none", "PROCESSING", "COMPLETED"}
  /\ Starting(c) /\ s.pc # "s_write" => s.write.st = s.seen.st
  /\ s.pc \in CancelPc => "cancel" \in Ops /\ s.j = None
  /\ s.pc \in CancelPc \ {"x_write"} => s.write.st = "CANCELLING"
  /\ s.pc = "commit" /\ s.j = None => "cancel" \in Ops /\ s.write.st \in {"CANCELLING", "CANCELLED"}
  /\ s.pc \in {"x_state", "x_remove", "x_flag"} => s.seen.job # None
  /\ s.pc \in {"x_remove", "x_flag"} => job[s.seen.job].st # "none"
  /\ s.j # None => \A d \in Client : run[d].j = s.j => d = c

RowOK(r) ==
  /\ req[r].st = "none" => req[r] = NoRow
  /\ req[r].st = "none" => imported[r] = 0 /\ tail[r] = NoTail
  /\ tail[r].row # NoRow => tail[r].row.st # "none"

Base ==
  /\ TypeOK
  /\ \A r \in Request : RowOK(r)
  /\ \A j \in Job : JobOK(j) /\ HandlerOK(j)
  /\ \A w \in Worker : WorkerOK(w)
  /\ \A c \in Client : ClientOK(c)

\* Something of the request has been imported, or is being imported.
Touched(r) ==
  \/ imported[r] # 0
  \/ tail[r] # NoTail
  \/ \E w \in Worker : run[w].r = r /\ run[w].pc \in Later

RequestOK(r) ==
  /\ Touched(r) =>
       /\ req[r].st \notin {"none", "PENDING"}
       /\ \A c \in Client : Starting(c) /\ run[c].r = r => run[c].seen.st # "PENDING"
  /\ tail[r].row # NoRow => tail[r].row.st = "PROCESSING"

\* With n pages counted as failed the request accounts for the whole file.
Whole(r, n) == imported[r] + n >= Chunks

CopyOK(w) ==
  LET s == run[w] IN
  /\ s.pc \in {"w_check", "w_load", "w_start", "w_begin"} => s.n = 0 /\ s.bad = 0
  /\ s.pc = "w_begin" => s.seen.st = "PROCESSING" /\ ~Touched(s.r)
  /\ s.pc = "w_rows" =>
       s.seen.st = "PROCESSING" /\ imported[s.r] <= s.n /\ s.n <= imported[s.r] + s.bad
  /\ s.pc = "w_logs" => Whole(s.r, s.bad)
  /\ s.pc = "w_media" =>
       Whole(s.r, s.seen.failed) /\ (req[s.r].st = "PROCESSING" => Whole(s.r, req[s.r].failed))
  /\ s.pc \in {"w_total", "w_loop", "w_complete"} /\ s.seen.st = "PROCESSING" => Whole(s.r, s.seen.failed)
  /\ s.pc = "w_erase" => Whole(s.r, s.seen.failed)
  /\ s.pc \in Later \ {"w_hung"} => s.seen.st \notin {"none", "PENDING"} /\ tail[s.r] = NoTail
  /\ s.pc = "w_fail" => s.seen.st = "FAILED"

Inv == Base /\ (\A r \in Request : RequestOK(r)) /\ (\A w \in Worker : CopyOK(w))

\* Without the cancel command.
Uncancelled == {"none", "PENDING", "PROCESSING", "COMPLETED", "FAILED"}

Plain ==
  /\ \A j \in Job : ~job[j].flag
  /\ \A r \in Request : req[r].st \in Uncancelled
  /\ \A p \in Process : run[p].seen.st \in Uncancelled /\ run[p].err # "cancel"

\* Nobody imports the request, or is about to.
Unimported(r) == \A w \in Worker : run[w].r = r => run[w].pc \notin Later \cup {"w_begin"}

Before == {"w_rows", "w_hung", "w_logs", "w_media", "w_total", "w_loop", "w_complete"}

PlainWorker(w) ==
  LET s == run[w] IN
  /\ s.pc = "w_begin" => req[s.r].st = "PENDING"
  /\ s.pc \in Before => req[s.r].st = "PROCESSING"
  /\ s.pc \in Before \ {"w_media", "w_hung"} => s.seen.st = "PROCESSING"
  /\ s.pc # "w_media_fail"
  /\ s.pc \in {"w_free", "w_basic_fail", "w_fail"} => req[s.r].st # "COMPLETED"

PlainHandler(j) ==
  /\ run[j].pc # "h_products"
  /\ run[j].pc \in {"h_restore", "h_free", "h_write"} /\ ~Ended(run[j].seen) =>
       req[run[j].r].st # "COMPLETED"

PlainRequest(r) ==
  /\ req[r].st = "FAILED" => Unimported(r)
  /\ req[r].st = "COMPLETED" => Whole(r, req[r].failed) /\ tail[r] = NoTail
  /\ \A c \in Client : Starting(c) /\ run[c].r = r =>
       IF run[c].seen.st = "PENDING" THEN req[r].st = "PENDING"
       ELSE req[r].st \in {"FAILED", "PROCESSING"} /\ Unimported(r)

PlainInv ==
  /\ Plain
  /\ \A w \in Worker : PlainWorker(w)
  /\ \A j \in Job : PlainHandler(j)
  /\ \A r \in Request : PlainRequest(r)

-----------------------------------------------------------------------------
(* What one step does to the process that takes it. *)

\* Nobody but p moves.
Moves(p) == run' \in [Process -> Running] /\ \A q \in Process \ {p} : run'[q] = run[q]

LEMMA Processes ==
  /\ \A c \in Client : c \notin Worker /\ c \notin Job
  /\ \A w \in Worker : w \notin Client /\ w \notin Job
  /\ \A j \in Job : j \notin Client /\ j \notin Worker
  /\ Client \subseteq Process /\ Worker \subseteq Process /\ Job \subseteq Process
  /\ Process = Client \cup Worker \cup Job
  /\ None \notin Job /\ None \notin Request
BY NameAssumption DEF Process

LEMMA PlaceMoves ==
  ASSUME TypeOK, NEW p \in Process, NEW s \in Running, run' = [run EXCEPT ![p] = s]
  PROVE  Moves(p) /\ run'[p] = s
BY DEF TypeOK, Moves

LEMMA GotoMoves ==
  ASSUME TypeOK, NEW p \in Process, NEW pc \in Place, Goto(p, pc)
  PROVE  /\ Moves(p) /\ run'[p].pc = pc
         /\ run'[p].r = run[p].r /\ run'[p].j = run[p].j /\ run'[p].seen = run[p].seen
         /\ run'[p].write = run[p].write /\ run'[p].err = run[p].err /\ run'[p].n = run[p].n
         /\ run'[p].bad = run[p].bad
<1> DEFINE s == [run[p] EXCEPT !.pc = pc]
<1>1. run[p] \in Running
  BY DEF TypeOK
<1>2. /\ s \in Running /\ s.pc = pc /\ s.r = run[p].r /\ s.j = run[p].j /\ s.seen = run[p].seen
      /\ s.write = run[p].write /\ s.err = run[p].err /\ s.n = run[p].n /\ s.bad = run[p].bad
  BY <1>1 DEF Running
<1>3. run' = [run EXCEPT ![p] = s]
  BY DEF Goto
<1> HIDE DEF s
<1> QED
  BY <1>2, <1>3, PlaceMoves

LEMMA ReadsMoves ==
  ASSUME TypeOK, NEW p \in Process, NEW pc \in Place, NEW row \in Row, Reads(p, row, pc)
  PROVE  /\ Moves(p) /\ run'[p].pc = pc /\ run'[p].seen = row
         /\ run'[p].r = run[p].r /\ run'[p].j = run[p].j
         /\ run'[p].write = run[p].write /\ run'[p].err = run[p].err /\ run'[p].n = run[p].n
         /\ run'[p].bad = run[p].bad
<1> DEFINE s == [run[p] EXCEPT !.pc = pc, !.seen = row]
<1>1. run[p] \in Running
  BY DEF TypeOK
<1>2. /\ s \in Running /\ s.pc = pc /\ s.r = run[p].r /\ s.j = run[p].j /\ s.seen = row
      /\ s.write = run[p].write /\ s.err = run[p].err /\ s.n = run[p].n /\ s.bad = run[p].bad
  BY <1>1 DEF Running
<1>3. run' = [run EXCEPT ![p] = s]
  BY DEF Reads
<1> HIDE DEF s
<1> QED
  BY <1>2, <1>3, PlaceMoves

LEMMA ThrowsMoves ==
  ASSUME TypeOK, NEW p \in Process, NEW pc \in Place, NEW err \in {"none", "cancel", "error"}, Throws(p, err, pc)
  PROVE  /\ Moves(p) /\ run'[p].pc = pc /\ run'[p].seen = run[p].seen
         /\ run'[p].r = run[p].r /\ run'[p].j = run[p].j
         /\ run'[p].write = run[p].write /\ run'[p].err = err /\ run'[p].n = run[p].n
         /\ run'[p].bad = run[p].bad
<1> DEFINE s == [run[p] EXCEPT !.pc = pc, !.err = err]
<1>1. run[p] \in Running
  BY DEF TypeOK
<1>2. /\ s \in Running /\ s.pc = pc /\ s.r = run[p].r /\ s.j = run[p].j /\ s.seen = run[p].seen
      /\ s.write = run[p].write /\ s.err = err /\ s.n = run[p].n /\ s.bad = run[p].bad
  BY <1>1 DEF Running
<1>3. run' = [run EXCEPT ![p] = s]
  BY DEF Throws
<1> HIDE DEF s
<1> QED
  BY <1>2, <1>3, PlaceMoves

LEMMA IdleRuns == Idle \in Running /\ NoRow \in Row
BY BoundAssumption DEF Idle, NoRow, Running, Row, Status, Place

LEMMA EndsMoves ==
  ASSUME TypeOK, NEW p \in Process, Ends(p)
  PROVE  Moves(p) /\ run'[p] = Idle
BY IdleRuns, PlaceMoves DEF Ends

-----------------------------------------------------------------------------
(* What an attempt does in one step. *)

Acts(w) ==
  /\ TypeOK' /\ job' = job /\ Moves(w)
  /\ run'[w].r = run[w].r /\ run'[w].j = run[w].j
  /\ \A x \in Request \ {run[w].r} : req'[x] = req[x] /\ imported'[x] = imported[x] /\ tail'[x] = tail[x]

\* A step that writes no row and imports nothing.
Light(w) ==
  /\ Acts(w) /\ UNCHANGED <<req, imported, tail>>
  /\ run'[w].seen = run[w].seen /\ run'[w].n = run[w].n /\ run'[w].bad = run[w].bad

\* A step that writes the request.
Writes(w, row) ==
  /\ Acts(w) /\ RowFree(w, run[w].r)
  /\ req'[run[w].r] = row /\ UNCHANGED <<imported, tail>>

LEMMA LightSteps ==
  ASSUME TypeOK, NEW w \in Worker,
         Check(w) \/ Load(w) \/ ImportStops(w) \/ MediaEnds(w) \/ Erase(w) \/ QueueCleanup(w) \/ Free(w)
         \/ (End(w) /\ ~Ends(w))
  PROVE  /\ Light(w)
         /\ \/ run[w].pc = "w_check" /\ run'[w].pc = "w_throw"
            \/ run[w].pc = "w_check" /\ run'[w].pc = "w_load"
            \/ run[w].pc = "w_load" /\ run'[w].pc \in {"w_start", "w_basic"}
            \/ run[w].pc = "w_rows" /\ run'[w].pc = "w_catch"
            \/ run[w].pc = "w_rows" /\ run'[w].pc = "w_logs" /\ run[w].n = Chunks
            \/ run[w].pc = "w_loop" /\ run'[w].pc \in {"w_catch", "w_complete"}
            \/ run[w].pc \in {"w_erase", "w_cleanup", "w_end"} /\ run'[w].pc \in {"w_cleanup", "w_end", "w_catch"}
            \/ run[w].pc = "w_free" /\ run'[w].pc = "w_basic_fail"
         /\ run'[w].err \in {run[w].err, "error"} \/ job[run[w].j].flag
<1>w. w \in Process
  BY Processes
<1>1. CASE Check(w)
  <2>1. TypeOK /\ UNCHANGED <<req, file, fileLock, job, cleanup, imported, tail>>
    BY <1>1 DEF Check, db, products
  <2>2. CASE Flagged(w)
    BY <1>1, <1>w, <2>1, <2>2, ThrowsMoves DEF Check, At, Light, Acts, Moves, TypeOK, Place, Flagged
  <2>3. CASE ~Flagged(w)
    BY <1>1, <1>w, <2>1, <2>3, GotoMoves DEF Check, At, Light, Acts, Moves, TypeOK, Place
  <2> QED
    BY <2>2, <2>3
<1>2. CASE Load(w)
  <2>1. TypeOK /\ UNCHANGED <<req, file, fileLock, job, cleanup, imported, tail>>
    BY <1>2 DEF Load, db, products
  <2>2. CASE Goto(w, "w_start")
    BY <1>2, <1>w, <2>1, <2>2, GotoMoves DEF Load, At, Light, Acts, Moves, TypeOK, Place
  <2>3. CASE Throws(w, "error", "w_basic")
    BY <1>2, <1>w, <2>1, <2>3, ThrowsMoves DEF Load, At, Light, Acts, Moves, TypeOK, Place
  <2> QED
    BY <1>2, <2>2, <2>3 DEF Load
<1>3. CASE ImportStops(w)
  <2>1. TypeOK /\ UNCHANGED <<req, file, fileLock, job, cleanup, imported, tail>>
    BY <1>3 DEF ImportStops, db, products
  <2>2. CASE Flagged(w) /\ Throws(w, "cancel", "w_catch")
    BY <1>3, <1>w, <2>1, <2>2, ThrowsMoves DEF ImportStops, At, Light, Acts, Moves, TypeOK, Place, Flagged
  <2>3. CASE run[w].n = Chunks /\ Goto(w, "w_logs")
    BY <1>3, <1>w, <2>1, <2>3, GotoMoves DEF ImportStops, At, Light, Acts, Moves, TypeOK, Place
  <2> QED
    BY <1>3, <2>2, <2>3 DEF ImportStops
<1>4. CASE MediaEnds(w)
  <2>1. TypeOK /\ UNCHANGED <<req, file, fileLock, job, cleanup, imported, tail>>
    BY <1>4 DEF MediaEnds, db, products
  <2>2. CASE Flagged(w)
    BY <1>4, <1>w, <2>1, <2>2, ThrowsMoves DEF MediaEnds, At, Light, Acts, Moves, TypeOK, Place, Flagged
  <2>3. CASE ~Flagged(w)
    BY <1>4, <1>w, <2>1, <2>3, GotoMoves DEF MediaEnds, At, Light, Acts, Moves, TypeOK, Place
  <2> QED
    BY <2>2, <2>3
<1>5. CASE Erase(w)
  <2>1. TypeOK /\ UNCHANGED <<req, fileLock, job, cleanup, imported, tail>> /\ file' \in {"gone", "erasing"}
    BY <1>5 DEF Erase, products
  <2>2. PICK pc \in {"w_end", "w_cleanup"} : Goto(w, pc)
    BY <1>5 DEF Erase
  <2> QED
    BY <1>5, <1>w, <2>1, <2>2, GotoMoves DEF Erase, At, Light, Acts, Moves, TypeOK, Place
<1>6. CASE QueueCleanup(w)
  <2>1. TypeOK /\ UNCHANGED <<req, file, fileLock, job, imported, tail>> /\ cleanup' \in BOOLEAN
    BY <1>6 DEF QueueCleanup, products, db, TypeOK
  <2> QED
    BY <1>6, <1>w, <2>1, GotoMoves DEF QueueCleanup, At, Light, Acts, Moves, TypeOK, Place
<1>7. CASE Free(w)
  <2>1. TypeOK /\ UNCHANGED <<req, fileLock, job, cleanup, imported, tail>> /\ file' \in {"gone", "uploaded"}
    BY <1>7 DEF Free, Freed, products
  <2> QED
    BY <1>7, <1>w, <2>1, GotoMoves DEF Free, At, Light, Acts, Moves, TypeOK, Place
<1>8. CASE End(w) /\ ~Ends(w)
  <2>0. run[w].pc = "w_end" /\ run[w].j \in Job \cup {None} /\ run[w] \in Running
    BY <1>8, <1>w DEF End, At, TypeOK, Running
  <2>1. TypeOK /\ UNCHANGED <<req, file, fileLock, job, cleanup, imported, tail>>
    BY <1>8 DEF End, db, products
  <2>2. Throws(w, "error", "w_catch")
    BY <1>8 DEF End
  <2> QED
    BY <1>w, <2>0, <2>1, <2>2, ThrowsMoves DEF Light, Acts, Moves, TypeOK, Place
<1> QED
  BY <1>1, <1>2, <1>3, <1>4, <1>5, <1>6, <1>7, <1>8

LEMMA Updated ==
  ASSUME TypeOK, NEW w \in Worker, run[w].r \in Request, NEW row \in Row, Update(w, row)
  PROVE  /\ req' \in [Request -> Row] /\ RowFree(w, run[w].r) /\ req'[run[w].r] = row
         /\ \A x \in Request \ {run[w].r} : req'[x] = req[x]
BY DEF Update, TypeOK

LEMMA Copies ==
  ASSUME TypeOK, NEW p \in Process
  PROVE  run[p].seen \in Row /\ run[p].n \in 0..Chunks /\ run[p].bad \in Nat /\ run[p].r \in Request \cup {None}
         /\ run[p].j \in Job \cup {None} /\ run[p].write \in Row /\ run[p] \in Running
BY DEF TypeOK, Running

LEMMA RowChanges ==
  ASSUME NEW row \in Row, NEW st \in Status
  PROVE  /\ [row EXCEPT !.st = st] \in Row /\ [row EXCEPT !.st = st].st = st
         /\ [row EXCEPT !.st = st].failed = row.failed
BY DEF Row

\* onStart.
LEMMA StartSteps ==
  ASSUME TypeOK, NEW w \in Worker, run[w].r \in Request, OnStart(w)
  PROVE  /\ Acts(w) /\ UNCHANGED <<req, imported, tail>> /\ run[w].pc = "w_start" /\ run'[w].n = run[w].n
         /\ run'[w].bad = run[w].bad
         /\ \/ run'[w].pc = "w_catch" /\ req[run[w].r].st \in {"CANCELLING", "CANCELLED"}
            \/ run'[w].pc = "w_catch" /\ run'[w].err = "error" /\ run'[w].seen = run[w].seen
            \/ run'[w].pc = "w_begin" /\ run'[w].seen.st = "PROCESSING" /\ run'[w].err = run[w].err
               /\ req[run[w].r].st = "PENDING"
<1> DEFINE row == req[run[w].r]
<1>1. /\ w \in Process /\ row \in Row /\ run[w].pc = "w_start" /\ TypeOK
      /\ UNCHANGED <<req, file, fileLock, job, cleanup, imported, tail>>
  BY Processes DEF OnStart, At, db, products, TypeOK
<1>2. CASE row.st \in {"CANCELLING", "CANCELLED"}
  <2>1. Throws(w, "cancel", "w_catch")
    BY <1>2 DEF OnStart, Starts
  <2> QED
    BY <1>1, <1>2, <2>1, ThrowsMoves DEF Acts, Moves, TypeOK, Place
<1>3. CASE row.st \notin {"CANCELLING", "CANCELLED"} /\ Starts(row)
  <2> DEFINE copy == [row EXCEPT !.st = "PROCESSING"]
  <2>1. Reads(w, copy, "w_begin")
    BY <1>3 DEF OnStart
  <2>2. copy \in Row /\ copy.st = "PROCESSING"
    BY <1>1, RowChanges DEF Status
  <2> HIDE DEF copy
  <2>3. /\ Moves(w) /\ run'[w].pc = "w_begin" /\ run'[w].seen = copy /\ run'[w].r = run[w].r
        /\ run'[w].j = run[w].j /\ run'[w].err = run[w].err /\ run'[w].n = run[w].n
        /\ run'[w].bad = run[w].bad
    BY <1>1, <2>1, <2>2, ReadsMoves DEF Place
  <2> QED
    BY <1>1, <1>3, <2>2, <2>3 DEF Acts, Moves, TypeOK, Starts
<1>4. CASE row.st \notin {"CANCELLING", "CANCELLED"} /\ ~Starts(row)
  <2>1. Throws(w, "error", "w_catch")
    BY <1>4 DEF OnStart
  <2> QED
    BY <1>1, <1>4, <2>1, ThrowsMoves DEF Acts, Moves, TypeOK, Place
<1> QED
  BY <1>2, <1>3, <1>4

\* Steps that write the copy as it is, and read nothing.
LEMMA WriteSteps ==
  ASSUME TypeOK, NEW w \in Worker, run[w].r \in Request,
         Begin(w) \/ MediaTotal(w) \/ MediaWarns(w) \/ MediaFail(w) \/ Fail(w)
  PROVE  /\ Writes(w, run[w].seen) /\ run'[w].seen = run[w].seen
         /\ \/ /\ run[w].pc = "w_begin" /\ run'[w].pc = "w_rows"
               /\ run'[w].n = run[w].n /\ run'[w].bad = run[w].bad
            \/ run[w].pc = "w_total" /\ run'[w].pc = "w_loop"
            \/ run[w].pc = "w_loop" /\ run'[w].pc = "w_loop"
            \/ run[w].pc = "w_media_fail" /\ run'[w].pc = "w_catch"
            \/ run[w].pc = "w_fail" /\ run'[w].pc = "w_restore"
         /\ run'[w].err \in {run[w].err, "error"}
<1>1. /\ w \in Process /\ run[w].seen \in Row /\ run[w].n \in 0..Chunks /\ Chunks \in Nat
      /\ run[w] \in Running
  BY Processes, Copies, BoundAssumption
<1>2. /\ UNCHANGED <<file, fileLock, job, cleanup, imported, tail>> /\ Update(w, run[w].seen)
  BY DEF Begin, MediaTotal, MediaWarns, MediaFail, Fail, products
<1>3. /\ req' \in [Request -> Row] /\ RowFree(w, run[w].r) /\ req'[run[w].r] = run[w].seen
      /\ \A x \in Request \ {run[w].r} : req'[x] = req[x]
  BY <1>1, <1>2, Updated
<1>4. ASSUME NEW pc \in Place \ {"idle"}, Goto(w, pc)
      PROVE  /\ Writes(w, run[w].seen) /\ run'[w].seen = run[w].seen /\ run'[w].pc = pc
             /\ run'[w].n = run[w].n /\ run'[w].err = run[w].err /\ run'[w].bad = run[w].bad
  BY <1>1, <1>2, <1>3, <1>4, GotoMoves DEF Writes, Acts, Moves, TypeOK
<1>5. CASE Begin(w)
  BY <1>4, <1>5 DEF Begin, At, Place
<1>7. CASE MediaTotal(w)
  BY <1>4, <1>7 DEF MediaTotal, At, Place
<1>8. CASE MediaWarns(w)
  <2> DEFINE s == [run[w] EXCEPT !.n = @ + 1]
  <2>1. run[w].pc = "w_loop" /\ run[w].n < Chunks /\ run' = [run EXCEPT ![w] = s]
    BY <1>8 DEF MediaWarns, At
  <2>2. run[w].n + 1 \in 0..Chunks
    BY <1>1, <2>1
  <2>3. /\ s \in Running /\ s.pc = run[w].pc /\ s.seen = run[w].seen /\ s.r = run[w].r /\ s.j = run[w].j
        /\ s.err = run[w].err
    BY <1>1, <2>2 DEF Running
  <2> HIDE DEF s
  <2>4. Moves(w) /\ run'[w] = s
    BY <1>1, <2>1, <2>3, PlaceMoves
  <2> QED
    BY <1>1, <1>2, <1>3, <2>1, <2>3, <2>4 DEF Writes, Acts, Moves, TypeOK
<1>9. CASE MediaFail(w)
  <2>1. run[w].pc = "w_media_fail" /\ Throws(w, "error", "w_catch")
    BY <1>9 DEF MediaFail, At
  <2> QED
    BY <1>1, <1>2, <1>3, <2>1, ThrowsMoves DEF Writes, Acts, Moves, TypeOK, Place
<1>10. CASE Fail(w)
  BY <1>4, <1>10 DEF Fail, At, Place
<1> QED
  BY <1>5, <1>7, <1>8, <1>9, <1>10

\* setLogs.
LEMMA LogsSteps ==
  ASSUME TypeOK, NEW w \in Worker, run[w].r \in Request, Logs(w)
  PROVE  /\ Acts(w) /\ UNCHANGED <<imported, tail>> /\ RowFree(w, run[w].r)
         /\ req'[run[w].r] = run'[w].seen
         /\ run[w].pc = "w_logs" /\ run'[w].pc \in {"w_complete", "w_media"}
         /\ run'[w].seen.st = run[w].seen.st /\ run'[w].seen.failed = run[w].bad
         /\ run'[w].err = run[w].err
<1> DEFINE copy == [run[w].seen EXCEPT !.failed = run[w].bad]
<1>1. /\ w \in Process /\ run[w].seen \in Row /\ run[w].bad \in Nat
  BY Processes, Copies
<1>2. /\ UNCHANGED <<file, fileLock, job, cleanup, imported, tail>> /\ Update(w, copy)
      /\ run[w].pc = "w_logs"
  BY DEF Logs, products, At
<1>3. PICK pc \in {"w_complete", "w_media"} : Reads(w, copy, pc)
  BY DEF Logs
<1>4. copy \in Row /\ copy.st = run[w].seen.st /\ copy.failed = run[w].bad
  BY <1>1 DEF Row
<1> HIDE DEF copy
<1>5. /\ req' \in [Request -> Row] /\ RowFree(w, run[w].r) /\ req'[run[w].r] = copy
      /\ \A x \in Request \ {run[w].r} : req'[x] = req[x]
  BY <1>2, <1>4, Updated
<1>6. /\ Moves(w) /\ run'[w].pc = pc /\ run'[w].seen = copy /\ run'[w].r = run[w].r
      /\ run'[w].j = run[w].j /\ run'[w].err = run[w].err
  BY <1>1, <1>3, <1>4, ReadsMoves DEF Place
<1> QED
  BY <1>2, <1>3, <1>4, <1>5, <1>6 DEF Acts, Moves, TypeOK

\* A page, imported or passed over; the copy of the request may be written.
LEMMA ImportSteps ==
  ASSUME TypeOK, NEW w \in Worker, run[w].r \in Request, Import(w)
  PROVE  /\ Acts(w) /\ run[w].pc = "w_rows" /\ run'[w].pc = "w_rows"
         /\ run'[w].seen = run[w].seen /\ run'[w].n = run[w].n + 1 /\ run'[w].err = run[w].err
         /\ tail' = tail
         /\ \E here, fails \in {0, 1} :
              /\ here + fails > 0
              /\ imported'[run[w].r] = imported[run[w].r] + here /\ run'[w].bad = run[w].bad + fails
         /\ req' = req \/ (RowFree(w, run[w].r) /\ req'[run[w].r] = run[w].seen)
<1>1. /\ w \in Process /\ run[w].seen \in Row /\ run[w].n \in 0..Chunks /\ Chunks \in Nat
      /\ run[w] \in Running /\ run[w].r \in Request /\ run[w].bad \in Nat
  BY Processes, Copies, BoundAssumption
<1>2. /\ UNCHANGED <<file, fileLock, job, cleanup, tail>> /\ run[w].pc = "w_rows" /\ run[w].n < Chunks
      /\ req' = req \/ Update(w, run[w].seen)
  BY DEF Import, At
<1>p. PICK here \in {0, 1}, fails \in {0, 1} :
        /\ here + fails > 0
        /\ imported' = [imported EXCEPT ![run[w].r] = @ + here]
        /\ run' = [run EXCEPT ![w].n = @ + 1, ![w].bad = @ + fails]
  BY DEF Import
<1> DEFINE s == [run[w] EXCEPT !.n = @ + 1, !.bad = @ + fails]
<1>3. run[w].n + 1 \in 0..Chunks /\ run[w].bad + fails \in Nat
  BY <1>1, <1>2
<1>4. /\ s \in Running /\ s.pc = run[w].pc /\ s.seen = run[w].seen /\ s.r = run[w].r /\ s.j = run[w].j
      /\ s.err = run[w].err /\ s.n = run[w].n + 1 /\ s.bad = run[w].bad + fails
  BY <1>1, <1>3 DEF Running
<1>s. run' = [run EXCEPT ![w] = s]
  BY <1>p
<1> HIDE DEF s
<1>5. Moves(w) /\ run'[w] = s
  BY <1>1, <1>s, <1>4, PlaceMoves
<1>6. /\ req' \in [Request -> Row]
      /\ \A x \in Request \ {run[w].r} : req'[x] = req[x]
      /\ req' = req \/ (RowFree(w, run[w].r) /\ req'[run[w].r] = run[w].seen)
  BY <1>1, <1>2, Updated DEF TypeOK
<1>7. /\ imported' \in [Request -> Nat] /\ imported'[run[w].r] = imported[run[w].r] + here
      /\ \A x \in Request \ {run[w].r} : imported'[x] = imported[x]
  BY <1>1, <1>p DEF TypeOK
<1>8. Acts(w)
  BY <1>1, <1>2, <1>4, <1>5, <1>6, <1>7 DEF Acts, Moves, TypeOK
<1> QED
  BY <1>2, <1>4, <1>5, <1>6, <1>7, <1>8, <1>p

LEMMA BreakSteps ==
  ASSUME TypeOK, NEW w \in Worker, run[w].r \in Request, Breaks(w)
  PROVE  /\ Acts(w) /\ run[w].pc = "w_rows" /\ run'[w].pc \in {"w_catch", "w_hung"}
         /\ run'[w].seen = run[w].seen /\ run'[w].err \in {run[w].err, "error"}
         /\ UNCHANGED <<req, imported>> /\ tail'[run[w].r].row = run[w].seen
<1>1. /\ w \in Process /\ run[w].seen \in Row /\ run[w].n \in 0..Chunks /\ Chunks \in Nat
      /\ run[w].j \in Job \cup {None}
  BY Processes, Copies, BoundAssumption
<1>2. UNCHANGED <<req, file, fileLock, job, cleanup, imported>> /\ run[w].pc = "w_rows"
  BY DEF Breaks, db, At
<1>3. PICK k \in 0..(Chunks - run[w].n) :
        tail' = [tail EXCEPT ![run[w].r] = [n |-> k, j |-> run[w].j, row |-> run[w].seen]]
  BY DEF Breaks
<1>4. k \in 0..Chunks
  BY <1>1
<1>5. [n |-> k, j |-> run[w].j, row |-> run[w].seen] \in TailRow
  BY <1>1, <1>4 DEF TailRow
<1>6. /\ tail' \in [Request -> TailRow] /\ tail'[run[w].r].row = run[w].seen
      /\ \A x \in Request \ {run[w].r} : tail'[x] = tail[x]
  BY <1>3, <1>5 DEF TypeOK
<1>7. CASE Throws(w, "error", "w_catch")
  BY <1>1, <1>2, <1>6, <1>7, ThrowsMoves DEF Acts, Moves, TypeOK, Place
<1>8. CASE Goto(w, "w_hung")
  BY <1>1, <1>2, <1>6, <1>8, GotoMoves DEF Acts, Moves, TypeOK, Place
<1> QED
  BY <1>7, <1>8 DEF Breaks

LEMMA MediaSteps ==
  ASSUME TypeOK, NEW w \in Worker, run[w].r \in Request, Media(w)
  PROVE  /\ Acts(w) /\ UNCHANGED <<req, imported, tail>>
         /\ run[w].pc = "w_media" /\ run'[w].pc = "w_total" /\ run'[w].seen.st = req[run[w].r].st
         /\ run'[w].seen.failed \in {req[run[w].r].failed, run[w].seen.failed}
         /\ run'[w].err = run[w].err
<1>1. /\ w \in Process /\ run[w] \in Running /\ req[run[w].r] \in Row /\ 0 \in 0..Chunks
      /\ run[w].seen \in Row
  BY Processes, Copies, BoundAssumption DEF TypeOK
<1>2. UNCHANGED <<req, file, fileLock, job, cleanup, imported, tail>> /\ run[w].pc = "w_media"
  BY DEF Media, db, products, At
<1>p. PICK k \in {req[run[w].r].failed, run[w].seen.failed} :
        run' = [run EXCEPT ![w].pc = "w_total", ![w].n = 0, ![w].seen = [req[run[w].r] EXCEPT !.failed = k]]
  BY DEF Media
<1> DEFINE row == [req[run[w].r] EXCEPT !.failed = k]
           s == [run[w] EXCEPT !.pc = "w_total", !.n = 0, !.seen = row]
<1>r. row \in Row /\ row.st = req[run[w].r].st /\ row.failed = k
  BY <1>1 DEF Row
<1>s. run' = [run EXCEPT ![w] = s]
  BY <1>p
<1> HIDE DEF row
<1>3. /\ s \in Running /\ s.pc = "w_total" /\ s.seen = row /\ s.r = run[w].r /\ s.j = run[w].j
      /\ s.err = run[w].err
  BY <1>1, <1>r DEF Running, Place
<1> HIDE DEF s
<1>4. Moves(w) /\ run'[w] = s
  BY <1>1, <1>s, <1>3, PlaceMoves
<1> QED
  BY <1>1, <1>2, <1>r, <1>3, <1>4 DEF Acts, Moves, TypeOK

LEMMA CompleteSteps ==
  ASSUME TypeOK, NEW w \in Worker, run[w].r \in Request, Complete(w)
  PROVE  /\ run[w].pc = "w_complete" /\ Acts(w) /\ UNCHANGED <<imported, tail>>
         /\ \/ /\ run[w].seen.st = "PROCESSING" /\ run'[w].pc = "w_erase" /\ run'[w].seen = run[w].seen
               /\ Writes(w, [run[w].seen EXCEPT !.st = "COMPLETED"]) /\ req'[run[w].r].st = "COMPLETED"
               /\ req'[run[w].r].failed = run[w].seen.failed /\ run'[w].err = run[w].err
            \/ /\ run'[w].pc = "w_catch" /\ run'[w].seen = run[w].seen /\ req' = req /\ run'[w].err = "error"
            \/ /\ run[w].seen.st # "PROCESSING"
               /\ run'[w].pc = "w_media_fail" /\ run'[w].seen.st = "FAILED" /\ req' = req
               /\ run'[w].err = run[w].err
<1> DEFINE row == run[w].seen
<1>1. /\ w \in Process /\ row \in Row
      /\ UNCHANGED <<file, fileLock, job, cleanup, imported, tail>> /\ run[w].pc = "w_complete"
  BY Processes, Copies DEF Complete, products, At
<1>2. CASE row.st = "PROCESSING"
  <2> DEFINE done == [row EXCEPT !.st = "COMPLETED"]
  <2>1. Update(w, done) /\ Goto(w, "w_erase")
    BY <1>2 DEF Complete
  <2>2. done \in Row /\ done.st = "COMPLETED" /\ done.failed = row.failed
    BY <1>1, RowChanges DEF Status
  <2> HIDE DEF done
  <2>3. /\ req' \in [Request -> Row] /\ RowFree(w, run[w].r) /\ req'[run[w].r] = done
        /\ \A x \in Request \ {run[w].r} : req'[x] = req[x]
    BY <2>1, <2>2, Updated
  <2>4. /\ Moves(w) /\ run'[w].pc = "w_erase" /\ run'[w].seen = run[w].seen /\ run'[w].r = run[w].r
        /\ run'[w].j = run[w].j /\ run'[w].err = run[w].err
    BY <1>1, <2>1, GotoMoves DEF Place
  <2>5. Acts(w) /\ Writes(w, done)
    BY <1>1, <2>3, <2>4 DEF Acts, Writes, Moves, TypeOK
  <2> USE DEF done
  <2> QED
    BY <1>1, <1>2, <2>2, <2>3, <2>4, <2>5
<1>3. CASE row.st = "COMPLETED"
  <2>1. Throws(w, "error", "w_catch") /\ req' = req
    BY <1>3 DEF Complete
  <2> QED
    BY <1>1, <2>1, ThrowsMoves DEF Acts, Moves, TypeOK, Place
<1>4. CASE row.st \notin {"PROCESSING", "COMPLETED"}
  <2> DEFINE failed == Failed(row)
  <2>1. Reads(w, failed, "w_media_fail") /\ req' = req
    BY <1>4 DEF Complete
  <2>2. failed \in Row /\ failed.st = "FAILED"
    BY <1>1, RowChanges DEF Status, Failed
  <2> HIDE DEF failed
  <2>3. /\ Moves(w) /\ run'[w].pc = "w_media_fail" /\ run'[w].seen = failed /\ run'[w].r = run[w].r
        /\ run'[w].j = run[w].j /\ run'[w].err = run[w].err
    BY <1>1, <2>1, <2>2, ReadsMoves DEF Place
  <2> QED
    BY <1>1, <1>4, <2>1, <2>2, <2>3 DEF Acts, Moves, TypeOK
<1> QED
  BY <1>2, <1>3, <1>4

\* Steps that read the latest row: to fail it, or to leave it alone.
LEMMA FailReads ==
  ASSUME TypeOK, NEW w \in Worker, run[w].r \in Request, Basic(w) \/ Catch(w)
  PROVE  /\ Acts(w) /\ UNCHANGED <<req, imported, tail>> /\ run'[w].err = run[w].err
         /\ \/ run[w].pc \in {"w_basic", "w_catch"} /\ run'[w].pc = "w_throw"
               /\ run'[w].seen.st \in {"FAILED", req[run[w].r].st}
            \/ run[w].pc = "w_basic" /\ run'[w].pc \in {"w_free", "w_basic_fail"}
               /\ run'[w].seen = req[run[w].r] /\ req[run[w].r].st \in {"PENDING", "PROCESSING"}
            \/ run[w].pc = "w_catch" /\ run'[w].pc = "w_fail" /\ run'[w].seen.st = "FAILED"
               /\ ~Ended(req[run[w].r])
<1> DEFINE row == req[run[w].r]
<1>1. w \in Process /\ row \in Row
  BY Processes DEF TypeOK
<1>2. UNCHANGED <<req, file, fileLock, job, cleanup, imported, tail>>
  BY DEF Basic, Catch, db, products
<1>3. CASE Basic(w)
  <2>1. PICK pc \in {"w_throw", "w_free", "w_basic_fail"} :
          /\ run[w].pc = "w_basic" /\ Reads(w, row, pc)
          /\ pc # "w_throw" => row.st \in {"PENDING", "PROCESSING"}
    <3>1. CASE row.st \notin {"PENDING", "PROCESSING"}
      BY <1>3, <3>1 DEF Basic, At
    <3>2. CASE row.st \in {"PENDING", "PROCESSING"} /\ row.orig /\ file = "processing"
      BY <1>3, <3>2 DEF Basic, At
    <3>3. CASE row.st \in {"PENDING", "PROCESSING"} /\ ~(row.orig /\ file = "processing")
      BY <1>3, <3>3 DEF Basic, At
    <3> QED
      BY <3>1, <3>2, <3>3
  <2>2. /\ Moves(w) /\ run'[w].pc = pc /\ run'[w].seen = row /\ run'[w].r = run[w].r
        /\ run'[w].j = run[w].j /\ run'[w].err = run[w].err
    BY <1>1, <2>1, ReadsMoves DEF Place
  <2> QED
    BY <1>2, <2>1, <2>2 DEF Acts, Moves, TypeOK
<1>4. CASE Catch(w)
  <2> DEFINE failed == Failed(row)
  <2>1. PICK pc \in {"w_throw", "w_fail"} :
          /\ run[w].pc = "w_catch" /\ Reads(w, failed, pc)
          /\ pc = "w_fail" => ~Ended(row)
    <3>1. CASE row.st = "CANCELLING" \/ Ended(row)
      BY <1>4, <3>1 DEF Catch, At
    <3>2. CASE ~(row.st = "CANCELLING" \/ Ended(row))
      BY <1>4, <3>2 DEF Catch, At
    <3> QED
      BY <3>1, <3>2
  <2>2. failed \in Row /\ failed.st = "FAILED"
    BY <1>1, RowChanges DEF Status, Failed
  <2> HIDE DEF failed
  <2>3. /\ Moves(w) /\ run'[w].pc = pc /\ run'[w].seen = failed /\ run'[w].r = run[w].r
        /\ run'[w].j = run[w].j /\ run'[w].err = run[w].err
    BY <1>1, <2>1, <2>2, ReadsMoves DEF Place
  <2> QED
    BY <1>2, <2>1, <2>2, <2>3 DEF Acts, Moves, TypeOK
<1> QED
  BY <1>3, <1>4

LEMMA BasicFailSteps ==
  ASSUME TypeOK, NEW w \in Worker, run[w].r \in Request, BasicFail(w)
  PROVE  /\ Writes(w, Failed(run[w].seen)) /\ req'[run[w].r].st = "FAILED"
         /\ run[w].pc = "w_basic_fail" /\ run'[w].pc = "w_throw"
         /\ run'[w].seen = run[w].seen /\ run'[w].err = run[w].err
<1> DEFINE failed == Failed(run[w].seen)
<1>1. /\ w \in Process /\ run[w].seen \in Row
      /\ UNCHANGED <<file, fileLock, job, cleanup, imported, tail>>
      /\ run[w].pc = "w_basic_fail" /\ Update(w, failed) /\ Goto(w, "w_throw")
  BY Processes, Copies DEF BasicFail, products, At
<1>2. failed \in Row /\ failed.st = "FAILED"
  BY <1>1, RowChanges DEF Status, Failed
<1> HIDE DEF failed
<1>3. /\ req' \in [Request -> Row] /\ RowFree(w, run[w].r) /\ req'[run[w].r] = failed
      /\ \A x \in Request \ {run[w].r} : req'[x] = req[x]
  BY <1>1, <1>2, Updated
<1>4. /\ Moves(w) /\ run'[w].pc = "w_throw" /\ run'[w].seen = run[w].seen /\ run'[w].r = run[w].r
      /\ run'[w].j = run[w].j /\ run'[w].err = run[w].err
  BY <1>1, GotoMoves DEF Place
<1>5. Writes(w, failed)
  BY <1>1, <1>3, <1>4 DEF Acts, Writes, Moves, TypeOK
<1> USE DEF failed
<1> QED
  BY <1>1, <1>2, <1>3, <1>4, <1>5

LEMMA RestoreSteps ==
  ASSUME TypeOK, NEW w \in Worker, run[w].r \in Request, Restore(w)
  PROVE  /\ Acts(w) /\ UNCHANGED <<req, imported>>
         /\ tail'[run[w].r].row = NoRow /\ (tail[run[w].r] = NoTail => tail'[run[w].r] = NoTail)
         /\ run[w].pc = "w_restore" /\ run'[w].pc = "w_throw"
         /\ run'[w].seen = run[w].seen /\ run'[w].err = run[w].err
<1> DEFINE t == [tail[run[w].r] EXCEPT !.row = NoRow]
<1>1. w \in Process /\ tail[run[w].r] \in TailRow
  BY Processes DEF TypeOK
<1>2. /\ UNCHANGED <<req, fileLock, job, cleanup, imported>> /\ run[w].pc = "w_restore" /\ Goto(w, "w_throw")
      /\ tail' = [tail EXCEPT ![run[w].r] = t]
      /\ file' \in {"gone", "uploaded", file}
  BY DEF Restore, Freed, At
<1>3. t \in TailRow /\ t.row = NoRow /\ (tail[run[w].r] = NoTail => t = NoTail)
  BY <1>1, IdleRuns DEF TailRow, NoTail
<1> HIDE DEF t
<1>4. /\ tail' \in [Request -> TailRow] /\ tail'[run[w].r] = t
      /\ \A x \in Request \ {run[w].r} : tail'[x] = tail[x]
  BY <1>2, <1>3 DEF TypeOK
<1>5. /\ Moves(w) /\ run'[w].pc = "w_throw" /\ run'[w].seen = run[w].seen /\ run'[w].r = run[w].r
      /\ run'[w].j = run[w].j /\ run'[w].err = run[w].err
  BY <1>1, <1>2, GotoMoves DEF Place
<1> QED
  BY <1>2, <1>3, <1>4, <1>5 DEF Acts, Moves, TypeOK

\* The ways an attempt ends.
LEMMA EndSteps ==
  ASSUME TypeOK, NEW w \in Worker, run[w].j \in Job, End(w), Ends(w)
  PROVE  /\ TypeOK' /\ Moves(w) /\ run'[w] = Idle /\ run[w].pc = "w_end"
         /\ UNCHANGED <<req, imported, tail>>
         /\ job'[run[w].j].st = "completed" /\ job'[run[w].j].r = job[run[w].j].r
         /\ job'[run[w].j].flag = job[run[w].j].flag
         /\ \A i \in Job \ {run[w].j} : job'[i] = job[i]
<1> DEFINE j == run[w].j
           new == [job[j] EXCEPT !.st = "completed"]
<1>1. w \in Process /\ run[w].pc = "w_end" /\ job[j] \in JobRow /\ run[w] \in Running
  BY Processes, Copies DEF End, At, TypeOK
<1>2. UNCHANGED <<req, file, fileLock, cleanup, imported, tail>>
  BY DEF End, db, products
<1>3. Moves(w) /\ run'[w] = Idle
  BY <1>1, EndsMoves
<1>4. ~Throws(w, "error", "w_catch")
  <2>1. Idle.pc = "idle" /\ w \in Process
    BY <1>1 DEF Idle
  <2> QED
    BY <1>3, <2>1, ThrowsMoves DEF Place
<1>5. job' = [job EXCEPT ![j] = new]
  BY <1>4 DEF End
<1>6. new \in JobRow /\ new.st = "completed" /\ new.r = job[j].r /\ new.flag = job[j].flag
  BY <1>1 DEF JobRow
<1> HIDE DEF new
<1>7. job' \in [Job -> JobRow] /\ job'[j] = new /\ \A i \in Job \ {j} : job'[i] = job[i]
  BY <1>5, <1>6 DEF TypeOK
<1> QED
  BY <1>1, <1>2, <1>3, <1>6, <1>7 DEF Moves, TypeOK

LEMMA ThrowSteps ==
  ASSUME TypeOK, NEW w \in Worker, run[w].j \in Job, job[run[w].j].tries < Attempts, Throw(w)
  PROVE  /\ TypeOK' /\ run'[w] = Idle /\ run[w].pc = "w_throw"
         /\ UNCHANGED <<req, imported, tail>>
         /\ run'[run[w].j].pc = "h_read" /\ run'[run[w].j].r = job[run[w].j].r
         /\ run'[run[w].j].err = run[w].err /\ run'[run[w].j].seen = NoRow
         /\ \A q \in Process \ {w, run[w].j} : run'[q] = run[q]
         /\ job'[run[w].j].st \in {"delayed", "failed"} /\ job'[run[w].j].r = job[run[w].j].r
         /\ job'[run[w].j].flag = job[run[w].j].flag
         /\ job'[run[w].j].st = "delayed" => job'[run[w].j].tries < Attempts
         /\ \A i \in Job \ {run[w].j} : job'[i] = job[i]
<1> DEFINE j == run[w].j
           st == IF job[j].tries + 1 < Attempts THEN "delayed" ELSE "failed"
           new == [job[j] EXCEPT !.tries = @ + 1, !.st = st]
           handler == Handle(j, run[w].err)
<1>1. /\ w \in Process /\ j \in Process /\ w # j /\ run[w].pc = "w_throw" /\ job[j] \in JobRow
      /\ run[w] \in Running
  BY Processes, Copies DEF Throw, At, TypeOK
<1>2. UNCHANGED <<req, file, fileLock, cleanup, imported, tail>>
  BY DEF Throw, db, products
<1>3. job' = [job EXCEPT ![j] = new] /\ run' = [run EXCEPT ![w] = Idle, ![j] = handler]
  BY DEF Throw
<1>4. job[j].tries \in 0..Attempts /\ Attempts \in Nat
  BY <1>1, BoundAssumption DEF JobRow
<1>5. job[j].tries + 1 \in 0..Attempts
  BY <1>4
<1>6. /\ new \in JobRow /\ new.st \in {"delayed", "failed"} /\ new.r = job[j].r /\ new.flag = job[j].flag
      /\ new.st = "delayed" => new.tries < Attempts
  BY <1>1, <1>5 DEF JobRow
<1> HIDE DEF new
<1>7. job' \in [Job -> JobRow] /\ job'[j] = new /\ \A i \in Job \ {j} : job'[i] = job[i]
  BY <1>3, <1>6 DEF TypeOK
<1>8. /\ handler \in Running /\ handler.pc = "h_read" /\ handler.r = job[j].r /\ handler.err = run[w].err
      /\ handler.seen = NoRow
  BY <1>1, IdleRuns DEF Handle, Idle, Running, JobRow, Place
<1> HIDE DEF handler
<1>9. /\ run' \in [Process -> Running] /\ run'[w] = Idle /\ run'[j] = handler
      /\ \A q \in Process \ {w, j} : run'[q] = run[q]
  BY <1>1, <1>3, <1>8, IdleRuns DEF TypeOK
<1> QED
  BY <1>1, <1>2, <1>6, <1>7, <1>8, <1>9 DEF TypeOK

-----------------------------------------------------------------------------
(* What a handler of a failed event does in one step. *)

Serves(j) ==
  /\ TypeOK' /\ job' = job /\ tail' = tail /\ Moves(j)
  /\ \A x \in Request \ {run[j].r} : req'[x] = req[x] /\ imported'[x] = imported[x]

LEMMA HandlerReadSteps ==
  ASSUME TypeOK, NEW j \in Job, run[j].r \in Request, HandlerReads(j)
  PROVE  /\ Serves(j) /\ UNCHANGED <<req, imported>> /\ run[j].pc = "h_read"
         /\ run'[j].r = run[j].r /\ run'[j].err = run[j].err /\ run'[j].seen = req[run[j].r]
         /\ \/ run'[j].pc = "h_products" /\ run[j].err = "cancel"
            \/ run'[j].pc = "h_restore" /\ run[j].err # "cancel"
<1> DEFINE pc == IF run[j].err = "cancel" THEN "h_products" ELSE "h_restore"
<1>1. /\ j \in Process /\ req[run[j].r] \in Row /\ run[j].pc = "h_read"
      /\ UNCHANGED <<req, file, fileLock, job, cleanup, imported, tail>>
      /\ Reads(j, req[run[j].r], pc)
  BY Processes DEF HandlerReads, At, db, products, TypeOK
<1>2. /\ pc \in Place
      /\ \/ pc = "h_products" /\ run[j].err = "cancel"
         \/ pc = "h_restore" /\ run[j].err # "cancel"
  BY DEF Place
<1> HIDE DEF pc
<1>3. /\ Moves(j) /\ run'[j].pc = pc /\ run'[j].seen = req[run[j].r] /\ run'[j].r = run[j].r
      /\ run'[j].err = run[j].err
  BY <1>1, <1>2, ReadsMoves
<1> QED
  BY <1>1, <1>2, <1>3 DEF Serves, Moves, TypeOK

LEMMA DeleteProductsSteps ==
  ASSUME TypeOK, NEW j \in Job, run[j].r \in Request, DeleteProducts(j)
  PROVE  /\ Serves(j) /\ req' = req /\ run[j].pc = "h_products" /\ run'[j].pc = "h_restore"
         /\ run'[j].r = run[j].r /\ run'[j].err = run[j].err /\ run'[j].seen = run[j].seen
         /\ (imported[run[j].r] = 0 => imported'[run[j].r] = 0)
<1>1. /\ j \in Process /\ run[j].pc = "h_products" /\ Goto(j, "h_restore")
      /\ UNCHANGED <<req, file, fileLock, job, cleanup, tail>>
      /\ imported' = [imported EXCEPT ![run[j].r] = @ \div 2]
  BY Processes DEF DeleteProducts, At, db
<1>2. imported[run[j].r] \in Nat
  BY DEF TypeOK
<1>3. imported[run[j].r] \div 2 \in Nat /\ (imported[run[j].r] = 0 => imported[run[j].r] \div 2 = 0)
  BY <1>2
<1>4. /\ imported' \in [Request -> Nat] /\ imported'[run[j].r] = imported[run[j].r] \div 2
      /\ \A x \in Request \ {run[j].r} : imported'[x] = imported[x]
  BY <1>1, <1>3 DEF TypeOK
<1>5. /\ Moves(j) /\ run'[j].pc = "h_restore" /\ run'[j].r = run[j].r
      /\ run'[j].err = run[j].err /\ run'[j].seen = run[j].seen
  BY <1>1, GotoMoves DEF Place
<1> QED
  BY <1>1, <1>3, <1>4, <1>5 DEF Serves, Moves, TypeOK

LEMMA HandlerLightSteps ==
  ASSUME TypeOK, NEW j \in Job, run[j].r \in Request, HandlerRestores(j) \/ HandlerFrees(j)
  PROVE  /\ Serves(j) /\ UNCHANGED <<req, imported>>
         /\ run[j].pc \in {"h_restore", "h_free"} /\ run'[j].pc \in {"h_free", "h_write"}
         /\ run'[j].r = run[j].r /\ run'[j].err = run[j].err /\ run'[j].seen = run[j].seen
<1>1. j \in Process
  BY Processes
<1>2. /\ UNCHANGED <<req, job, cleanup, imported, tail>>
      /\ file' \in {file, "gone", "uploaded"} /\ fileLock' \in {fileLock, j, None}
      /\ run[j].pc \in {"h_restore", "h_free"}
  BY DEF HandlerRestores, HandlerFrees, db, products, At, Freed
<1>3. PICK pc \in {"h_free", "h_write"} : Goto(j, pc)
  <2>1. CASE HandlerFrees(j)
    BY <2>1 DEF HandlerFrees
  <2>2. CASE HandlerRestores(j) /\ run[j].err = "cancel"
    BY <2>2 DEF HandlerRestores
  <2>3. CASE HandlerRestores(j) /\ run[j].err # "cancel" /\ req[run[j].r].orig /\ file = "processing"
    BY <2>3 DEF HandlerRestores
  <2>4. CASE HandlerRestores(j) /\ run[j].err # "cancel" /\ ~(req[run[j].r].orig /\ file = "processing")
    BY <2>4 DEF HandlerRestores
  <2> QED
    BY <2>1, <2>2, <2>3, <2>4
<1>4. /\ Moves(j) /\ run'[j].pc = pc /\ run'[j].r = run[j].r
      /\ run'[j].err = run[j].err /\ run'[j].seen = run[j].seen
  BY <1>1, <1>3, GotoMoves DEF Place
<1> QED
  BY <1>2, <1>4 DEF Serves, Moves, TypeOK

LEMMA HandlerWriteSteps ==
  ASSUME TypeOK, NEW j \in Job, run[j].r \in Request, HandlerWrites(j)
  PROVE  /\ Serves(j) /\ imported' = imported /\ run[j].pc = "h_write" /\ run'[j] = Idle
         /\ \/ req' = req
            \/ RowFree(j, run[j].r) /\ run[j].err = "cancel" /\ req'[run[j].r].st = "CANCELLED"
            \/ RowFree(j, run[j].r) /\ ~Ended(run[j].seen) /\ req'[run[j].r].st = "FAILED"
<1> DEFINE row == run[j].seen
           cancelled == Cancelled(row)
           failed == Failed(row)
<1>1. /\ j \in Process /\ row \in Row /\ run[j].pc = "h_write" /\ Ends(j)
      /\ UNCHANGED <<file, fileLock, job, cleanup, imported, tail>>
  BY Processes, Copies DEF HandlerWrites, At, products
<1>2. Moves(j) /\ run'[j] = Idle
  BY <1>1, EndsMoves
<1>3. /\ cancelled \in Row /\ cancelled.st = "CANCELLED"
      /\ failed \in Row /\ failed.st = "FAILED"
  BY <1>1 DEF Cancelled, Failed, Row, Status
<1>4. \/ req' = req
      \/ run[j].err = "cancel" /\ Update(j, cancelled)
      \/ ~Ended(row) /\ Update(j, failed)
  <2>1. CASE run[j].err = "cancel" /\ row.st = "CANCELLING"
    BY <2>1 DEF HandlerWrites
  <2>2. CASE run[j].err = "error" /\ ~Ended(row)
    BY <2>2 DEF HandlerWrites
  <2>3. CASE ~(run[j].err = "cancel" /\ row.st = "CANCELLING") /\ ~(run[j].err = "error" /\ ~Ended(row))
    BY <2>3 DEF HandlerWrites
  <2> QED
    BY <2>1, <2>2, <2>3
<1> HIDE DEF cancelled, failed
<1>5. ASSUME NEW new \in Row, Update(j, new)
      PROVE  /\ req' \in [Request -> Row] /\ req'[run[j].r] = new /\ RowFree(j, run[j].r)
             /\ \A x \in Request \ {run[j].r} : req'[x] = req[x]
  BY <1>5 DEF Update, TypeOK
<1>6. CASE req' = req
  BY <1>1, <1>2, <1>6 DEF Serves, Moves, TypeOK
<1>7. CASE run[j].err = "cancel" /\ Update(j, cancelled)
  BY <1>1, <1>2, <1>3, <1>5, <1>7 DEF Serves, Moves, TypeOK
<1>8. CASE ~Ended(row) /\ Update(j, failed)
  BY <1>1, <1>2, <1>3, <1>5, <1>8 DEF Serves, Moves, TypeOK
<1> QED
  BY <1>4, <1>6, <1>7, <1>8

-----------------------------------------------------------------------------
(* What a command does in one step. *)

Asks(c) == TypeOK' /\ Moves(c) /\ UNCHANGED <<imported, tail>>

LEMMA BeginStartSteps ==
  ASSUME TypeOK, NEW c \in Client, NEW r \in Request, NEW j \in Job, BeginStart(c, r, j)
  PROVE  /\ Asks(c) /\ UNCHANGED <<req, job>> /\ run[c].pc = "idle" /\ req[r] # NoRow /\ Fresh(j)
         /\ run'[c].pc = "s_lock" /\ run'[c].r = r /\ run'[c].j = j
         /\ run'[c].seen = NoRow /\ run'[c].err = "none"
<1> DEFINE s == [Idle EXCEPT !.pc = "s_lock", !.r = r, !.j = j]
<1>1. /\ c \in Process /\ UNCHANGED <<req, file, fileLock, job, cleanup, imported, tail>>
      /\ run' = [run EXCEPT ![c] = s] /\ run[c].pc = "idle" /\ req[r] # NoRow /\ Fresh(j)
  BY Processes DEF BeginStart, At, db, products
<1>2. s \in Running /\ s.pc = "s_lock" /\ s.r = r /\ s.j = j /\ s.seen = NoRow /\ s.err = "none"
  BY IdleRuns DEF Idle, Running, Place
<1> HIDE DEF s
<1>3. Moves(c) /\ run'[c] = s
  BY <1>1, <1>2, PlaceMoves
<1> QED
  BY <1>1, <1>2, <1>3 DEF Asks, Moves, TypeOK

LEMMA StartLockedSteps ==
  ASSUME TypeOK, NEW c \in Client, run[c].r \in Request, StartLocked(c)
  PROVE  /\ Asks(c) /\ UNCHANGED <<req, job>> /\ run[c].pc = "s_lock"
         /\ \/ run'[c] = Idle
            \/ /\ run'[c].pc = "s_write" /\ run'[c].r = run[c].r /\ run'[c].j = run[c].j
               /\ run'[c].seen = req[run[c].r] /\ Startable(req[run[c].r]) /\ run'[c].err = run[c].err
<1>1. /\ c \in Process /\ req[run[c].r] \in Row /\ UNCHANGED <<req, file, job, cleanup, imported, tail>>
      /\ run[c].pc = "s_lock"
  BY Processes DEF StartLocked, At, db, products, TypeOK
<1>2. CASE fileLock = None /\ Startable(req[run[c].r]) /\ file = "uploaded"
  <2>1. fileLock' = c /\ Reads(c, req[run[c].r], "s_write")
    BY <1>2 DEF StartLocked
  <2> QED
    BY <1>1, <1>2, <2>1, ReadsMoves DEF Asks, Moves, TypeOK, Place
<1>3. CASE ~(fileLock = None /\ Startable(req[run[c].r]) /\ file = "uploaded")
  <2>1. Ends(c) /\ fileLock' = fileLock
    BY <1>3 DEF StartLocked
  <2> QED
    BY <1>1, <2>1, EndsMoves DEF Asks, Moves, TypeOK
<1> QED
  BY <1>2, <1>3

LEMMA StartWriteSteps ==
  ASSUME TypeOK, NEW c \in Client, run[c].j \in Job, StartWrite(c)
  PROVE  /\ Asks(c) /\ UNCHANGED <<req, job>> /\ run[c].pc = "s_write"
         /\ \/ run'[c] = Idle
            \/ /\ run'[c].pc = "s_queue" /\ run'[c].r = run[c].r /\ run'[c].j = run[c].j
               /\ run'[c].seen = run[c].seen /\ run'[c].write.st = run[c].seen.st /\ run'[c].err = run[c].err
<1>1. /\ c \in Process /\ UNCHANGED <<req, file, job, cleanup, imported, tail>> /\ run[c].pc = "s_write"
      /\ run[c] \in Running
  BY Processes, Copies DEF StartWrite, At, db, products
<1>2. CASE file = "gone"
  <2>1. Ends(c) /\ fileLock' = None
    BY <1>2 DEF StartWrite
  <2> QED
    BY <1>1, <2>1, EndsMoves DEF Asks, Moves, TypeOK
<1>3. CASE file # "gone"
  <2> DEFINE row == [run[c].seen EXCEPT !.job = run[c].j, !.orig = TRUE]
             s == [run[c] EXCEPT !.pc = "s_queue", !.write = row]
  <2>1. fileLock' = fileLock /\ run' = [run EXCEPT ![c] = s]
    BY <1>3 DEF StartWrite
  <2>2. row \in Row /\ row.st = run[c].seen.st
    BY Copies, <1>1 DEF Row
  <2> HIDE DEF row
  <2>3. /\ s \in Running /\ s.pc = "s_queue" /\ s.r = run[c].r /\ s.j = run[c].j /\ s.seen = run[c].seen
        /\ s.write = row /\ s.err = run[c].err
    BY <1>1, <2>2 DEF Running, Place
  <2> HIDE DEF s
  <2>4. Moves(c) /\ run'[c] = s
    BY <1>1, <2>1, <2>3, PlaceMoves
  <2> QED
    BY <1>1, <2>1, <2>2, <2>3, <2>4 DEF Asks, Moves, TypeOK
<1> QED
  BY <1>2, <1>3

LEMMA StartQueueSteps ==
  ASSUME TypeOK, NEW c \in Client, run[c].j \in Job, run[c].r \in Request, StartQueue(c)
  PROVE  /\ Asks(c) /\ req' = req /\ run[c].pc = "s_queue"
         /\ \/ run'[c] = Idle /\ job' = job
            \/ /\ run'[c].pc = "s_unlock" /\ run'[c].r = run[c].r /\ run'[c].j = run[c].j
               /\ run'[c].seen = run[c].seen /\ run'[c].write = run[c].write /\ run'[c].err = run[c].err
               /\ job'[run[c].j].r = run[c].r /\ job'[run[c].j].st = "waiting"
               /\ job'[run[c].j].tries = 0 /\ ~job'[run[c].j].flag
               /\ \A i \in Job \ {run[c].j} : job'[i] = job[i]
<1> DEFINE new == [NoJob EXCEPT !.r = run[c].r, !.st = "waiting"]
<1>1. /\ c \in Process /\ UNCHANGED <<req, file, cleanup, imported, tail>> /\ run[c].pc = "s_queue"
  BY Processes DEF StartQueue, At, db, products
<1>2. CASE Ends(c) /\ fileLock' = None /\ job' = job
  BY <1>1, <1>2, EndsMoves DEF Asks, Moves, TypeOK
<1>3. CASE job' = [job EXCEPT ![run[c].j] = new] /\ Goto(c, "s_unlock") /\ fileLock' = fileLock
  <2>1. 0 \in 0..Attempts /\ 0 \in 0..1
    BY BoundAssumption
  <2>2. new \in JobRow /\ new.r = run[c].r /\ new.st = "waiting" /\ new.tries = 0 /\ ~new.flag
    BY <2>1 DEF NoJob, JobRow
  <2> HIDE DEF new
  <2>3. /\ job' \in [Job -> JobRow] /\ job'[run[c].j] = new
        /\ \A i \in Job \ {run[c].j} : job'[i] = job[i]
    BY <1>3, <2>2 DEF TypeOK
  <2>4. /\ Moves(c) /\ run'[c].pc = "s_unlock" /\ run'[c].r = run[c].r /\ run'[c].j = run[c].j
        /\ run'[c].seen = run[c].seen /\ run'[c].write = run[c].write /\ run'[c].err = run[c].err
    BY <1>1, <1>3, GotoMoves DEF Place
  <2> QED
    BY <1>1, <1>3, <2>2, <2>3, <2>4 DEF Asks, Moves, TypeOK
<1> QED
  BY <1>2, <1>3 DEF StartQueue

\* Steps that change nothing but the command's own place.
LEMMA ClientLightSteps ==
  ASSUME TypeOK, NEW c \in Client, StartUnlock(c) \/ CancelState(c)
  PROVE  /\ Asks(c) /\ UNCHANGED <<req, job>>
         /\ run'[c].r = run[c].r /\ run'[c].j = run[c].j /\ run'[c].seen = run[c].seen
         /\ run'[c].write = run[c].write /\ run'[c].err = run[c].err
         /\ \/ run[c].pc = "s_unlock" /\ run'[c].pc = "commit"
            \/ run[c].pc = "x_state" /\ run'[c].pc = "x_cancel"
            \/ /\ run[c].pc = "x_state" /\ run'[c].pc \in {"x_remove", "x_flag"}
               /\ job[run[c].seen.job].st # "none"
<1>1. c \in Process /\ UNCHANGED <<req, file, job, cleanup, imported, tail>>
  BY Processes DEF StartUnlock, CancelState, db, products
<1>2. fileLock' \in {None, fileLock}
  BY DEF StartUnlock, CancelState
<1>3. CASE StartUnlock(c)
  BY <1>1, <1>2, <1>3, GotoMoves DEF StartUnlock, At, Asks, Moves, TypeOK, Place
<1>4. CASE CancelState(c)
  <2> DEFINE st == job[run[c].seen.job].st
  <2>1. PICK pc \in {"x_remove", "x_flag", "x_cancel"} :
          Goto(c, pc) /\ (pc = "x_cancel" \/ st # "none")
    <3>1. CASE st \in {"waiting", "delayed"}
      BY <1>4, <3>1 DEF CancelState
    <3>2. CASE st = "active"
      BY <1>4, <3>2 DEF CancelState
    <3>3. CASE st \notin {"waiting", "delayed", "active"}
      BY <1>4, <3>3 DEF CancelState
    <3> QED
      BY <3>1, <3>2, <3>3
  <2>2. run[c].pc = "x_state"
    BY <1>4 DEF CancelState, At
  <2>3. /\ Moves(c) /\ run'[c].pc = pc /\ run'[c].r = run[c].r /\ run'[c].j = run[c].j
        /\ run'[c].seen = run[c].seen /\ run'[c].write = run[c].write /\ run'[c].err = run[c].err
    BY <1>1, <2>1, GotoMoves DEF Place
  <2> QED
    BY <1>1, <1>2, <2>1, <2>2, <2>3 DEF Asks, Moves, TypeOK
<1> QED
  BY <1>3, <1>4

LEMMA CommitSteps ==
  ASSUME TypeOK, NEW c \in Client, run[c].r \in Request, Commit(c)
  PROVE  /\ Asks(c) /\ job' = job /\ run[c].pc = "commit" /\ run'[c] = Idle
         /\ req' = req \/ req'[run[c].r] = run[c].write
         /\ \A x \in Request \ {run[c].r} : req'[x] = req[x]
<1>1. c \in Process /\ UNCHANGED <<fileLock, job, cleanup, imported, tail>> /\ run[c].pc = "commit"
      /\ Ends(c) /\ run[c].write \in Row
  BY Processes, Copies DEF Commit, products, At
<1>2. Moves(c) /\ run'[c] = Idle
  BY <1>1, EndsMoves
<1>3. /\ req' = req \/ req' = [req EXCEPT ![run[c].r] = run[c].write]
      /\ file' \in {file, "processing"}
  BY DEF Commit, db
<1>4. /\ req' \in [Request -> Row] /\ \A x \in Request \ {run[c].r} : req'[x] = req[x]
      /\ req' = req \/ req'[run[c].r] = run[c].write
  BY <1>1, <1>3 DEF TypeOK
<1> QED
  BY <1>1, <1>2, <1>3, <1>4 DEF Asks, Moves, TypeOK

LEMMA BeginCancelSteps ==
  ASSUME TypeOK, NEW c \in Client, NEW r \in Request, BeginCancel(c, r)
  PROVE  /\ Asks(c) /\ UNCHANGED <<req, job>> /\ "cancel" \in Ops
         /\ run'[c].pc = "x_write" /\ run'[c].r = r /\ run'[c].j = None
         /\ Cancellable(req[r])
<1> DEFINE s == [Idle EXCEPT !.pc = "x_write", !.r = r, !.seen = req[r]]
<1>1. /\ c \in Process /\ UNCHANGED <<req, file, fileLock, job, cleanup, imported, tail>>
      /\ run' = [run EXCEPT ![c] = s] /\ "cancel" \in Ops /\ Cancellable(req[r]) /\ req[r] \in Row
  BY Processes DEF BeginCancel, db, products, TypeOK
<1>2. s \in Running /\ s.pc = "x_write" /\ s.r = r /\ s.j = None
  BY <1>1, IdleRuns DEF Idle, Running, Place
<1> HIDE DEF s
<1>3. Moves(c) /\ run'[c] = s
  BY <1>1, <1>2, PlaceMoves
<1> QED
  BY <1>1, <1>2, <1>3 DEF Asks, Moves, TypeOK

LEMMA CancelWriteSteps ==
  ASSUME TypeOK, NEW c \in Client, CancelWrite(c) \/ CancelDone(c)
  PROVE  /\ Asks(c) /\ UNCHANGED <<req, job>>
         /\ run'[c].r = run[c].r /\ run'[c].j = run[c].j /\ run'[c].seen = run[c].seen
         /\ \/ run[c].pc = "x_write" /\ run'[c].pc = "x_cancel" /\ run'[c].write.st = "CANCELLING"
            \/ run[c].pc = "x_write" /\ run'[c].pc = "x_state" /\ run'[c].write.st = "CANCELLING"
               /\ run[c].seen.job # None
            \/ run[c].pc = "x_cancel" /\ run'[c].pc = "commit" /\ run'[c].write.st = "CANCELLED"
<1>1. /\ c \in Process /\ UNCHANGED <<req, file, fileLock, job, cleanup, imported, tail>>
      /\ run[c] \in Running /\ run[c].seen \in Row /\ run[c].write \in Row
  BY Processes, Copies DEF CancelWrite, CancelDone, db, products
<1>2. CASE CancelWrite(c)
  <2> DEFINE row == [run[c].seen EXCEPT !.st = "CANCELLING"]
             pc == IF run[c].seen.job = None THEN "x_cancel" ELSE "x_state"
             s == [run[c] EXCEPT !.write = row, !.pc = pc]
  <2>1. run[c].pc = "x_write" /\ run' = [run EXCEPT ![c] = s]
    BY <1>2 DEF CancelWrite, At
  <2>2. row \in Row /\ row.st = "CANCELLING"
    BY <1>1, RowChanges DEF Status
  <2> HIDE DEF row
  <2>3. /\ s \in Running /\ s.pc = pc /\ s.write = row /\ s.r = run[c].r /\ s.j = run[c].j
        /\ s.seen = run[c].seen
    BY <1>1, <2>2 DEF Running, Place
  <2>4. Moves(c) /\ run'[c] = s
    BY <1>1, <2>1, <2>3, PlaceMoves
  <2> HIDE DEF s
  <2> QED
    BY <1>1, <2>1, <2>2, <2>3, <2>4 DEF Asks, Moves, TypeOK
<1>3. CASE CancelDone(c)
  <2> DEFINE row == Cancelled(run[c].write)
             s == [run[c] EXCEPT !.pc = "commit", !.write = row]
  <2>1. run[c].pc = "x_cancel" /\ run' = [run EXCEPT ![c] = s]
    BY <1>3 DEF CancelDone, At
  <2>2. row \in Row /\ row.st = "CANCELLED"
    BY <1>1 DEF Cancelled, Row, Status
  <2> HIDE DEF row
  <2>3. /\ s \in Running /\ s.pc = "commit" /\ s.write = row /\ s.r = run[c].r /\ s.j = run[c].j
        /\ s.seen = run[c].seen
    BY <1>1, <2>2 DEF Running, Place
  <2> HIDE DEF s
  <2>4. Moves(c) /\ run'[c] = s
    BY <1>1, <2>1, <2>3, PlaceMoves
  <2> QED
    BY <1>1, <2>1, <2>2, <2>3, <2>4 DEF Asks, Moves, TypeOK
<1> QED
  BY <1>2, <1>3

LEMMA CancelJobSteps ==
  ASSUME TypeOK, NEW c \in Client, run[c].seen.job \in Job, CancelRemove(c) \/ CancelFlag(c)
  PROVE  /\ Asks(c) /\ req' = req
         /\ run'[c].r = run[c].r /\ run'[c].j = run[c].j /\ run'[c].seen = run[c].seen
         /\ run'[c].write = run[c].write
         /\ \/ /\ run[c].pc = "x_remove" /\ run'[c].pc = "x_cancel"
               /\ \/ job'[run[c].seen.job] = job[run[c].seen.job]
                  \/ job[run[c].seen.job].st # "active" /\ job'[run[c].seen.job].st = "removed"
            \/ /\ run[c].pc = "x_flag" /\ run'[c].pc = "commit"
               /\ job'[run[c].seen.job].st = job[run[c].seen.job].st
         /\ job'[run[c].seen.job].r = job[run[c].seen.job].r
         /\ job'[run[c].seen.job].tries = job[run[c].seen.job].tries
         /\ \A i \in Job \ {run[c].seen.job} : job'[i] = job[i]
<1> DEFINE j == run[c].seen.job
           removed == [job[j] EXCEPT !.st = "removed"]
           flagged == [job[j] EXCEPT !.flag = TRUE]
<1>1. c \in Process /\ UNCHANGED <<req, file, fileLock, cleanup, imported, tail>> /\ job[j] \in JobRow
  BY Processes DEF CancelRemove, CancelFlag, db, products, TypeOK
<1>2. /\ removed \in JobRow /\ removed.st = "removed" /\ removed.r = job[j].r /\ removed.tries = job[j].tries
      /\ flagged \in JobRow /\ flagged.st = job[j].st /\ flagged.r = job[j].r /\ flagged.tries = job[j].tries
  BY <1>1 DEF JobRow
<1>3. CASE CancelRemove(c)
  <2>1. /\ run[c].pc = "x_remove" /\ Goto(c, "x_cancel")
        /\ job' = job \/ (job[j].st # "active" /\ job' = [job EXCEPT ![j] = removed])
    BY <1>3 DEF CancelRemove, At
  <2> HIDE DEF removed
  <2>2. /\ job' \in [Job -> JobRow] /\ \A i \in Job \ {j} : job'[i] = job[i]
        /\ job'[j] = job[j] \/ (job[j].st # "active" /\ job'[j] = removed)
    BY <1>2, <2>1 DEF TypeOK
  <2>3. /\ Moves(c) /\ run'[c].pc = "x_cancel" /\ run'[c].r = run[c].r /\ run'[c].j = run[c].j
        /\ run'[c].seen = run[c].seen /\ run'[c].write = run[c].write
    BY <1>1, <2>1, GotoMoves DEF Place
  <2> QED
    BY <1>1, <1>2, <2>1, <2>2, <2>3 DEF Asks, Moves, TypeOK
<1>4. CASE CancelFlag(c)
  <2>1. /\ run[c].pc = "x_flag" /\ Goto(c, "commit") /\ job' = [job EXCEPT ![j] = flagged]
    BY <1>4 DEF CancelFlag, At
  <2> HIDE DEF flagged
  <2>2. job' \in [Job -> JobRow] /\ job'[j] = flagged /\ \A i \in Job \ {j} : job'[i] = job[i]
    BY <1>2, <2>1 DEF TypeOK
  <2>3. /\ Moves(c) /\ run'[c].pc = "commit" /\ run'[c].r = run[c].r /\ run'[c].j = run[c].j
        /\ run'[c].seen = run[c].seen /\ run'[c].write = run[c].write
    BY <1>1, <2>1, GotoMoves DEF Place
  <2> QED
    BY <1>1, <1>2, <2>1, <2>2, <2>3 DEF Asks, Moves, TypeOK
<1> QED
  BY <1>3, <1>4

-----------------------------------------------------------------------------
(* What the queue and the rows in the background do in one step. *)

LEMMA CreateSteps ==
  ASSUME TypeOK, NEW r \in Request, Create(r)
  PROVE  /\ TypeOK' /\ UNCHANGED <<job, imported, tail, run>>
         /\ req[r] = NoRow /\ req'[r].st = "PENDING"
         /\ \A x \in Request \ {r} : req'[x] = req[x]
<1> DEFINE new == [req[r] EXCEPT !.st = "PENDING"]
<1>1. /\ UNCHANGED <<file, fileLock, job, cleanup, imported, tail, run>> /\ req[r] = NoRow
      /\ req' = [req EXCEPT ![r] = new] /\ req[r] \in Row
  BY DEF Create, products, TypeOK
<1>2. new \in Row /\ new.st = "PENDING"
  BY <1>1, RowChanges DEF Status
<1> HIDE DEF new
<1> QED
  BY <1>1, <1>2 DEF TypeOK

\* A row in the background: it is dropped, or imported and perhaps logged.
LEMMA TailSteps ==
  ASSUME TypeOK, NEW r \in Request, ImportTail(r)
  PROVE  /\ TypeOK' /\ UNCHANGED <<job, run>> /\ tail[r] # NoTail
         /\ tail'[r].row \in {tail[r].row, NoRow}
         /\ req'[r] = req[r] \/ (tail[r].row # NoRow /\ req'[r] = tail[r].row)
         /\ req'[r] # req[r] => \A c \in Client : run[c].r = r => run[c].write = NoRow
         /\ \A x \in Request \ {r} : req'[x] = req[x] /\ imported'[x] = imported[x] /\ tail'[x] = tail[x]
<1>1. /\ UNCHANGED <<file, fileLock, job, cleanup, run>> /\ tail[r].n > 0 /\ tail[r] \in TailRow
      /\ tail[r].row \in Row /\ imported[r] \in Nat /\ req[r] \in Row
  BY DEF ImportTail, TypeOK, TailRow
<1>2. tail[r] # NoTail
  BY <1>1 DEF NoTail
<1>3. CASE tail' = [tail EXCEPT ![r] = NoTail] /\ UNCHANGED <<req, imported>>
  <2>1. 0 \in 0..Chunks
    BY BoundAssumption
  <2>2. NoTail \in TailRow /\ NoTail.row = NoRow
    BY <2>1, IdleRuns DEF NoTail, TailRow
  <2> QED
    BY <1>1, <1>2, <1>3, <2>2 DEF TypeOK
<1>4. CASE /\ \E here \in {0, 1} : imported' = [imported EXCEPT ![r] = @ + here]
           /\ tail' = [tail EXCEPT ![r] = IF tail[r].n = 1 THEN NoTail ELSE [tail[r] EXCEPT !.n = @ - 1]]
           /\ \/ UNCHANGED req
              \/ /\ tail[r].row # NoRow /\ RowFree(None, r)
                 /\ req' = [req EXCEPT ![r] = tail[r].row]
  <2> DEFINE less == [tail[r] EXCEPT !.n = @ - 1]
             new == IF tail[r].n = 1 THEN NoTail ELSE less
  <2>1. tail[r].n \in 0..Chunks /\ Chunks \in Nat
    BY <1>1, BoundAssumption DEF TailRow
  <2>2. tail[r].n - 1 \in 0..Chunks
    BY <1>1, <2>1
  <2>l. less \in TailRow /\ less.row = tail[r].row
    BY <1>1, <2>2 DEF TailRow
  <2>e. 0 \in 0..Chunks
    BY BoundAssumption
  <2>n. NoTail \in TailRow /\ NoTail.row = NoRow
    BY <2>e, IdleRuns DEF NoTail, TailRow
  <2>4. tail' = [tail EXCEPT ![r] = new]
    BY <1>4
  <2> HIDE DEF less
  <2>3. new \in TailRow /\ new.row \in {tail[r].row, NoRow}
    BY <2>l, <2>n
  <2> HIDE DEF new
  <2>5. /\ tail' \in [Request -> TailRow] /\ tail'[r] = new
        /\ \A x \in Request \ {r} : tail'[x] = tail[x]
    BY <2>3, <2>4 DEF TypeOK
  <2>6. /\ imported' \in [Request -> Nat] /\ \A x \in Request \ {r} : imported'[x] = imported[x]
    BY <1>1, <1>4 DEF TypeOK
  <2>7. CASE UNCHANGED req
    BY <1>1, <1>2, <2>3, <2>5, <2>6, <2>7 DEF TypeOK
  <2>8. CASE /\ tail[r].row # NoRow /\ RowFree(None, r)
             /\ req' = [req EXCEPT ![r] = tail[r].row]
    <3>1. \A c \in Client : run[c].r = r => run[c].write = NoRow
      BY <2>8, NameAssumption DEF RowFree
    <3> QED
      BY <1>1, <1>2, <2>3, <2>5, <2>6, <2>8, <3>1 DEF TypeOK
  <2> QED
    BY <1>4, <2>7, <2>8
<1> QED
  BY <1>3, <1>4 DEF ImportTail

LEMMA PickSteps ==
  ASSUME TypeOK, NEW w \in Worker, NEW j \in Job, Pick(w, j)
  PROVE  /\ TypeOK' /\ Moves(w) /\ UNCHANGED <<req, imported, tail>>
         /\ run[w].pc = "idle" /\ run[j].pc = "idle" /\ job[j].st = "waiting"
         /\ job'[j].st = "active" /\ job'[j].r = job[j].r /\ job'[j].tries = job[j].tries
         /\ job'[j].flag = job[j].flag /\ \A i \in Job \ {j} : job'[i] = job[i]
         /\ run'[w].pc = "w_check" /\ run'[w].r = job[j].r /\ run'[w].j = j
         /\ run'[w].n = 0 /\ run'[w].bad = 0 /\ run'[w].seen = NoRow /\ run'[w].err = "none"
<1> DEFINE new == [job[j] EXCEPT !.st = "active"]
           s == [Idle EXCEPT !.pc = "w_check", !.r = job[j].r, !.j = j]
<1>1. /\ w \in Process /\ UNCHANGED <<req, file, fileLock, cleanup, imported, tail>>
      /\ run[w].pc = "idle" /\ run[j].pc = "idle" /\ job[j].st = "waiting" /\ job[j] \in JobRow
      /\ job' = [job EXCEPT ![j] = new] /\ run' = [run EXCEPT ![w] = s]
  BY Processes DEF Pick, At, HandlerIdle, db, products, TypeOK
<1>2. /\ new \in JobRow /\ new.st = "active" /\ new.r = job[j].r /\ new.tries = job[j].tries
      /\ new.flag = job[j].flag
  BY <1>1 DEF JobRow
<1>3. /\ s \in Running /\ s.pc = "w_check" /\ s.r = job[j].r /\ s.j = j /\ s.n = 0 /\ s.seen = NoRow
      /\ s.bad = 0 /\ s.err = "none"
  BY <1>1, IdleRuns DEF Idle, Running, Place, JobRow
<1> HIDE DEF new, s
<1>4. Moves(w) /\ run'[w] = s
  BY <1>1, <1>3, PlaceMoves
<1> QED
  BY <1>1, <1>2, <1>3, <1>4 DEF Moves, TypeOK

LEMMA PromoteSteps ==
  ASSUME TypeOK, NEW j \in Job, Promote(j)
  PROVE  /\ TypeOK' /\ UNCHANGED <<req, imported, tail, run>>
         /\ job[j].st = "delayed" /\ run[j].pc = "idle"
         /\ job'[j].st = "waiting" /\ job'[j].r = job[j].r /\ job'[j].tries = job[j].tries
         /\ job'[j].flag = job[j].flag /\ \A i \in Job \ {j} : job'[i] = job[i]
<1> DEFINE new == [job[j] EXCEPT !.st = "waiting"]
<1>1. /\ UNCHANGED <<req, file, fileLock, cleanup, imported, tail, run>>
      /\ job[j].st = "delayed" /\ run[j].pc = "idle" /\ job[j] \in JobRow
      /\ job' = [job EXCEPT ![j] = new]
  BY DEF Promote, At, HandlerIdle, db, products, TypeOK
<1>2. /\ new \in JobRow /\ new.st = "waiting" /\ new.r = job[j].r /\ new.tries = job[j].tries
      /\ new.flag = job[j].flag
  BY <1>1 DEF JobRow
<1> HIDE DEF new
<1> QED
  BY <1>1, <1>2 DEF TypeOK

LEMMA StalledSteps ==
  ASSUME TypeOK, NEW j \in Job, Stalled(j)
  PROVE  /\ TypeOK' /\ Moves(j) /\ UNCHANGED <<req, imported, tail>>
         /\ job[j].st = "active" /\ \A w \in Worker : run[w].j # j
         /\ job'[j].r = job[j].r /\ job'[j].tries = job[j].tries /\ job'[j].flag = job[j].flag
         /\ \A i \in Job \ {j} : job'[i] = job[i]
         /\ \/ job'[j].st = "waiting" /\ run' = run
            \/ /\ job'[j].st = "failed" /\ run'[j].pc = "h_read" /\ run'[j].r = job[j].r
               /\ run'[j].err = "error" /\ run'[j].seen = NoRow
<1>1. /\ j \in Process /\ UNCHANGED <<req, file, fileLock, cleanup, imported, tail>>
      /\ job[j].st = "active" /\ (\A w \in Worker : run[w].j # j) /\ job[j] \in JobRow
  BY Processes DEF Stalled, db, products, TypeOK
<1>2. CASE job[j].stalls = 0
  <2> DEFINE new == [job[j] EXCEPT !.st = "waiting", !.stalls = 1]
  <2>1. job' = [job EXCEPT ![j] = new] /\ run' = run
    BY <1>2 DEF Stalled
  <2>2. 1 \in 0..1
    OBVIOUS
  <2>3. /\ new \in JobRow /\ new.st = "waiting" /\ new.r = job[j].r /\ new.tries = job[j].tries
        /\ new.flag = job[j].flag
    BY <1>1, <2>2 DEF JobRow
  <2> HIDE DEF new
  <2> QED
    BY <1>1, <2>1, <2>3 DEF Moves, TypeOK
<1>3. CASE job[j].stalls # 0
  <2> DEFINE new == [job[j] EXCEPT !.st = "failed"]
             handler == Handle(j, "error")
  <2>1. job' = [job EXCEPT ![j] = new] /\ run' = [run EXCEPT ![j] = handler]
    BY <1>3 DEF Stalled
  <2>2. /\ new \in JobRow /\ new.st = "failed" /\ new.r = job[j].r /\ new.tries = job[j].tries
        /\ new.flag = job[j].flag
    BY <1>1 DEF JobRow
  <2>3. /\ handler \in Running /\ handler.pc = "h_read" /\ handler.r = job[j].r /\ handler.err = "error"
        /\ handler.seen = NoRow
    BY <1>1, IdleRuns DEF Handle, Idle, Running, JobRow, Place
  <2> HIDE DEF new, handler
  <2>4. Moves(j) /\ run'[j] = handler
    BY <1>1, <2>1, <2>3, PlaceMoves
  <2> QED
    BY <1>1, <2>1, <2>2, <2>3, <2>4 DEF Moves, TypeOK
<1> QED
  BY <1>2, <1>3

LEMMA CleanupSteps ==
  ASSUME TypeOK, NEW w \in Worker, Cleanup(w)
  PROVE  TypeOK' /\ UNCHANGED <<req, job, imported, tail, run>>
BY DEF Cleanup, TypeOK, products

LEMMA CrashSteps ==
  ASSUME TypeOK, Crash
  PROVE  /\ TypeOK' /\ UNCHANGED <<req, job, imported>>
         /\ \A p \in Worker \cup Job : run'[p] = Idle
         /\ \A c \in Client : run'[c] = run[c]
         /\ \A r \in Request : tail'[r] = NoTail
<1>1. /\ UNCHANGED <<req, file, job, cleanup, imported>> /\ fileLock' \in {fileLock, None}
      /\ run' = [p \in Process |-> IF p \in Client THEN run[p] ELSE Idle]
      /\ tail' = [r \in Request |-> NoTail]
  BY DEF Crash, db
<1>2. 0 \in 0..Chunks
  BY BoundAssumption
<1>3. NoTail \in TailRow
  BY <1>2, IdleRuns DEF NoTail, TailRow
<1>4. /\ run' \in [Process -> Running]
      /\ \A p \in Worker \cup Job : run'[p] = Idle
      /\ \A c \in Client : run'[c] = run[c]
  BY <1>1, IdleRuns, Processes DEF TypeOK
<1> QED
  BY <1>1, <1>3, <1>4 DEF TypeOK

-----------------------------------------------------------------------------
(* Types, and what ties jobs, attempts, handlers and commands together. *)

LEMMA BaseInit == Init => Base
<1> SUFFICES ASSUME Init PROVE Base
  OBVIOUS
<1>1. 0 \in 0..Attempts /\ 0 \in 0..1 /\ 0 \in 0..Chunks /\ 0 \in Nat
  BY BoundAssumption
<1>2. NoJob \in JobRow /\ NoTail \in TailRow /\ NoTail.row = NoRow /\ NoRow.st = "none" /\ NoJob.st = "none"
  BY <1>1, IdleRuns DEF NoJob, JobRow, NoTail, TailRow, NoRow
<1>3. \A p \in Process : run[p] = Idle /\ Idle.pc = "idle" /\ Idle.j = None
  BY DEF Init, Idle
<1>4. TypeOK
  BY <1>1, <1>2, IdleRuns DEF Init, TypeOK
<1>5. \A r \in Request : RowOK(r)
  BY <1>2 DEF Init, RowOK
<1>6. ASSUME NEW j \in Job PROVE JobOK(j) /\ HandlerOK(j)
  BY <1>2, <1>3, <1>6, Processes DEF Init, JobOK, HandlerOK, HandlerPc
<1>7. ASSUME NEW w \in Worker PROVE WorkerOK(w)
  BY <1>3, <1>7, Processes DEF WorkerOK, WorkerPc, Later, Done
<1>8. ASSUME NEW c \in Client PROVE ClientOK(c)
  BY <1>3, <1>8, Processes DEF ClientOK, ClientPc, StartPc, CancelPc, Starting
<1> QED
  BY <1>4, <1>5, <1>6, <1>7, <1>8 DEF Base

LEMMA WorkerFacts ==
  ASSUME Base, NEW w \in Worker, run[w].pc # "idle"
  PROVE  /\ TypeOK /\ run[w].j \in Job /\ run[w].r \in Request /\ run[w].r = job[run[w].j].r
         /\ job[run[w].j].st = "active" /\ job[run[w].j].tries < Attempts /\ req[run[w].r].st # "none"
         /\ run[run[w].j].pc = "idle"
BY DEF Base, WorkerOK, JobOK, HandlerOK

LEMMA HandlerFacts ==
  ASSUME Base, NEW j \in Job, run[j].pc # "idle"
  PROVE  /\ TypeOK /\ run[j].r \in Request /\ run[j].r = job[j].r /\ req[run[j].r].st # "none"
         /\ job[j].st \notin {"none", "waiting", "active"}
BY DEF Base, JobOK, HandlerOK

\* No step makes a row of none, and jobs whose rows stay keep what they need.
RowsStay ==
  \A r \in Request :
    /\ req[r].st # "none" => req'[r].st # "none"
    /\ req'[r].st = "none" => req'[r] = req[r] /\ imported'[r] = imported[r] /\ tail'[r] = tail[r]
    /\ tail'[r].row \in {NoRow, tail[r].row} \/ tail'[r].row.st # "none"

LEMMA RowsKept ==
  ASSUME Base, RowsStay
  PROVE  \A r \in Request : RowOK(r)'
BY DEF Base, RowOK, RowsStay

LEMMA JobsKept ==
  ASSUME Base, RowsStay, NEW j \in Job, job'[j] = job[j]
  PROVE  JobOK(j)'
BY DEF Base, JobOK, RowsStay

LEMMA ClientKept ==
  ASSUME Base, RowsStay, NEW c \in Client, run'[c] = run[c],
         \A j \in Job : (job[j].st # "none" => job'[j].st # "none" /\ job'[j].r = job[j].r)
                        /\ (run[c].j = j => job'[j].st = job[j].st \/ job[j].st # "none"),
         \A d \in Client : run'[d].j \in {run[d].j, None} \/ run'[d].j # run[c].j
  PROVE  ClientOK(c)'
<1>1. ClientOK(c) /\ TypeOK /\ run[c].j \in Job \cup {None} /\ run[c].seen.job \in Job \cup {None}
      /\ run[c].r \in Request \cup {None}
  BY Processes, Copies DEF Base, Row
<1>2. \A d \in Client : run[c].j # None /\ run[d].j = run[c].j => d = c
  BY <1>1 DEF ClientOK
<1>3. ASSUME NEW d \in Client, run'[c].j # None, run'[d].j = run'[c].j PROVE d = c
  BY <1>2, <1>3
<1>4. run'[c].pc # "idle" => run'[c].r \in Request /\ req'[run'[c].r].st # "none"
  BY <1>1 DEF ClientOK, RowsStay
<1> QED
  BY <1>1, <1>3, <1>4 DEF ClientOK, Starting, StartPc, CancelPc

LEMMA ActsKeep ==
  ASSUME Base, NEW w \in Worker, run[w].pc # "idle", Acts(w),
         run'[w].pc \in WorkerPc \ {"idle"},
         run'[w].pc \in {"w_begin", "w_fail"} \cup Later => run'[w].seen.st # "none",
         req'[run[w].r].st # "none",
         tail'[run[w].r].row \in {NoRow, tail[run[w].r].row} \/ tail'[run[w].r].row.st # "none"
  PROVE  Base'
<1>1. /\ TypeOK' /\ job' = job /\ run[w].j \in Job /\ run[w].r \in Request /\ run[w].r = job[run[w].j].r
      /\ job[run[w].j].st = "active" /\ \A q \in Process \ {w} : run'[q] = run[q]
      /\ run'[w].j = run[w].j /\ run'[w].r = run[w].r
  BY WorkerFacts DEF Acts, Moves
<1>2. RowsStay
  BY <1>1 DEF RowsStay, Acts
<1>3. ASSUME NEW j \in Job PROVE JobOK(j)' /\ HandlerOK(j)'
  <2>1. j # w /\ run'[j] = run[j]
    BY <1>1, Processes
  <2>2. HandlerOK(j)
    BY DEF Base
  <2> QED
    BY <1>1, <1>2, <2>1, <2>2, JobsKept DEF HandlerOK
<1>4. ASSUME NEW v \in Worker PROVE WorkerOK(v)'
  <2>1. WorkerOK(v) /\ WorkerOK(w) /\ v \in Process /\ \A u \in Worker : u \in Process
    BY Processes DEF Base
  <2>2. \A u \in Worker : run'[u].j = run[u].j
    BY <1>1, <2>1
  <2>3. CASE v = w
    BY <1>1, <2>1, <2>2, <2>3 DEF WorkerOK
  <2>4. CASE v # w
    BY <1>1, <2>1, <2>2, <2>4 DEF WorkerOK
  <2> QED
    BY <2>3, <2>4
<1>5. ASSUME NEW c \in Client PROVE ClientOK(c)'
  <2>1. \A d \in Client : d # w /\ run'[d] = run[d]
    BY <1>1, Processes
  <2> QED
    BY <1>1, <1>2, <2>1, ClientKept
<1> QED
  BY <1>1, <1>2, <1>3, <1>4, <1>5, RowsKept DEF Base

LEMMA ServesKeep ==
  ASSUME Base, NEW j \in Job, run[j].pc # "idle", Serves(j), req'[run[j].r].st # "none",
         run'[j].pc \in HandlerPc, run'[j].pc # "idle" => run'[j].r = run[j].r
  PROVE  Base'
<1>1. /\ TypeOK' /\ job' = job /\ run[j].r \in Request /\ run[j].r = job[j].r
      /\ \A q \in Process \ {j} : run'[q] = run[q]
  BY HandlerFacts DEF Serves, Moves
<1>2. RowsStay
  BY <1>1 DEF RowsStay, Serves
<1>3. ASSUME NEW i \in Job PROVE JobOK(i)' /\ HandlerOK(i)'
  <2>1. i = j \/ run'[i] = run[i]
    BY <1>1, Processes
  <2>2. HandlerOK(i)
    BY DEF Base
  <2> QED
    BY <1>1, <1>2, <2>1, <2>2, JobsKept DEF HandlerOK
<1>4. ASSUME NEW v \in Worker PROVE WorkerOK(v)'
  <2>1. WorkerOK(v) /\ \A u \in Worker : run'[u] = run[u]
    BY <1>1, Processes DEF Base
  <2> QED
    BY <1>1, <2>1 DEF WorkerOK
<1>5. ASSUME NEW c \in Client PROVE ClientOK(c)'
  <2>1. \A d \in Client : run'[d] = run[d]
    BY <1>1, Processes
  <2> QED
    BY <1>1, <1>2, <2>1, ClientKept
<1> QED
  BY <1>1, <1>2, <1>3, <1>4, <1>5, RowsKept DEF Base

LEMMA AsksKeep ==
  ASSUME Base, NEW c \in Client, Asks(c), ClientOK(c)', RowsStay,
         \A j \in Job : JobOK(j)',
         \A j \in Job :
           \/ job'[j] = job[j]
           \/ /\ job'[j].r = job[j].r /\ job[j].st # "none" /\ job'[j].st # "none"
              /\ (job'[j].st = "active" <=> job[j].st = "active")
              /\ (job'[j].st = "waiting" => job[j].st = "waiting")
           \/ job[j].st = "none" /\ job'[j].st # "none" /\ run[c].j = j,
         run'[c].j \in {run[c].j, None} \/ \A d \in Client : run[d].j # run'[c].j
  PROVE  Base'
<1>1. TypeOK' /\ UNCHANGED <<imported, tail>> /\ \A q \in Process \ {c} : run'[q] = run[q]
  BY DEF Asks, Moves
<1>2. \A j \in Job : job[j].st # "none" => job'[j].st # "none" /\ job'[j].r = job[j].r
  OBVIOUS
<1>3. ASSUME NEW j \in Job PROVE HandlerOK(j)'
  <2>1. run'[j] = run[j] /\ HandlerOK(j)
    BY <1>1, Processes DEF Base
  <2> QED
    BY <2>1 DEF HandlerOK
<1>4. ASSUME NEW w \in Worker PROVE WorkerOK(w)'
  <2>1. WorkerOK(w) /\ \A v \in Worker : run'[v] = run[v]
    BY <1>1, Processes DEF Base
  <2>2. ASSUME run[w].pc # "idle" PROVE job'[run[w].j].st = "active" /\ job'[run[w].j].r = job[run[w].j].r
    BY <2>1, <2>2 DEF WorkerOK
  <2> QED
    BY <2>1, <2>2 DEF WorkerOK
<1>5. ASSUME NEW d \in Client PROVE ClientOK(d)'
  <2>1. CASE d = c
    BY <2>1
  <2>2. CASE d # c
    <3>1. run'[d] = run[d] /\ ClientOK(c) /\ ClientOK(d) /\ c \in Process
      BY <1>1, <2>2, Processes DEF Base
    <3>2. run[d].j = None \/ run[d].j # run[c].j
      BY <2>2, <3>1 DEF ClientOK
    <3>3. \A j \in Job : run[d].j = j => job'[j].st = job[j].st \/ job[j].st # "none"
      BY <3>2, Processes
    <3>4. \A e \in Client : run'[e].j \in {run[e].j, None} \/ run'[e].j # run[d].j
      BY <1>1, Processes
    <3> QED
      BY <1>2, <3>1, <3>3, <3>4, ClientKept
  <2> QED
    BY <2>1, <2>2
<1> QED
  BY <1>1, <1>3, <1>4, <1>5, RowsKept DEF Base

LEMMA SameJobs ==
  ASSUME Base, RowsStay, job' = job
  PROVE  \A j \in Job : JobOK(j)' /\ job'[j] = job[j]
BY JobsKept

LEMMA SameRows ==
  ASSUME UNCHANGED <<req, imported, tail>>
  PROVE  RowsStay
BY DEF RowsStay

LEMMA IdleClient ==
  ASSUME NEW c \in Client, run'[c] = Idle
  PROVE  ClientOK(c)'
BY DEF ClientOK, Idle, Starting, ClientPc, StartPc, CancelPc

LEMMA ClientFacts ==
  ASSUME Base, NEW c \in Client
  PROVE  /\ TypeOK /\ ClientOK(c) /\ run[c].j \in Job \cup {None} /\ run[c].seen.job \in Job \cup {None}
         /\ run[c].pc # "idle" => run[c].r \in Request /\ req[run[c].r].st # "none"
         /\ run[c].pc \in StartPc => run[c].j \in Job
BY Processes, Copies DEF Base, ClientOK, Row

LEMMA ClientBase ==
  ASSUME Base, NEW c \in Client, ClientStep(c)
  PROVE  Base'
<1>0. TypeOK /\ ClientOK(c) /\ c \in Process
  BY ClientFacts, Processes
<1>1. CASE StartLocked(c)
  <2>1. run[c].r \in Request /\ run[c].j \in Job /\ run[c].pc = "s_lock" /\ req[run[c].r].st # "none"
    BY <1>1, ClientFacts DEF StartLocked, At, StartPc
  <2>2. /\ Asks(c) /\ UNCHANGED <<req, job>>
        /\ \/ run'[c] = Idle
           \/ /\ run'[c].pc = "s_write" /\ run'[c].r = run[c].r /\ run'[c].j = run[c].j
              /\ run'[c].seen = req[run[c].r] /\ Startable(req[run[c].r])
    BY <1>0, <1>1, <2>1, StartLockedSteps
  <2>3. RowsStay
    BY <2>2, SameRows DEF Asks
  <2>4. CASE run'[c] = Idle
    BY <2>2, <2>3, <2>4, AsksKeep, SameJobs, IdleClient DEF Idle
  <2>5. CASE /\ run'[c].pc = "s_write" /\ run'[c].r = run[c].r /\ run'[c].j = run[c].j
             /\ run'[c].seen = req[run[c].r] /\ Startable(req[run[c].r])
    <3>1. \A d \in Client : run'[d].j = run[d].j
      BY <2>2, <2>5, Processes DEF Asks, Moves
    <3>2. ClientOK(c)'
      BY <1>0, <2>1, <2>2, <2>5, <3>1 DEF ClientOK, Starting, StartPc, CancelPc, ClientPc, Startable
    <3> QED
      BY <2>2, <2>3, <2>5, <3>2, AsksKeep, SameJobs
  <2> QED
    BY <2>2, <2>4, <2>5
<1>2. CASE StartWrite(c)
  <2>1. run[c].r \in Request /\ run[c].j \in Job /\ run[c].pc = "s_write"
    BY <1>2, ClientFacts DEF StartWrite, At, StartPc
  <2>2. /\ Asks(c) /\ UNCHANGED <<req, job>>
        /\ \/ run'[c] = Idle
           \/ /\ run'[c].pc = "s_queue" /\ run'[c].r = run[c].r /\ run'[c].j = run[c].j
              /\ run'[c].seen = run[c].seen /\ run'[c].write.st = run[c].seen.st
    BY <1>0, <1>2, <2>1, StartWriteSteps
  <2>3. RowsStay
    BY <2>2, SameRows DEF Asks
  <2>4. CASE run'[c] = Idle
    BY <2>2, <2>3, <2>4, AsksKeep, SameJobs, IdleClient DEF Idle
  <2>5. CASE /\ run'[c].pc = "s_queue" /\ run'[c].r = run[c].r /\ run'[c].j = run[c].j
             /\ run'[c].seen = run[c].seen /\ run'[c].write.st = run[c].seen.st
    <3>1. \A d \in Client : run'[d].j = run[d].j
      BY <2>2, <2>5, Processes DEF Asks, Moves
    <3>2. ClientOK(c)'
      BY <1>0, <2>1, <2>2, <2>5, <3>1 DEF ClientOK, Starting, StartPc, CancelPc, ClientPc
    <3> QED
      BY <2>2, <2>3, <2>5, <3>2, AsksKeep, SameJobs
  <2> QED
    BY <2>2, <2>4, <2>5
<1>3. CASE StartQueue(c)
  <2>1. run[c].r \in Request /\ run[c].j \in Job /\ run[c].pc = "s_queue" /\ req[run[c].r].st # "none"
        /\ job[run[c].j].st = "none"
    BY <1>0, <1>3, ClientFacts DEF StartQueue, At, StartPc, ClientOK
  <2>2. /\ Asks(c) /\ req' = req
        /\ \/ run'[c] = Idle /\ job' = job
           \/ /\ run'[c].pc = "s_unlock" /\ run'[c].r = run[c].r /\ run'[c].j = run[c].j
              /\ run'[c].seen = run[c].seen /\ run'[c].write = run[c].write
              /\ job'[run[c].j].r = run[c].r /\ job'[run[c].j].st = "waiting"
              /\ job'[run[c].j].tries = 0
              /\ \A i \in Job \ {run[c].j} : job'[i] = job[i]
    BY <1>0, <1>3, <2>1, StartQueueSteps
  <2>3. RowsStay
    BY <2>2, SameRows DEF Asks
  <2>4. CASE run'[c] = Idle /\ job' = job
    BY <2>2, <2>3, <2>4, AsksKeep, SameJobs, IdleClient DEF Idle
  <2>5. CASE /\ run'[c].pc = "s_unlock" /\ run'[c].r = run[c].r /\ run'[c].j = run[c].j
             /\ run'[c].seen = run[c].seen /\ run'[c].write = run[c].write
             /\ job'[run[c].j].r = run[c].r /\ job'[run[c].j].st = "waiting"
             /\ job'[run[c].j].tries = 0
             /\ \A i \in Job \ {run[c].j} : job'[i] = job[i]
    <3>1. \A d \in Client : run'[d].j = run[d].j
      BY <2>2, <2>5, Processes DEF Asks, Moves
    <3>2. ClientOK(c)'
      BY <1>0, <2>1, <2>2, <2>5, <3>1 DEF ClientOK, Starting, StartPc, CancelPc, ClientPc
    <3>3. 0 < Attempts
      BY BoundAssumption
    <3>4. JobOK(run[c].j)'
      BY <2>1, <2>2, <2>5, <3>3 DEF JobOK
    <3>5. ASSUME NEW i \in Job \ {run[c].j} PROVE JobOK(i)' /\ job'[i] = job[i]
      BY <2>3, <2>5, JobsKept
    <3> QED
      BY <2>1, <2>2, <2>3, <2>5, <3>2, <3>4, <3>5, AsksKeep
  <2> QED
    BY <2>2, <2>4, <2>5
<1>4. CASE StartUnlock(c) \/ CancelState(c)
  <2>1. run[c].pc # "idle" /\ run[c].r \in Request
    BY <1>4, ClientFacts DEF StartUnlock, CancelState, At
  <2>2. /\ Asks(c) /\ UNCHANGED <<req, job>>
        /\ run'[c].r = run[c].r /\ run'[c].j = run[c].j /\ run'[c].seen = run[c].seen
        /\ run'[c].write = run[c].write
        /\ \/ run[c].pc = "s_unlock" /\ run'[c].pc = "commit"
           \/ run[c].pc = "x_state" /\ run'[c].pc = "x_cancel"
           \/ /\ run[c].pc = "x_state" /\ run'[c].pc \in {"x_remove", "x_flag"}
              /\ job[run[c].seen.job].st # "none"
    BY <1>0, <1>4, ClientLightSteps
  <2>3. RowsStay
    BY <2>2, SameRows DEF Asks
  <2>4. \A d \in Client : run'[d].j = run[d].j
    BY <2>2, Processes DEF Asks, Moves
  <2>5. ClientOK(c)'
    BY <1>0, <2>1, <2>2, <2>4 DEF ClientOK, Starting, StartPc, CancelPc, ClientPc
  <2> QED
    BY <2>2, <2>3, <2>5, AsksKeep, SameJobs
<1>5. CASE CancelWrite(c) \/ CancelDone(c)
  <2>1. run[c].pc \in CancelPc /\ run[c].r \in Request
    BY <1>5, ClientFacts DEF CancelWrite, CancelDone, At, CancelPc
  <2>2. /\ Asks(c) /\ UNCHANGED <<req, job>>
        /\ run'[c].r = run[c].r /\ run'[c].j = run[c].j /\ run'[c].seen = run[c].seen
        /\ \/ run[c].pc = "x_write" /\ run'[c].pc = "x_cancel" /\ run'[c].write.st = "CANCELLING"
           \/ run[c].pc = "x_write" /\ run'[c].pc = "x_state" /\ run'[c].write.st = "CANCELLING"
              /\ run[c].seen.job # None
           \/ run[c].pc = "x_cancel" /\ run'[c].pc = "commit" /\ run'[c].write.st = "CANCELLED"
    BY <1>0, <1>5, CancelWriteSteps
  <2>3. RowsStay
    BY <2>2, SameRows DEF Asks
  <2>4. \A d \in Client : run'[d].j = run[d].j
    BY <2>2, Processes DEF Asks, Moves
  <2>5. ClientOK(c)'
    BY <1>0, <2>1, <2>2, <2>4 DEF ClientOK, Starting, StartPc, CancelPc, ClientPc
  <2> QED
    BY <2>2, <2>3, <2>5, AsksKeep, SameJobs
<1>6. CASE CancelRemove(c) \/ CancelFlag(c)
  <2>0. run[c].pc \in {"x_remove", "x_flag"} /\ run[c].seen.job \in Job
    <3>1. run[c].pc \in {"x_remove", "x_flag"}
      BY <1>6 DEF CancelRemove, CancelFlag, At
    <3> QED
      BY <1>0, <3>1, ClientFacts DEF ClientOK
  <2> PICK j \in Job : j = run[c].seen.job
    BY <2>0
  <2>1. run[c].r \in Request /\ job[j].st # "none"
    BY <1>0, <2>0, ClientFacts DEF ClientOK
  <2>2. /\ Asks(c) /\ req' = req
        /\ run'[c].r = run[c].r /\ run'[c].j = run[c].j /\ run'[c].seen = run[c].seen
        /\ run'[c].write = run[c].write
        /\ \/ /\ run[c].pc = "x_remove" /\ run'[c].pc = "x_cancel"
              /\ \/ job'[j] = job[j]
                 \/ job[j].st # "active" /\ job'[j].st = "removed"
           \/ /\ run[c].pc = "x_flag" /\ run'[c].pc = "commit"
              /\ job'[j].st = job[j].st
        /\ job'[j].r = job[j].r /\ job'[j].tries = job[j].tries
        /\ \A i \in Job \ {j} : job'[i] = job[i]
    BY <1>0, <1>6, <2>0, CancelJobSteps
  <2>3. RowsStay
    BY <2>2, SameRows DEF Asks
  <2>4. \A d \in Client : run'[d].j = run[d].j
    BY <2>2, Processes DEF Asks, Moves
  <2>5. ClientOK(c)'
    BY <1>0, <2>0, <2>1, <2>2, <2>4 DEF ClientOK, Starting, StartPc, CancelPc, ClientPc
  <2>6. JobOK(j) /\ job'[j].st # "none" /\ (job'[j].st \in {"waiting", "delayed", "active"} => job'[j].st = job[j].st)
    BY <2>1, <2>2 DEF Base
  <2>7. JobOK(j)'
    BY <2>1, <2>2, <2>6 DEF JobOK
  <2>8. ASSUME NEW i \in Job \ {j} PROVE JobOK(i)' /\ job'[i] = job[i]
    BY <2>2, <2>3, JobsKept
  <2>9. /\ job'[j].r = job[j].r /\ (job'[j].st = "active" <=> job[j].st = "active")
        /\ (job'[j].st = "waiting" => job[j].st = "waiting")
    BY <2>2, <2>6
  <2> QED
    BY <2>1, <2>2, <2>3, <2>5, <2>6, <2>7, <2>8, <2>9, AsksKeep
<1>7. CASE Commit(c)
  <2>1. run[c].pc = "commit" /\ run[c].r \in Request
    BY <1>7, ClientFacts DEF Commit, At
  <2>2. /\ Asks(c) /\ job' = job /\ run'[c] = Idle
        /\ req' = req \/ req'[run[c].r] = run[c].write
        /\ \A x \in Request \ {run[c].r} : req'[x] = req[x]
    BY <1>0, <1>7, <2>1, CommitSteps
  <2>3. run[c].write.st # "none"
    BY <1>0, <2>1 DEF ClientOK, Starting
  <2>4. RowsStay
    BY <2>2, <2>3 DEF RowsStay, Asks
  <2> QED
    BY <2>2, <2>4, AsksKeep, SameJobs, IdleClient DEF Idle
<1> QED
  BY <1>1, <1>2, <1>3, <1>4, <1>5, <1>6, <1>7 DEF ClientStep

\* Attempts but for the ways they end.
Works(w) ==
  \/ Check(w) \/ Load(w) \/ OnStart(w) \/ Begin(w) \/ Import(w) \/ ImportStops(w) \/ Breaks(w)
  \/ Logs(w) \/ Media(w) \/ MediaTotal(w) \/ MediaWarns(w) \/ MediaEnds(w)
  \/ Complete(w) \/ MediaFail(w) \/ Erase(w) \/ QueueCleanup(w) \/ (End(w) /\ ~Ends(w))
  \/ Basic(w) \/ Free(w) \/ BasicFail(w) \/ Catch(w) \/ Fail(w) \/ Restore(w)

LEMMA StepOfWorker ==
  ASSUME NEW w \in Worker, WorkerStep(w)
  PROVE  run[w].pc # "idle" /\ (Works(w) \/ (End(w) /\ Ends(w)) \/ Throw(w))
<1>1. Works(w) \/ (End(w) /\ Ends(w)) \/ Throw(w)
  BY DEF WorkerStep, Works
<1>2. run[w].pc # "idle"
  BY DEF WorkerStep, Check, Load, OnStart, Begin, Import, ImportStops, Breaks, Logs, Media, MediaTotal,
         MediaWarns, MediaEnds, Complete, MediaFail, Erase, QueueCleanup, End, Basic, Free, BasicFail,
         Catch, Fail, Restore, Throw, At
<1> QED
  BY <1>1, <1>2

LEMMA WorksBase ==
  ASSUME Base, NEW w \in Worker, Works(w), run[w].pc # "idle"
  PROVE  Base'
<1>0. /\ TypeOK /\ run[w].r \in Request /\ run[w].j \in Job /\ req[run[w].r].st # "none" /\ WorkerOK(w)
      /\ run[w].pc \in WorkerPc
  BY WorkerFacts DEF Base, WorkerOK
<1>1. CASE Check(w) \/ Load(w) \/ ImportStops(w) \/ MediaEnds(w) \/ Erase(w) \/ QueueCleanup(w) \/ Free(w)
           \/ (End(w) /\ ~Ends(w))
  <2>1. /\ Light(w) /\ run'[w].pc \in WorkerPc \ {"idle"}
        /\ run'[w].pc \in {"w_begin", "w_fail"} \cup Later => run[w].pc \in Later
    BY <1>0, <1>1, LightSteps DEF WorkerPc, Later, Done
  <2> QED
    BY <1>0, <2>1, ActsKeep DEF Light, WorkerOK
<1>2. CASE OnStart(w)
  <2>1. /\ Acts(w) /\ UNCHANGED <<req, imported, tail>> /\ run'[w].pc \in {"w_catch", "w_begin"}
        /\ run'[w].pc = "w_begin" => run'[w].seen.st = "PROCESSING"
    BY <1>0, <1>2, StartSteps
  <2> QED
    BY <1>0, <2>1, ActsKeep DEF WorkerPc, Later, Done
<1>3. CASE Begin(w) \/ MediaTotal(w) \/ MediaWarns(w) \/ MediaFail(w) \/ Fail(w)
  <2>1. /\ Writes(w, run[w].seen) /\ run'[w].seen = run[w].seen
        /\ run'[w].pc \in {"w_rows", "w_loop", "w_catch", "w_restore"}
        /\ run[w].pc \in {"w_begin", "w_fail"} \cup Later
    BY <1>0, <1>3, WriteSteps DEF Later, Done
  <2> QED
    BY <1>0, <2>1, ActsKeep DEF Writes, WorkerOK, WorkerPc, Later, Done
<1>4. CASE Import(w)
  <2>1. /\ Acts(w) /\ run[w].pc = "w_rows" /\ run'[w].pc = "w_rows" /\ run'[w].seen = run[w].seen
        /\ tail' = tail /\ req'[run[w].r] \in {req[run[w].r], run[w].seen}
    BY <1>0, <1>4, ImportSteps
  <2> QED
    BY <1>0, <2>1, ActsKeep DEF WorkerOK, WorkerPc, Later, Done
<1>5. CASE Breaks(w)
  <2>1. /\ Acts(w) /\ run[w].pc = "w_rows" /\ run'[w].pc \in {"w_catch", "w_hung"}
        /\ run'[w].seen = run[w].seen /\ req' = req /\ tail'[run[w].r].row = run[w].seen
    BY <1>0, <1>5, BreakSteps
  <2> QED
    BY <1>0, <2>1, ActsKeep DEF WorkerOK, WorkerPc, Later, Done
<1>6. CASE Media(w)
  <2>1. /\ Acts(w) /\ UNCHANGED <<req, imported, tail>> /\ run'[w].pc = "w_total"
        /\ run'[w].seen.st = req[run[w].r].st
    BY <1>0, <1>6, MediaSteps
  <2> QED
    BY <1>0, <2>1, ActsKeep DEF WorkerOK, WorkerPc, Later, Done
<1>7. CASE Complete(w)
  <2>1. /\ Acts(w) /\ UNCHANGED <<imported, tail>> /\ run[w].pc = "w_complete"
        /\ run'[w].pc \in {"w_erase", "w_catch", "w_media_fail"}
        /\ run'[w].seen = run[w].seen \/ run'[w].seen.st = "FAILED"
        /\ req' = req \/ req'[run[w].r].st = "COMPLETED"
    BY <1>0, <1>7, CompleteSteps
  <2> QED
    BY <1>0, <2>1, ActsKeep DEF WorkerOK, WorkerPc, Later, Done
<1>8. CASE Basic(w) \/ Catch(w)
  <2>1. /\ Acts(w) /\ UNCHANGED <<req, imported, tail>>
        /\ run'[w].pc \in {"w_throw", "w_free", "w_basic_fail", "w_fail"}
        /\ run'[w].pc = "w_fail" => run'[w].seen.st = "FAILED"
    BY <1>0, <1>8, FailReads
  <2> QED
    BY <1>0, <2>1, ActsKeep DEF WorkerPc, Later, Done
<1>9. CASE BasicFail(w)
  <2>1. /\ Acts(w) /\ tail' = tail /\ run'[w].pc = "w_throw" /\ req'[run[w].r].st = "FAILED"
    BY <1>0, <1>9, BasicFailSteps DEF Writes
  <2> QED
    BY <1>0, <2>1, ActsKeep DEF WorkerPc, Later, Done
<1>10. CASE Restore(w)
  <2>1. /\ Acts(w) /\ req' = req /\ run'[w].pc = "w_throw" /\ tail'[run[w].r].row = NoRow
    BY <1>0, <1>10, RestoreSteps
  <2> QED
    BY <1>0, <2>1, ActsKeep DEF WorkerPc, Later, Done
<1>11. CASE Logs(w)
  <2>1. /\ Acts(w) /\ UNCHANGED <<imported, tail>> /\ run[w].pc = "w_logs"
        /\ run'[w].pc \in {"w_complete", "w_media"} /\ run'[w].seen.st = run[w].seen.st
        /\ req'[run[w].r] = run'[w].seen
    BY <1>0, <1>11, LogsSteps
  <2> QED
    BY <1>0, <2>1, ActsKeep DEF WorkerOK, WorkerPc, Later, Done
<1> QED
  BY <1>1, <1>2, <1>3, <1>4, <1>5, <1>6, <1>7, <1>8, <1>9, <1>10, <1>11 DEF Works

\* An attempt that ends frees its worker, and leaves its job to its handler or to nobody.
LEMMA EndBase ==
  ASSUME Base, NEW w \in Worker, run[w].pc # "idle", (End(w) /\ Ends(w)) \/ Throw(w)
  PROVE  Base'
<1>0. /\ TypeOK /\ run[w].j \in Job /\ run[w].r \in Request /\ run[w].r = job[run[w].j].r
      /\ job[run[w].j].st = "active" /\ job[run[w].j].tries < Attempts /\ WorkerOK(w)
  BY WorkerFacts DEF Base
<1> PICK j \in Job : j = run[w].j
  BY <1>0
<1>1. /\ TypeOK' /\ UNCHANGED <<req, imported, tail>> /\ run'[w] = Idle
      /\ \A q \in Process \ {w, j} : run'[q] = run[q]
      /\ \A i \in Job \ {j} : job'[i] = job[i]
      /\ job'[j].r = job[j].r /\ job'[j].st \in {"completed", "delayed", "failed"}
      /\ job'[j].st = "delayed" => job'[j].tries < Attempts
      /\ run'[j] = run[j] \/ (run'[j].pc = "h_read" /\ run'[j].r = job[j].r)
  <2>1. CASE End(w) /\ Ends(w)
    BY <1>0, <2>1, EndSteps, Processes DEF Moves
  <2>2. CASE Throw(w)
    BY <1>0, <2>2, ThrowSteps
  <2> QED
    BY <2>1, <2>2
<1>2. RowsStay
  BY <1>1, SameRows
<1>3. ASSUME NEW i \in Job PROVE JobOK(i)' /\ HandlerOK(i)'
  <2>1. JobOK(i) /\ HandlerOK(i) /\ i # w /\ i \in Process
    BY Processes DEF Base
  <2>2. CASE i = j
    BY <1>0, <1>1, <2>1, <2>2 DEF JobOK, HandlerOK, HandlerPc
  <2>3. CASE i # j
    <3>1. job'[i] = job[i] /\ run'[i] = run[i]
      BY <1>1, <2>1, <2>3
    <3> QED
      BY <1>2, <2>1, <3>1, JobsKept DEF HandlerOK
  <2> QED
    BY <2>2, <2>3
<1>4. ASSUME NEW v \in Worker PROVE WorkerOK(v)'
  <2>1. WorkerOK(v) /\ WorkerOK(w) /\ v \in Process /\ v # j /\ \A u \in Worker : u \in Process /\ u # j
    BY Processes DEF Base
  <2>2. \A u \in Worker \ {w} : run'[u] = run[u]
    BY <1>1, <2>1
  <2>3. CASE v = w
    BY <1>1, <2>3 DEF WorkerOK, Idle, WorkerPc, Later, Done
  <2>4. CASE v # w
    <3>1. run'[v] = run[v] /\ run'[w].j = None
      BY <1>1, <2>2, <2>4 DEF Idle
    <3>2. ASSUME run[v].pc # "idle"
          PROVE  /\ run[v].j \in Job /\ run[v].j # j /\ job'[run[v].j] = job[run[v].j]
                 /\ run[v].j # None /\ \A u \in Worker : run'[u].j = run[v].j => u = v
      <4>1. run[v].j \in Job /\ run[v].j # j /\ run[v].j # None
        BY <1>0, <2>1, <2>4, <3>2, Processes DEF WorkerOK
      <4> QED
        BY <1>1, <2>1, <2>2, <3>1, <3>2, <4>1 DEF WorkerOK
    <3> QED
      BY <2>1, <3>1, <3>2 DEF WorkerOK
  <2> QED
    BY <2>3, <2>4
<1>5. ASSUME NEW c \in Client PROVE ClientOK(c)'
  <2>1. \A d \in Client : run'[d] = run[d]
    BY <1>1, Processes
  <2>2. \A i \in Job : (job[i].st # "none" => job'[i].st # "none" /\ job'[i].r = job[i].r)
                       /\ (run[c].j = i => job'[i].st = job[i].st \/ job[i].st # "none")
    BY <1>0, <1>1
  <2> QED
    BY <1>2, <2>1, <2>2, ClientKept
<1> QED
  BY <1>1, <1>2, <1>3, <1>4, <1>5, RowsKept DEF Base

LEMMA HandlerBase ==
  ASSUME Base, NEW j \in Job, HandlerStep(j)
  PROVE  Base' /\ run[j].pc # "idle"
<1>1. run[j].pc # "idle"
  BY DEF HandlerStep, HandlerReads, DeleteProducts, HandlerRestores, HandlerFrees, HandlerWrites, At
<1>2. TypeOK /\ run[j].r \in Request /\ req[run[j].r].st # "none"
  BY <1>1, HandlerFacts
<1>3. CASE HandlerReads(j)
  <2>1. Serves(j) /\ req' = req /\ run'[j].pc \in {"h_products", "h_restore"} /\ run'[j].r = run[j].r
    BY <1>2, <1>3, HandlerReadSteps
  <2> QED
    BY <1>1, <1>2, <2>1, ServesKeep DEF HandlerPc
<1>4. CASE DeleteProducts(j)
  <2>1. Serves(j) /\ req' = req /\ run'[j].pc = "h_restore" /\ run'[j].r = run[j].r
    BY <1>2, <1>4, DeleteProductsSteps
  <2> QED
    BY <1>1, <1>2, <2>1, ServesKeep DEF HandlerPc
<1>5. CASE HandlerRestores(j) \/ HandlerFrees(j)
  <2>1. Serves(j) /\ req' = req /\ run'[j].pc \in {"h_free", "h_write"} /\ run'[j].r = run[j].r
    BY <1>2, <1>5, HandlerLightSteps
  <2> QED
    BY <1>1, <1>2, <2>1, ServesKeep DEF HandlerPc
<1>6. CASE HandlerWrites(j)
  <2>1. Serves(j) /\ run'[j] = Idle /\ (req' = req \/ req'[run[j].r].st \in {"CANCELLED", "FAILED"})
    BY <1>2, <1>6, HandlerWriteSteps
  <2> QED
    BY <1>1, <1>2, <2>1, ServesKeep DEF HandlerPc, Idle
<1> QED
  BY <1>1, <1>3, <1>4, <1>5, <1>6 DEF HandlerStep

LEMMA QueueBase ==
  ASSUME Base, NEW j \in Job,
         Promote(j) \/ Stalled(j) \/ \E w \in Worker : Pick(w, j)
  PROVE  Base'
<1>0. TypeOK /\ JobOK(j) /\ HandlerOK(j) /\ \A p \in Process : run[p].r \in Request \cup {None}
  BY Copies DEF Base
<1>1. PICK p \in Worker \cup {j} :
        /\ TypeOK' /\ UNCHANGED <<req, imported, tail>> /\ \A q \in Process \ {p} : run'[q] = run[q]
        /\ \A i \in Job \ {j} : job'[i] = job[i]
        /\ job[j].st \in {"waiting", "delayed", "active"} /\ job'[j].r = job[j].r
        /\ job'[j].tries = job[j].tries /\ job'[j].st \in {"waiting", "active", "failed"}
        /\ \/ p = j /\ job[j].st # "active" /\ run[j].pc = "idle" /\ run' = run /\ job'[j].st = "waiting"
           \/ p = j /\ (\A w \in Worker : run[w].j # j) /\ run' = run /\ job'[j].st = "waiting"
              /\ job[j].st = "active"
           \/ p = j /\ (\A w \in Worker : run[w].j # j) /\ run'[j].pc = "h_read" /\ run'[j].r = job[j].r
              /\ job'[j].st = "failed" /\ job[j].st = "active"
           \/ /\ p \in Worker /\ run[p].pc = "idle" /\ run[j].pc = "idle" /\ job[j].st = "waiting"
              /\ job'[j].st = "active" /\ run'[p].pc = "w_check" /\ run'[p].r = job[j].r /\ run'[p].j = j
  <2>1. CASE Promote(j)
    BY <1>0, <2>1, PromoteSteps
  <2>2. CASE Stalled(j)
    BY <1>0, <2>2, StalledSteps DEF Moves
  <2>3. ASSUME NEW w \in Worker, Pick(w, j) 
        PROVE  /\ TypeOK' /\ UNCHANGED <<req, imported, tail>> /\ \A q \in Process \ {w} : run'[q] = run[q]
               /\ \A i \in Job \ {j} : job'[i] = job[i]
               /\ job[j].st = "waiting" /\ job'[j].r = job[j].r
               /\ job'[j].tries = job[j].tries /\ job'[j].st = "active"
               /\ run[w].pc = "idle" /\ run[j].pc = "idle"
               /\ run'[w].pc = "w_check" /\ run'[w].r = job[j].r /\ run'[w].j = j
    BY <1>0, <2>3, PickSteps DEF Moves
  <2> QED
    BY <2>1, <2>2, <2>3
<1>2. RowsStay
  BY <1>1, SameRows
<1>3. ASSUME NEW i \in Job PROVE JobOK(i)' /\ HandlerOK(i)'
  <2>1. JobOK(i) /\ HandlerOK(i) /\ i \in Process /\ i \notin Worker
    BY Processes DEF Base
  <2>2. CASE i = j
    <3>1. JobOK(j)'
      BY <1>0, <1>1 DEF JobOK
    <3>2. run[j].pc = "idle"
      BY <1>0, <1>1 DEF HandlerOK
    <3>3. HandlerOK(j)'
      BY <1>0, <1>1, <2>1, <2>2, <3>2 DEF HandlerOK, HandlerPc
    <3> QED
      BY <2>2, <3>1, <3>3
  <2>3. CASE i # j
    <3>1. job'[i] = job[i] /\ run'[i] = run[i]
      BY <1>1, <2>1, <2>3
    <3> QED
      BY <1>2, <2>1, <3>1, JobsKept DEF HandlerOK
  <2> QED
    BY <2>2, <2>3
<1>4. ASSUME NEW v \in Worker PROVE WorkerOK(v)'
  <2>1. WorkerOK(v) /\ v # j /\ (\A u \in Worker : u \in Process /\ u # j) /\ v \in Process
        /\ \A u \in Worker : WorkerOK(u)
    BY Processes DEF Base
  <2>2. \A u \in Worker : run[u].j # j \/ job[j].st = "active"
    BY <2>1, Processes DEF WorkerOK
  <2>3. CASE p = j
    <3>1. \A u \in Worker : run'[u] = run[u]
      BY <1>1, <2>1, <2>3
    <3>2. ASSUME run[v].pc # "idle"
          PROVE  run[v].j \in Job /\ run[v].j # j /\ job'[run[v].j] = job[run[v].j]
      BY <1>1, <2>1, <2>2, <2>3, <3>2 DEF WorkerOK
    <3> QED
      BY <2>1, <3>1, <3>2 DEF WorkerOK
  <2>4. CASE p \in Worker
    <3>1. /\ run[p].pc = "idle" /\ job[j].st = "waiting" /\ job'[j].st = "active"
          /\ run'[p].pc = "w_check" /\ run'[p].r = job[j].r /\ run'[p].j = j
      BY <1>1, <2>1, <2>4
    <3>2. \A u \in Worker \ {p} : run'[u] = run[u] /\ run[u].j # j
      BY <1>1, <2>1, <2>2, <3>1
    <3>3. CASE v = p
      BY <1>1, <3>1, <3>2, <3>3 DEF WorkerOK, WorkerPc, Later, Done
    <3>4. CASE v # p
      <4>1. ASSUME run[v].pc # "idle"
            PROVE  run[v].j \in Job /\ run[v].j # j /\ job'[run[v].j] = job[run[v].j]
        BY <1>1, <2>1, <3>2, <3>4, <4>1 DEF WorkerOK
      <4>2. run'[v] = run[v]
        BY <3>2, <3>4
      <4> QED
        BY <2>1, <3>1, <3>2, <4>1, <4>2 DEF WorkerOK
    <3> QED
      BY <3>3, <3>4
  <2> QED
    BY <2>3, <2>4
<1>5. ASSUME NEW c \in Client PROVE ClientOK(c)'
  <2>1. \A d \in Client : run'[d] = run[d]
    BY <1>1, Processes
  <2>2. \A i \in Job : (job[i].st # "none" => job'[i].st # "none" /\ job'[i].r = job[i].r)
                       /\ (run[c].j = i => job'[i].st = job[i].st \/ job[i].st # "none")
    BY <1>0, <1>1
  <2> QED
    BY <1>2, <2>1, <2>2, ClientKept
<1> QED
  BY <1>1, <1>2, <1>3, <1>4, <1>5, RowsKept DEF Base

\* Steps of no process: rows are created, or written in the background.
LEMMA QuietKeeps ==
  ASSUME Base, TypeOK', RowsStay, UNCHANGED <<job, run>>
  PROVE  Base'
<1>1. ASSUME NEW j \in Job PROVE JobOK(j)' /\ HandlerOK(j)'
  BY JobsKept DEF Base, HandlerOK
<1>2. ASSUME NEW w \in Worker PROVE WorkerOK(w)'
  BY DEF Base, WorkerOK
<1>3. ASSUME NEW c \in Client PROVE ClientOK(c)'
  BY ClientKept
<1> QED
  BY <1>1, <1>2, <1>3, RowsKept DEF Base

LEMMA CrashBase ==
  ASSUME Base, Crash
  PROVE  Base'
<1>1. /\ TypeOK' /\ UNCHANGED <<req, job, imported>>
      /\ \A p \in Worker \cup Job : run'[p] = Idle
      /\ \A c \in Client : run'[c] = run[c]
      /\ \A r \in Request : tail'[r] = NoTail
  BY CrashSteps DEF Base
<1>2. RowsStay
  BY <1>1 DEF RowsStay, Base, RowOK, NoTail
<1>3. ASSUME NEW j \in Job PROVE JobOK(j)' /\ HandlerOK(j)'
  BY <1>1, <1>2, JobsKept DEF HandlerOK, HandlerPc, Idle
<1>4. ASSUME NEW w \in Worker PROVE WorkerOK(w)'
  BY <1>1 DEF WorkerOK, WorkerPc, Later, Done, Idle
<1>5. ASSUME NEW c \in Client PROVE ClientOK(c)'
  BY <1>1, <1>2, ClientKept
<1> QED
  BY <1>1, <1>2, <1>3, <1>4, <1>5, RowsKept DEF Base

LEMMA BaseStep == Base /\ [Next]_vars => Base'
<1> SUFFICES ASSUME Base, [Next]_vars PROVE Base'
  OBVIOUS
<1>0. TypeOK
  BY DEF Base
<1>1. ASSUME NEW r \in Request, Create(r) PROVE Base'
  <2>1. RowsStay
    BY <1>0, <1>1, CreateSteps DEF RowsStay
  <2> QED
    BY <1>0, <1>1, <2>1, CreateSteps, QuietKeeps
<1>2. ASSUME NEW r \in Request, ImportTail(r) PROVE Base'
  <2>1. /\ TypeOK' /\ UNCHANGED <<job, run>> /\ tail[r] # NoTail /\ RowOK(r)
        /\ tail'[r].row \in {tail[r].row, NoRow}
        /\ req'[r] = req[r] \/ (tail[r].row # NoRow /\ req'[r] = tail[r].row)
        /\ \A x \in Request \ {r} : req'[x] = req[x] /\ imported'[x] = imported[x] /\ tail'[x] = tail[x]
    BY <1>0, <1>2, TailSteps DEF Base
  <2>2. RowsStay
    BY <2>1 DEF RowsStay, RowOK
  <2> QED
    BY <2>1, <2>2, QuietKeeps
<1>3. ASSUME NEW c \in Client, NEW r \in Request, BeginCancel(c, r) PROVE Base'
  <2>1. /\ Asks(c) /\ UNCHANGED <<req, job>> /\ "cancel" \in Ops
        /\ run'[c].pc = "x_write" /\ run'[c].r = r /\ run'[c].j = None
        /\ Cancellable(req[r])
    BY <1>0, <1>3, BeginCancelSteps
  <2>2. RowsStay
    BY <2>1, SameRows DEF Asks
  <2>3. ClientOK(c)'
    BY <2>1 DEF ClientOK, Cancellable, Starting, ClientPc, StartPc, CancelPc
  <2> QED
    BY <2>1, <2>2, <2>3, AsksKeep, SameJobs
<1>4. ASSUME NEW c \in Client, NEW r \in Request, NEW j \in Job, BeginStart(c, r, j) PROVE Base'
  <2>1. /\ Asks(c) /\ UNCHANGED <<req, job>> /\ run[c].pc = "idle" /\ req[r] # NoRow /\ Fresh(j)
        /\ run'[c].pc = "s_lock" /\ run'[c].r = r /\ run'[c].j = j /\ RowOK(r)
    BY <1>0, <1>4, BeginStartSteps DEF Base
  <2>2. RowsStay
    BY <2>1, SameRows DEF Asks
  <2>3. \A d \in Client \ {c} : run'[d] = run[d] /\ run[d].j # j
    BY <2>1, Processes DEF Asks, Moves, Fresh
  <2>4. req[r].st # "none" /\ job[j].st = "none" /\ j # None
    BY <2>1, Processes DEF RowOK, Fresh, NoJob
  <2>5. ClientOK(c)'
    BY <2>1, <2>3, <2>4 DEF ClientOK, Starting, ClientPc, StartPc, CancelPc
  <2> QED
    BY <2>1, <2>2, <2>5, AsksKeep, SameJobs DEF Fresh
<1>5. ASSUME NEW c \in Client, ClientStep(c) PROVE Base'
  BY <1>5, ClientBase
<1>6. ASSUME NEW w \in Worker, WorkerStep(w) PROVE Base'
  BY <1>6, StepOfWorker, WorksBase, EndBase
<1>7. ASSUME NEW w \in Worker, Cleanup(w) PROVE Base'
  BY <1>0, <1>7, CleanupSteps, SameRows, QuietKeeps
<1>8. ASSUME NEW j \in Job, Promote(j) \/ Stalled(j) \/ \E w \in Worker : Pick(w, j) PROVE Base'
  BY <1>8, QueueBase
<1>9. ASSUME NEW j \in Job, HandlerStep(j) PROVE Base'
  BY <1>9, HandlerBase
<1>10. CASE Crash
  BY <1>10, CrashBase
<1>11. CASE UNCHANGED vars
  <2>1. UNCHANGED <<req, file, fileLock, job, cleanup, imported, tail, run>>
    BY <1>11 DEF vars, db, products
  <2>2. TypeOK'
    BY <1>0, <2>1 DEF TypeOK
  <2> QED
    BY <2>1, <2>2, SameRows, QuietKeeps
<1> QED
  BY <1>1, <1>2, <1>3, <1>4, <1>5, <1>6, <1>7, <1>8, <1>9, <1>10, <1>11 DEF Next

\* Types of rows, jobs, pages and processes, whatever is started, cancelled, retried or breaks.
THEOREM TypeCorrect == Spec => []TypeOK
<1>1. Base => TypeOK
  BY DEF Base
<1> QED
  BY <1>1, BaseInit, BaseStep, PTL DEF Spec

-----------------------------------------------------------------------------
(* A request is imported by one attempt. *)

LEMMA WorkerAlone ==
  ASSUME Base, StartsInOrder, NEW w \in Worker, run[w].pc # "idle"
  PROVE  /\ \A v \in Worker : run[v].pc # "idle" /\ run[v].r = run[w].r => v = w
         /\ \A j \in Job : run[j].pc # "idle" => run[j].r # run[w].r
<1>1. run[w].j \in Job /\ run[w].r = job[run[w].j].r /\ Busy(run[w].j) /\ WorkerOK(w)
      /\ job[run[w].j].st = "active"
  BY WorkerFacts DEF Base, Busy
<1>2. ASSUME NEW v \in Worker, run[v].pc # "idle", run[v].r = run[w].r PROVE v = w
  <2>1. run[v].j \in Job /\ run[v].r = job[run[v].j].r /\ Busy(run[v].j)
    BY <1>2, WorkerFacts DEF Base, Busy
  <2>2. run[v].j = run[w].j
    BY <1>1, <1>2, <2>1 DEF StartsInOrder
  <2> QED
    BY <1>1, <1>2, <2>2 DEF WorkerOK
<1>3. ASSUME NEW j \in Job, run[j].pc # "idle", run[j].r = run[w].r PROVE FALSE
  <2>1. run[j].r = job[j].r /\ job[j].st # "active" /\ Busy(j)
    BY <1>3, HandlerFacts DEF Busy
  <2>2. j = run[w].j
    BY <1>1, <1>3, <2>1 DEF StartsInOrder
  <2> QED
    BY <1>1, <2>1, <2>2
<1> QED
  BY <1>2, <1>3

LEMMA TypesOf ==
  ASSUME Inv
  PROVE  /\ Base /\ TypeOK
         /\ \A r \in Request : RequestOK(r)
         /\ \A w \in Worker : CopyOK(w)
BY DEF Inv, Base

LEMMA ActsInv ==
  ASSUME Inv, StartsInOrder, Base', NEW w \in Worker, run[w].pc # "idle", Acts(w),
         NEW r \in Request, r = run[w].r,
         Touched(r)' => Touched(r) \/ \A c \in Client : Starting(c) /\ run[c].r = r => run[c].seen.st # "PENDING",
         Touched(r)' => req'[r].st \notin {"none", "PENDING"},
         tail'[r].row \in {NoRow, tail[r].row} \/ tail'[r].row.st = "PROCESSING",
         CopyOK(w)'
  PROVE  Inv'
<1>1. /\ \A q \in Process \ {w} : run'[q] = run[q]
      /\ run'[w].r = r
      /\ \A x \in Request \ {r} : req'[x] = req[x] /\ imported'[x] = imported[x] /\ tail'[x] = tail[x]
      /\ \A c \in Client : run'[c] = run[c]
      /\ \A v \in Worker \ {w} : run'[v] = run[v]
  BY Processes DEF Acts, Moves
<1>2. ASSUME NEW x \in Request \ {r} PROVE Touched(x)' <=> Touched(x)
  BY <1>1 DEF Touched
<1>3. ASSUME NEW x \in Request PROVE RequestOK(x)'
  <2>1. RequestOK(x)
    BY TypesOf
  <2>2. CASE x = r
    BY <1>1, <2>1, <2>2 DEF RequestOK, Starting
  <2>3. CASE x # r
    BY <1>1, <1>2, <2>1, <2>3 DEF RequestOK, Starting
  <2> QED
    BY <2>2, <2>3
<1>4. ASSUME NEW v \in Worker PROVE CopyOK(v)'
  <2>1. CASE v = w
    BY <2>1
  <2>2. CASE v # w /\ run[v].pc = "idle"
    BY <1>1, <2>2 DEF CopyOK, Later, Done
  <2>3. CASE v # w /\ run[v].pc # "idle"
    <3>1. run[v].r \in Request \ {r}
      BY <2>3, TypesOf, WorkerAlone, WorkerFacts
    <3> QED
      BY <1>1, <1>2, <2>3, <3>1, TypesOf DEF CopyOK, Whole
  <2> QED
    BY <2>1, <2>2, <2>3
<1> QED
  BY <1>3, <1>4 DEF Inv

\* What w has touched of its request.
LEMMA TouchedByWorker ==
  ASSUME Inv, StartsInOrder, NEW w \in Worker, run[w].pc # "idle", Acts(w), NEW r \in Request, r = run[w].r
  PROVE  /\ Touched(r) <=> imported[r] # 0 \/ tail[r] # NoTail \/ run[w].pc \in Later
         /\ Touched(r)' <=> imported'[r] # 0 \/ tail'[r] # NoTail \/ run'[w].pc \in Later
<1>1. ASSUME NEW v \in Worker, run[v].r = r, run[v].pc \in Later PROVE v = w
  BY <1>1, TypesOf, WorkerAlone DEF Later, Done
<1>2. run'[w].r = r /\ \A v \in Worker \ {w} : run'[v] = run[v]
  BY Processes DEF Acts, Moves
<1>3. ASSUME NEW v \in Worker, run'[v].r = r, run'[v].pc \in Later PROVE v = w
  BY <1>1, <1>2, <1>3
<1> QED
  BY <1>1, <1>2, <1>3 DEF Touched

LEMMA WorksInv ==
  ASSUME Inv, StartsInOrder, NEW w \in Worker, Works(w), run[w].pc # "idle", Base'
  PROVE  Inv'
<1> DEFINE t == run'[w]
<1>0. run[w].r \in Request /\ run[w].j \in Job /\ TypeOK /\ CopyOK(w) /\ Base /\ job[run[w].j].st = "active"
      /\ run[w].r = job[run[w].j].r
  BY TypesOf, WorkerFacts
<1> PICK r \in Request : r = run[w].r
  BY <1>0
<1>r. RequestOK(r) /\ 0 # 1
  BY TypesOf
<1>n. /\ imported[r] \in Nat /\ run[w].n \in Nat /\ run[w].bad \in Nat /\ Chunks \in Nat
      /\ run[w].seen.failed \in Nat /\ req[r].failed \in Nat
  BY <1>0, Copies, Processes, BoundAssumption DEF TypeOK, Row
<1>t. ASSUME Acts(w)
      PROVE  /\ Touched(r) <=> imported[r] # 0 \/ tail[r] # NoTail \/ run[w].pc \in Later
             /\ Touched(r)' <=> imported'[r] # 0 \/ tail'[r] # NoTail \/ run'[w].pc \in Later
             /\ run'[w].r = r
  BY <1>t, TouchedByWorker DEF Acts
<1>1. CASE Check(w) \/ Load(w) \/ ImportStops(w) \/ MediaEnds(w) \/ Erase(w) \/ QueueCleanup(w) \/ Free(w)
           \/ (End(w) /\ ~Ends(w))
  <2>1. /\ Acts(w) /\ UNCHANGED <<req, imported, tail>> /\ t.seen = run[w].seen /\ t.n = run[w].n
        /\ t.bad = run[w].bad
        /\ \/ t.pc \notin Later \cup {"w_check", "w_begin", "w_fail"}
              /\ (t.pc \in {"w_load", "w_start"} => run[w].pc \in {"w_check", "w_load"})
           \/ run[w].pc = "w_rows" /\ t.pc = "w_logs" /\ run[w].n = Chunks
           \/ run[w].pc = "w_loop" /\ t.pc = "w_complete"
           \/ run[w].pc \in Done /\ t.pc \in {"w_cleanup", "w_end"}
    BY <1>0, <1>1, LightSteps DEF Light, Later, Done
  <2>2. Touched(r)' => Touched(r)
    BY <1>t, <2>1 DEF Later, Done
  <2>3. CopyOK(w)'
    BY <1>0, <1>n, <1>t, <2>1, <2>2 DEF CopyOK, Whole, Later, Done
  <2> QED
    BY <1>0, <1>r, <2>1, <2>2, <2>3, ActsInv DEF RequestOK
<1>2. CASE OnStart(w)
  <2>1. /\ Acts(w) /\ UNCHANGED <<req, imported, tail>> /\ t.n = run[w].n /\ t.bad = run[w].bad
        /\ run[w].pc = "w_start"
        /\ \/ t.pc = "w_catch"
           \/ t.pc = "w_begin" /\ t.seen.st = "PROCESSING" /\ req[r].st = "PENDING"
    BY <1>0, <1>2, StartSteps
  <2>2. Touched(r)' <=> Touched(r)
    BY <1>t, <2>1 DEF Later, Done
  <2>3. CopyOK(w)'
    BY <1>0, <1>r, <1>t, <2>1, <2>2 DEF CopyOK, Later, Done, RequestOK
  <2> QED
    BY <1>0, <1>r, <2>1, <2>2, <2>3, ActsInv DEF RequestOK
<1>3. CASE Begin(w)
  <2>1. /\ Acts(w) /\ UNCHANGED <<imported, tail>> /\ t.seen = run[w].seen /\ t.n = run[w].n
        /\ t.bad = run[w].bad /\ req'[r] = run[w].seen /\ run[w].pc = "w_begin" /\ t.pc = "w_rows" /\ RowFree(w, r)
    BY <1>0, <1>3, WriteSteps DEF Writes, Begin, At
  <2>2. ASSUME NEW c \in Client, Starting(c), run[c].r = r, run[c].seen.st = "PENDING" PROVE FALSE
    <3>1. run[w].j = run[c].j
      BY <1>0, <2>2 DEF StartsInOrder
    <3>2. ClientOK(c) /\ c # w
      BY <1>0, Processes DEF Base
    <3>3. run[c].pc \notin {"s_write", "s_queue"}
      BY <1>0, <3>1, <3>2 DEF ClientOK
    <3>4. run[c].write.st = "PENDING"
      BY <2>2, <3>2, <3>3 DEF ClientOK, Starting
    <3>5. run[c].write = NoRow
      BY <2>1, <2>2, <3>2 DEF RowFree
    <3> QED
      BY <3>4, <3>5 DEF NoRow
  <2>t. imported[r] = 0
    BY <1>0, <2>1 DEF CopyOK, Touched
  <2>3. CopyOK(w)' /\ req'[r].st = "PROCESSING"
    BY <1>0, <1>n, <1>t, <2>1, <2>t DEF CopyOK, Touched, Later, Done
  <2> QED
    BY <1>0, <1>r, <2>1, <2>2, <2>3, ActsInv DEF RequestOK
<1>4. CASE MediaTotal(w) \/ MediaWarns(w) \/ MediaFail(w) \/ Fail(w)
  <2>1. /\ Acts(w) /\ UNCHANGED <<imported, tail>> /\ t.seen = run[w].seen /\ req'[r] = run[w].seen
        /\ \/ run[w].pc = "w_fail" /\ t.pc = "w_restore"
           \/ run[w].pc \in {"w_total", "w_loop"} /\ t.pc = "w_loop"
           \/ run[w].pc \in Done /\ t.pc = "w_catch"
    <3>1. run[w].pc # "w_begin"
      BY <1>4 DEF MediaTotal, MediaWarns, MediaFail, Fail, At
    <3> QED
      BY <1>0, <1>4, <3>1, WriteSteps DEF Writes, Done
  <2>2. Touched(r)' => Touched(r)
    BY <1>t, <2>1 DEF Later, Done
  <2>3. CopyOK(w)' /\ req'[r].st \notin {"none", "PENDING"}
    BY <1>0, <1>t, <2>1, <2>2 DEF CopyOK, Whole, Later, Done
  <2> QED
    BY <1>0, <1>r, <2>1, <2>2, <2>3, ActsInv DEF RequestOK
<1>12. CASE Logs(w)
  <2>1. /\ Acts(w) /\ UNCHANGED <<imported, tail>> /\ req'[r] = t.seen /\ run[w].pc = "w_logs"
        /\ t.pc \in {"w_complete", "w_media"} /\ t.seen.st = run[w].seen.st /\ t.seen.failed = run[w].bad
    BY <1>0, <1>12, LogsSteps
  <2>2. Touched(r)' => Touched(r)
    BY <1>t, <2>1 DEF Later, Done
  <2>3. CopyOK(w)' /\ req'[r].st \notin {"none", "PENDING"}
    BY <1>0, <1>t, <2>1, <2>2 DEF CopyOK, Whole, Later, Done
  <2> QED
    BY <1>0, <1>r, <2>1, <2>2, <2>3, ActsInv DEF RequestOK
<1>5. CASE Import(w)
  <2>1. /\ Acts(w) /\ run[w].pc = "w_rows" /\ t.pc = "w_rows" /\ t.seen = run[w].seen
        /\ t.n = run[w].n + 1 /\ tail' = tail
        /\ req'[r] \in {req[r], run[w].seen}
    BY <1>0, <1>5, ImportSteps
  <2>p. PICK here \in {0, 1}, fails \in {0, 1} :
          here + fails > 0 /\ imported'[r] = imported[r] + here /\ t.bad = run[w].bad + fails
    BY <1>0, <1>5, ImportSteps
  <2>2. Touched(r) /\ req[r].st \notin {"none", "PENDING"}
    BY <1>r, <1>t, <2>1 DEF Later, RequestOK
  <2>c. /\ run[w].seen.st = "PROCESSING" /\ imported[r] <= run[w].n /\ run[w].n <= imported[r] + run[w].bad
        /\ tail[r] = NoTail
    BY <1>0, <2>1 DEF CopyOK, Later
  <2>d. imported'[r] <= t.n /\ t.n <= imported'[r] + t.bad
    BY <1>n, <2>1, <2>p, <2>c
  <2>3. CopyOK(w)' /\ req'[r].st \notin {"none", "PENDING"}
    BY <1>0, <1>t, <2>1, <2>2, <2>c, <2>d DEF CopyOK, Later, Done
  <2> QED
    BY <1>0, <1>r, <2>1, <2>2, <2>3, ActsInv DEF RequestOK
<1>6. CASE Breaks(w)
  <2>1. /\ Acts(w) /\ run[w].pc = "w_rows" /\ t.pc \in {"w_catch", "w_hung"}
        /\ UNCHANGED <<req, imported>> /\ tail'[r].row = run[w].seen
    BY <1>0, <1>6, BreakSteps
  <2>2. Touched(r) /\ req[r].st \notin {"none", "PENDING"}
    BY <1>r, <1>t, <2>1 DEF Later, RequestOK
  <2>3. CopyOK(w)' /\ tail'[r].row.st = "PROCESSING"
    BY <1>0, <2>1 DEF CopyOK, Later, Done
  <2> QED
    BY <1>0, <2>1, <2>2, <2>3, ActsInv
<1>7. CASE Media(w)
  <2>1. /\ Acts(w) /\ UNCHANGED <<req, imported, tail>> /\ run[w].pc = "w_media" /\ t.pc = "w_total"
        /\ t.seen.st = req[r].st /\ t.seen.failed \in {req[r].failed, run[w].seen.failed}
    BY <1>0, <1>7, MediaSteps
  <2>2. Touched(r) /\ req[r].st \notin {"none", "PENDING"}
    BY <1>r, <1>t, <2>1 DEF Later, Done, RequestOK
  <2>3. CopyOK(w)'
    BY <1>0, <1>t, <2>1, <2>2 DEF CopyOK, Whole, Later, Done
  <2> QED
    BY <1>0, <2>1, <2>2, <2>3, ActsInv
<1>8. CASE Complete(w)
  <2>1. /\ Acts(w) /\ UNCHANGED <<imported, tail>> /\ run[w].pc = "w_complete"
        /\ t.pc \in {"w_erase", "w_catch", "w_media_fail"}
        /\ t.pc = "w_erase" => t.seen = run[w].seen /\ run[w].seen.st = "PROCESSING"
        /\ t.seen = run[w].seen \/ t.seen.st = "FAILED"
        /\ req' = req \/ req'[r].st = "COMPLETED"
    BY <1>0, <1>8, CompleteSteps
  <2>2. Touched(r) /\ req[r].st \notin {"none", "PENDING"}
    BY <1>r, <1>t, <2>1 DEF Later, Done, RequestOK
  <2>3. CopyOK(w)'
    BY <1>0, <1>t, <2>1, <2>2 DEF CopyOK, Whole, Later, Done
  <2> QED
    BY <1>0, <2>1, <2>2, <2>3, ActsInv
<1>9. CASE Basic(w) \/ Catch(w)
  <2>1. /\ Acts(w) /\ UNCHANGED <<req, imported, tail>>
        /\ t.pc \in {"w_throw", "w_free", "w_basic_fail", "w_fail"}
        /\ t.pc = "w_fail" => t.seen.st = "FAILED"
    BY <1>0, <1>9, FailReads
  <2>2. Touched(r)' => Touched(r)
    BY <1>t, <2>1 DEF Later, Done
  <2>3. CopyOK(w)'
    BY <2>1 DEF CopyOK, Later, Done
  <2> QED
    BY <1>0, <1>r, <2>1, <2>2, <2>3, ActsInv DEF RequestOK
<1>10. CASE BasicFail(w)
  <2>1. /\ Acts(w) /\ UNCHANGED <<imported, tail>> /\ t.pc = "w_throw" /\ req'[r].st = "FAILED"
    BY <1>0, <1>10, BasicFailSteps DEF Writes
  <2>2. Touched(r)' => Touched(r)
    BY <1>t, <2>1 DEF Later, Done
  <2>3. CopyOK(w)'
    BY <2>1 DEF CopyOK, Later, Done
  <2> QED
    BY <1>0, <1>r, <2>1, <2>2, <2>3, ActsInv DEF RequestOK
<1>11. CASE Restore(w)
  <2>1. /\ Acts(w) /\ UNCHANGED <<req, imported>> /\ t.pc = "w_throw" /\ tail'[r].row = NoRow
        /\ (tail[r] = NoTail => tail'[r] = NoTail)
    BY <1>0, <1>11, RestoreSteps
  <2>2. Touched(r)' => Touched(r)
    BY <1>t, <2>1 DEF Later, Done
  <2>3. CopyOK(w)'
    BY <2>1 DEF CopyOK, Later, Done
  <2> QED
    BY <1>0, <1>r, <2>1, <2>2, <2>3, ActsInv DEF RequestOK
<1> QED
  BY <1>1, <1>2, <1>3, <1>4, <1>5, <1>6, <1>7, <1>8, <1>9, <1>10, <1>11, <1>12 DEF Works

\* Commands: a start reads its request, carries the copy to its end, and writes it back.
LEMMA ClientForms ==
  ASSUME Base, NEW c \in Client, ClientStep(c)
  PROVE  /\ Asks(c) /\ run[c].pc # "idle" /\ run[c].r \in Request
         /\ \A x \in Request \ {run[c].r} : req'[x] = req[x]
         /\ run[c].pc \in CancelPc \/ \A j \in Job : job'[j].flag => job[j].flag
         /\ \/ run'[c] = Idle /\ req' = req
            \/ /\ run[c].pc = "s_lock" /\ run'[c].pc = "s_write" /\ run'[c].r = run[c].r
               /\ run'[c].j = run[c].j /\ run[c].j \in Job /\ run'[c].err = run[c].err
               /\ req' = req /\ run'[c].seen = req[run[c].r] /\ Startable(req[run[c].r])
            \/ /\ Starting(c) /\ run'[c].r = run[c].r /\ run'[c].j = run[c].j
               /\ run'[c].seen = run[c].seen /\ run'[c].err = run[c].err /\ req' = req
            \/ /\ run[c].pc = "commit" /\ run'[c] = Idle /\ req'[run[c].r] = run[c].write
            \/ /\ run[c].pc \in CancelPc /\ run'[c].j = None /\ req' = req
<1>0. /\ TypeOK /\ ClientOK(c) /\ run[c].j \in Job \cup {None} /\ run[c].seen.job \in Job \cup {None}
      /\ (run[c].pc # "idle" => run[c].r \in Request) /\ (run[c].pc \in StartPc => run[c].j \in Job)
  BY ClientFacts
<1>1. run[c].pc # "idle"
  BY DEF ClientStep, StartLocked, StartWrite, StartQueue, StartUnlock, CancelWrite, CancelState,
         CancelRemove, CancelFlag, CancelDone, Commit, At
<1>2. CASE StartLocked(c)
  <2>1. run[c].pc = "s_lock" /\ run[c].j \in Job
    BY <1>0, <1>2 DEF StartLocked, At, StartPc
  <2> QED
    BY <1>0, <1>1, <1>2, <2>1, StartLockedSteps
<1>3. CASE StartWrite(c)
  <2>1. run[c].pc = "s_write" /\ run[c].j \in Job /\ Starting(c)
    BY <1>0, <1>3, Processes DEF StartWrite, At, StartPc, Starting
  <2> QED
    BY <1>0, <1>1, <1>3, <2>1, StartWriteSteps
<1>4. CASE StartQueue(c)
  <2>1. run[c].pc = "s_queue" /\ run[c].j \in Job /\ Starting(c)
    BY <1>0, <1>4, Processes DEF StartQueue, At, StartPc, Starting
  <2> QED
    BY <1>0, <1>1, <1>4, <2>1, StartQueueSteps
<1>5. CASE StartUnlock(c)
  <2>1. run[c].pc = "s_unlock" /\ run[c].j \in Job /\ Starting(c)
    BY <1>0, <1>5, Processes DEF StartUnlock, At, StartPc, Starting
  <2> QED
    BY <1>0, <1>1, <1>5, <2>1, ClientLightSteps
<1>6. CASE CancelState(c)
  <2>1. run[c].pc = "x_state" /\ run[c].j = None
    BY <1>0, <1>6 DEF CancelState, At, ClientOK, CancelPc
  <2> QED
    BY <1>0, <1>1, <1>6, <2>1, ClientLightSteps DEF CancelPc
<1>7. CASE CancelWrite(c) \/ CancelDone(c)
  <2>1. run[c].pc \in CancelPc /\ run[c].j = None
    BY <1>0, <1>7 DEF CancelWrite, CancelDone, At, ClientOK, CancelPc
  <2> QED
    BY <1>0, <1>1, <1>7, <2>1, CancelWriteSteps
<1>8. CASE CancelRemove(c) \/ CancelFlag(c)
  <2>1. run[c].pc \in {"x_remove", "x_flag"}
    BY <1>8 DEF CancelRemove, CancelFlag, At
  <2>2. run[c].pc \in CancelPc /\ run[c].j = None /\ run[c].seen.job \in Job
    BY <1>0, <2>1 DEF ClientOK, CancelPc
  <2> QED
    BY <1>0, <1>1, <1>8, <2>2, CancelJobSteps
<1>9. CASE Commit(c)
  BY <1>0, <1>1, <1>9, CommitSteps
<1> QED
  BY <1>2, <1>3, <1>4, <1>5, <1>6, <1>7, <1>8, <1>9 DEF ClientStep

LEMMA ClientInv ==
  ASSUME Inv, Base', NEW c \in Client, Asks(c),
         \A r \in Request : Touched(r) => req'[r].st \notin {"none", "PENDING"},
         \A r \in Request : req'[r] = req[r] \/ req'[r].st # "PROCESSING",
         \A r \in Request : Starting(c)' /\ run'[c].r = r /\ run'[c].seen.st = "PENDING" => ~Touched(r)
  PROVE  Inv'
<1>1. /\ \A d \in Client \ {c} : run'[d] = run[d]
      /\ \A w \in Worker : run'[w] = run[w]
      /\ imported' = imported /\ tail' = tail
  BY Processes DEF Asks, Moves
<1>2. ASSUME NEW r \in Request PROVE (Touched(r)' <=> Touched(r)) /\ RequestOK(r)
  BY <1>1, TypesOf DEF Touched
<1>3. ASSUME NEW r \in Request PROVE RequestOK(r)'
  <2>1. ASSUME NEW d \in Client, Starting(d)', run'[d].r = r, Touched(r)
        PROVE  run'[d].seen.st # "PENDING"
    <3>1. CASE d = c
      BY <2>1, <3>1
    <3>2. CASE d # c
      BY <1>1, <1>2, <2>1, <3>2 DEF RequestOK, Starting
    <3> QED
      BY <3>1, <3>2
  <2> QED
    BY <1>1, <1>2, <2>1 DEF RequestOK
<1>4. ASSUME NEW w \in Worker PROVE CopyOK(w)'
  <2>1. CASE run[w].pc = "idle"
    BY <1>1, <2>1 DEF CopyOK, Later, Done
  <2>2. CASE run[w].pc # "idle"
    <3>1. run[w].r \in Request /\ CopyOK(w) /\ run'[w] = run[w]
      BY <1>1, <2>2, TypesOf, WorkerFacts
    <3> QED
      BY <1>1, <1>2, <3>1 DEF CopyOK, Whole
  <2> QED
    BY <2>1, <2>2
<1> QED
  BY <1>3, <1>4 DEF Inv

LEMMA AskedInv ==
  ASSUME Inv, Base', NEW c \in Client, ClientStep(c)
  PROVE  Inv'
<1>0. Base /\ ClientOK(c) /\ \A r \in Request : RequestOK(r)
  BY TypesOf, ClientFacts
<1>1. /\ Asks(c) /\ run[c].pc # "idle" /\ run[c].r \in Request
      /\ \A x \in Request \ {run[c].r} : req'[x] = req[x]
  BY <1>0, ClientForms
<1>2. ASSUME NEW r \in Request, Touched(r) PROVE req'[r].st \notin {"none", "PENDING"}
  <2>1. req[r].st \notin {"none", "PENDING"} /\ (Starting(c) /\ run[c].r = r => run[c].seen.st # "PENDING")
    BY <1>0, <1>2 DEF RequestOK
  <2>2. CASE req' = req \/ r # run[c].r
    BY <1>1, <2>1, <2>2
  <2>3. CASE req' # req /\ r = run[c].r
    <3>1. run[c].pc = "commit" /\ req'[r] = run[c].write
      BY <1>0, <2>3, ClientForms
    <3> QED
      BY <1>0, <2>1, <2>3, <3>1 DEF ClientOK, Starting
  <2> QED
    BY <2>2, <2>3
<1>3. ASSUME NEW r \in Request, Starting(c)', run'[c].r = r, run'[c].seen.st = "PENDING", Touched(r)
      PROVE  FALSE
  <2>1. \/ run'[c].r = run[c].r /\ run'[c].seen = req[run[c].r]
        \/ Starting(c) /\ run'[c].r = run[c].r /\ run'[c].seen = run[c].seen
    BY <1>0, <1>3, ClientForms DEF Starting, Idle
  <2> QED
    BY <1>0, <1>3, <2>1 DEF RequestOK
<1>4. ASSUME NEW r \in Request, req'[r] # req[r] PROVE req'[r].st # "PROCESSING"
  <2>1. r = run[c].r /\ run[c].pc = "commit" /\ req'[r] = run[c].write
    BY <1>0, <1>1, <1>4, ClientForms
  <2> QED
    BY <1>0, <2>1 DEF ClientOK, Starting
<1> QED
  BY <1>1, <1>2, <1>3, <1>4, ClientInv

\* Attempts end, or begin, and rows in the background are dropped.
LEMMA FewerInv ==
  ASSUME Inv, Base', UNCHANGED <<req, imported>>,
         \A r \in Request : tail'[r] \in {tail[r], NoTail},
         \A c \in Client : run'[c] = run[c],
         \A w \in Worker : \/ run'[w] = run[w]
                           \/ run'[w].pc = "idle"
                           \/ run'[w].pc = "w_check" /\ run'[w].n = 0 /\ run'[w].bad = 0
  PROVE  Inv'
<1>1. ASSUME NEW r \in Request PROVE RequestOK(r) /\ (Touched(r)' => Touched(r))
  BY TypesOf DEF Touched, Later, Done
<1>2. ASSUME NEW r \in Request PROVE RequestOK(r)'
  BY <1>1 DEF RequestOK, Starting, NoTail
<1>3. ASSUME NEW w \in Worker PROVE CopyOK(w)'
  <2>1. CASE run'[w] # run[w] \/ run[w].pc = "idle"
    BY <2>1 DEF CopyOK, Later, Done
  <2>2. CASE run'[w] = run[w] /\ run[w].pc # "idle"
    <3>1. run[w].r \in Request /\ CopyOK(w)
      BY <2>2, TypesOf, WorkerFacts
    <3> QED
      BY <1>1, <2>2, <3>1 DEF CopyOK, Whole
  <2> QED
    BY <2>1, <2>2
<1> QED
  BY <1>2, <1>3 DEF Inv

LEMMA HandledInv ==
  ASSUME Inv, StartsInOrder, Base', NEW j \in Job, run[j].pc # "idle", HandlerStep(j)
  PROVE  Inv'
<1>0. Base /\ TypeOK /\ run[j].r \in Request /\ \A r \in Request : RequestOK(r)
  BY TypesOf, HandlerFacts
<1> PICK r \in Request : r = run[j].r
  BY <1>0
<1>1. /\ Serves(j) /\ (imported[r] = 0 => imported'[r] = 0)
      /\ req'[r] = req[r] \/ req'[r].st \in {"FAILED", "CANCELLED"}
  BY <1>0, HandlerReadSteps, DeleteProductsSteps, HandlerLightSteps, HandlerWriteSteps DEF HandlerStep
<1>2. /\ tail' = tail /\ (\A w \in Worker : run'[w] = run[w]) /\ (\A c \in Client : run'[c] = run[c])
      /\ \A x \in Request \ {r} : req'[x] = req[x] /\ imported'[x] = imported[x]
  BY <1>1, Processes DEF Serves, Moves
<1>3. ASSUME NEW x \in Request PROVE Touched(x)' => Touched(x)
  BY <1>1, <1>2 DEF Touched
<1>4. ASSUME NEW x \in Request PROVE RequestOK(x)'
  <2>1. RequestOK(x) /\ (req'[x] = req[x] \/ req'[x].st \in {"FAILED", "CANCELLED"})
    BY <1>0, <1>1, <1>2
  <2> QED
    BY <1>2, <1>3, <2>1 DEF RequestOK, Starting
<1>5. ASSUME NEW w \in Worker PROVE CopyOK(w)'
  <2>1. CASE run[w].pc = "idle"
    BY <1>2, <2>1 DEF CopyOK, Later, Done
  <2>2. CASE run[w].pc # "idle"
    <3>1. run[w].r \in Request \ {r} /\ CopyOK(w)
      BY <1>0, <2>2, TypesOf, WorkerFacts, WorkerAlone
    <3> QED
      BY <1>2, <1>3, <3>1 DEF CopyOK, Whole
  <2> QED
    BY <2>1, <2>2
<1> QED
  BY <1>4, <1>5 DEF Inv

LEMMA TailInv ==
  ASSUME Inv, Base', NEW r \in Request, ImportTail(r)
  PROVE  Inv'
<1>0. TypeOK /\ RequestOK(r) /\ Touched(r)
  BY TypesOf, TailSteps DEF Touched
<1>1. /\ UNCHANGED <<job, run>> /\ tail[r] # NoTail
      /\ tail'[r].row \in {tail[r].row, NoRow}
      /\ req'[r] = req[r] \/ (tail[r].row # NoRow /\ req'[r] = tail[r].row)
      /\ \A x \in Request \ {r} : req'[x] = req[x] /\ imported'[x] = imported[x] /\ tail'[x] = tail[x]
  BY <1>0, TailSteps
<1>2. ASSUME NEW x \in Request \ {r} PROVE Touched(x)' <=> Touched(x)
  BY <1>1 DEF Touched
<1>3. ASSUME NEW x \in Request PROVE RequestOK(x)'
  <2>1. RequestOK(x)
    BY TypesOf
  <2>2. CASE x = r
    BY <1>0, <1>1, <2>2 DEF RequestOK, Starting
  <2>3. CASE x # r
    BY <1>1, <1>2, <2>1, <2>3 DEF RequestOK, Starting
  <2> QED
    BY <2>2, <2>3
<1>4. ASSUME NEW w \in Worker PROVE CopyOK(w)'
  <2>1. CopyOK(w)
    BY TypesOf
  <2>2. CASE run[w].r = r
    BY <1>0, <1>1, <2>1, <2>2 DEF CopyOK, Later, Done
  <2>3. CASE run[w].r # r
    <3>1. CASE run[w].pc = "idle"
      BY <1>1, <3>1 DEF CopyOK, Later, Done
    <3>2. CASE run[w].pc # "idle"
      <4>1. run[w].r \in Request \ {r}
        BY <2>3, <3>2, TypesOf, WorkerFacts
      <4> QED
        BY <1>1, <1>2, <2>1, <4>1 DEF CopyOK, Whole
    <3> QED
      BY <3>1, <3>2
  <2> QED
    BY <2>2, <2>3
<1> QED
  BY <1>3, <1>4 DEF Inv

LEMMA CreateInv ==
  ASSUME Inv, Base', NEW r \in Request, Create(r)
  PROVE  Inv'
<1>1. /\ UNCHANGED <<job, imported, tail, run>> /\ req[r] = NoRow /\ req'[r].st = "PENDING"
      /\ \A x \in Request \ {r} : req'[x] = req[x]
  BY TypesOf, CreateSteps
<1>2. ASSUME NEW x \in Request PROVE RequestOK(x) /\ (Touched(x)' <=> Touched(x))
  BY <1>1, TypesOf DEF Touched
<1>3. ~Touched(r)
  BY <1>1, <1>2 DEF RequestOK, NoRow
<1>4. ASSUME NEW x \in Request PROVE RequestOK(x)'
  BY <1>1, <1>2, <1>3 DEF RequestOK, Starting
<1>5. ASSUME NEW w \in Worker PROVE CopyOK(w)'
  <2>1. CopyOK(w)
    BY TypesOf
  <2>2. CASE run[w].pc = "idle"
    BY <1>1, <2>2 DEF CopyOK, Later, Done
  <2>3. CASE run[w].pc # "idle"
    <3>1. run[w].r \in Request
      BY <2>3, TypesOf, WorkerFacts
    <3> QED
      BY <1>1, <1>2, <2>1, <3>1 DEF CopyOK, Whole
  <2> QED
    BY <2>2, <2>3
<1> QED
  BY <1>4, <1>5 DEF Inv

LEMMA InvInit == Init => Inv
<1> SUFFICES ASSUME Init PROVE Inv
  OBVIOUS
<1>1. /\ \A p \in Process : run[p] = Idle
      /\ \A r \in Request : req[r] = NoRow /\ imported[r] = 0 /\ tail[r] = NoTail
  BY DEF Init
<1>2. ASSUME NEW r \in Request PROVE RequestOK(r)
  BY <1>1, Processes DEF RequestOK, Touched, Idle, Later, Done, NoTail
<1>3. ASSUME NEW w \in Worker PROVE CopyOK(w)
  BY <1>1, Processes DEF CopyOK, Idle, Later, Done
<1> QED
  BY <1>2, <1>3, BaseInit DEF Inv

LEMMA InvStep == Inv /\ StartsInOrder /\ [Next]_vars => Inv'
<1> SUFFICES ASSUME Inv, StartsInOrder, [Next]_vars PROVE Inv'
  OBVIOUS
<1>0. Base /\ TypeOK /\ Base'
  BY TypesOf, BaseStep
<1>1. ASSUME NEW r \in Request, Create(r) PROVE Inv'
  BY <1>0, <1>1, CreateInv
<1>2. ASSUME NEW r \in Request, ImportTail(r) PROVE Inv'
  BY <1>0, <1>2, TailInv
<1>3. ASSUME NEW c \in Client, NEW r \in Request, BeginCancel(c, r) PROVE Inv'
  <2>1. Asks(c) /\ req' = req /\ ~Starting(c)'
    BY <1>0, <1>3, BeginCancelSteps DEF Starting
  <2> QED
    BY <1>0, <2>1, TypesOf, ClientInv DEF RequestOK
<1>4. ASSUME NEW c \in Client, NEW r \in Request, NEW j \in Job, BeginStart(c, r, j) PROVE Inv'
  <2>1. Asks(c) /\ req' = req /\ ~Starting(c)'
    BY <1>0, <1>4, BeginStartSteps DEF Starting
  <2> QED
    BY <1>0, <2>1, TypesOf, ClientInv DEF RequestOK
<1>5. ASSUME NEW c \in Client, ClientStep(c) PROVE Inv'
  BY <1>0, <1>5, AskedInv
<1>6. ASSUME NEW w \in Worker, WorkerStep(w) PROVE Inv'
  <2>1. run[w].pc # "idle" /\ (Works(w) \/ (End(w) /\ Ends(w)) \/ Throw(w))
    BY <1>6, StepOfWorker
  <2>2. CASE Works(w)
    BY <1>0, <2>1, <2>2, WorksInv
  <2>3. CASE (End(w) /\ Ends(w)) \/ Throw(w)
    <3>1. /\ UNCHANGED <<req, imported, tail>> /\ run'[w] = Idle
          /\ \A q \in Process \ {w} : run'[q] = run[q] \/ q \in Job
      BY <1>0, <2>1, <2>3, EndSteps, ThrowSteps, WorkerFacts DEF Moves
    <3> QED
      BY <1>0, <3>1, FewerInv, Processes DEF Idle
  <2> QED
    BY <2>1, <2>2, <2>3
<1>7. ASSUME NEW w \in Worker, Cleanup(w) PROVE Inv'
  BY <1>0, <1>7, CleanupSteps, FewerInv
<1>8. ASSUME NEW j \in Job, Promote(j) PROVE Inv'
  BY <1>0, <1>8, PromoteSteps, FewerInv
<1>9. ASSUME NEW j \in Job, Stalled(j) PROVE Inv'
  <2>1. UNCHANGED <<req, imported, tail>> /\ \A q \in Process \ {j} : run'[q] = run[q]
    BY <1>0, <1>9, StalledSteps DEF Moves
  <2> QED
    BY <1>0, <2>1, FewerInv, Processes
<1>10. ASSUME NEW w \in Worker, NEW j \in Job, Pick(w, j) PROVE Inv'
  <2>1. /\ UNCHANGED <<req, imported, tail>> /\ run'[w].pc = "w_check" /\ run'[w].n = 0
        /\ run'[w].bad = 0 /\ \A q \in Process \ {w} : run'[q] = run[q]
    BY <1>0, <1>10, PickSteps DEF Moves
  <2> QED
    BY <1>0, <2>1, FewerInv, Processes
<1>11. ASSUME NEW j \in Job, HandlerStep(j) PROVE Inv'
  BY <1>0, <1>11, HandlerBase, HandledInv
<1>12. CASE Crash
  BY <1>0, <1>12, CrashSteps, FewerInv DEF Idle
<1>13. CASE UNCHANGED vars
  BY <1>0, <1>13, FewerInv DEF vars, db, products
<1> QED
  BY <1>1, <1>2, <1>3, <1>4, <1>5, <1>6, <1>7, <1>8, <1>9, <1>10, <1>11, <1>12, <1>13 DEF Next

-----------------------------------------------------------------------------
(* Properties of imports. *)

\* Retries, restarts, stalled jobs and jobs of later starts import no page of a request
\* twice: only the attempt that has read the request PENDING imports it.
THEOREM PagesImportedOnce == Spec /\ []StartsInOrder => []ImportedOnce
<1>1. Inv => ImportedOnce
  BY DEF Inv, CopyOK, ImportedOnce, At
<1> QED
  BY <1>1, InvInit, InvStep, PTL DEF Spec

\* Only an attempt that is done with its rows throws the file away.
LEMMA EraserOnly ==
  ASSUME [Next]_vars, file' = "erasing", file # "erasing"
  PROVE  \E w \in Worker : run[w].pc = "w_erase"
<1>1. ASSUME NEW r \in Request, Create(r) \/ ImportTail(r) PROVE FALSE
  BY <1>1 DEF Create, ImportTail
<1>2. ASSUME NEW c \in Client, NEW r \in Request, NEW j \in Job, BeginCancel(c, r) \/ BeginStart(c, r, j)
      PROVE  FALSE
  BY <1>2 DEF BeginCancel, BeginStart, db
<1>3. ASSUME NEW c \in Client, ClientStep(c) PROVE FALSE
  <2>1. CASE Commit(c)
    BY <2>1 DEF Commit, db
  <2>2. CASE ~Commit(c)
    BY <1>3, <2>2 DEF ClientStep, StartLocked, StartWrite, StartQueue, StartUnlock, CancelWrite, CancelState,
                      CancelRemove, CancelFlag, CancelDone, db
  <2> QED
    BY <2>1, <2>2
<1>4. ASSUME NEW w \in Worker, WorkerStep(w) PROVE run[w].pc = "w_erase"
  <2>1. CASE Erase(w)
    BY <2>1 DEF Erase, At
  <2>2. CASE Free(w) \/ Restore(w)
    BY <2>2 DEF Free, Restore, Freed
  <2>3. CASE Check(w) \/ Load(w) \/ OnStart(w) \/ Begin(w) \/ Import(w) \/ ImportStops(w) \/ Breaks(w)
             \/ Logs(w) \/ Media(w) \/ MediaTotal(w) \/ MediaWarns(w) \/ MediaEnds(w)
    BY <2>3 DEF Check, Load, OnStart, Begin, Import, ImportStops, Breaks, Logs, Media, MediaTotal,
                MediaWarns, MediaEnds, db
  <2>4. CASE Complete(w) \/ MediaFail(w) \/ QueueCleanup(w) \/ End(w) \/ Basic(w) \/ BasicFail(w)
             \/ Catch(w) \/ Fail(w) \/ Throw(w)
    BY <2>4 DEF Complete, MediaFail, QueueCleanup, End, Basic, BasicFail, Catch, Fail, Throw, db
  <2> QED
    BY <1>4, <2>1, <2>2, <2>3, <2>4 DEF WorkerStep
<1>5. ASSUME NEW w \in Worker, NEW j \in Job, Cleanup(w) \/ Pick(w, j) PROVE FALSE
  BY <1>5 DEF Cleanup, Pick, db
<1>6. ASSUME NEW j \in Job, HandlerStep(j) \/ Promote(j) \/ Stalled(j) PROVE FALSE
  <2>1. CASE HandlerFrees(j)
    BY <2>1 DEF HandlerFrees, Freed
  <2>2. CASE ~HandlerFrees(j)
    BY <1>6, <2>2 DEF HandlerStep, HandlerReads, DeleteProducts, HandlerRestores, HandlerWrites, Promote,
                      Stalled, db
  <2> QED
    BY <2>1, <2>2
<1>7. CASE Crash
  BY <1>7 DEF Crash, db
<1>8. CASE UNCHANGED vars
  BY <1>8 DEF vars, db
<1>9. ASSUME NEW w \in Worker, Cleanup(w) PROVE FALSE
  BY <1>9 DEF Cleanup
<1>10. ASSUME NEW c \in Client, NEW r \in Request, BeginCancel(c, r) PROVE FALSE
  BY <1>10 DEF BeginCancel, db
<1> QED
  BY <1>1, <1>2, <1>3, <1>4, <1>5, <1>6, <1>7, <1>8, <1>9, <1>10 DEF Next

\* The uploaded file is thrown away only by an attempt that has gone through all of its
\* pages: their products exist, or its request counts them as failed.
THEOREM FileErasedAfterImport == Spec /\ []StartsInOrder => ErasedOnlyAfterImport
<1> DEFINE Gone(w) == run[w].r # None /\ imported[run[w].r] + run[w].seen.failed >= Chunks
           Erases == file' = "erasing" /\ file # "erasing" => \E w \in Worker : Gone(w)
<1>1. ASSUME Inv, [Next]_vars PROVE [Erases]_vars
  <2>1. ASSUME file' = "erasing", file # "erasing" PROVE \E w \in Worker : Gone(w)
    <3>1. PICK w \in Worker : run[w].pc = "w_erase"
      BY <1>1, <2>1, EraserOnly
    <3>2. run[w].r \in Request /\ CopyOK(w)
      BY <1>1, <3>1, TypesOf, WorkerFacts
    <3> QED
      BY <3>1, <3>2, Processes DEF CopyOK, Whole
  <2> QED
    BY <2>1
<1>2. Inv /\ [Next]_vars => [Erases]_vars
  BY <1>1
<1> HIDE DEF Erases
<1>3. Spec /\ []StartsInOrder => [][Erases]_vars
  BY <1>2, InvInit, InvStep, PTL DEF Spec
<1> QED
  BY <1>3 DEF ErasedOnlyAfterImport, Erases

-----------------------------------------------------------------------------
(* Without the cancel command a request goes from PENDING over PROCESSING to its end. *)

PlainParts == Inv /\ PlainInv /\ StartsInOrder

LEMMA PlainFacts ==
  ASSUME PlainParts
  PROVE  /\ Inv /\ Base /\ TypeOK /\ StartsInOrder /\ Plain
         /\ \A w \in Worker : CopyOK(w) /\ PlainWorker(w)
         /\ \A j \in Job : PlainHandler(j)
         /\ \A r \in Request : RequestOK(r) /\ PlainRequest(r)
BY DEF PlainParts, PlainInv, Inv, Base

\* While a start carries a copy it has read PENDING nobody else writes the request.
LEMMA StartExcludes ==
  ASSUME PlainParts, NEW c \in Client, Starting(c), run[c].seen.st = "PENDING",
         NEW r \in Request, r = run[c].r
  PROVE  /\ \A w \in Worker : run[w].pc # "idle" /\ run[w].r = r => ~RowFree(w, r)
         /\ \A j \in Job : run[j].pc # "idle" /\ run[j].r = r => ~RowFree(j, r)
         /\ \A d \in Client : run[d].pc = "commit" /\ run[d].j # None /\ run[d].r = r => d = c
<1>1. ClientOK(c) /\ Base /\ TypeOK /\ StartsInOrder
  BY PlainFacts, ClientFacts
<1>2. ASSUME NEW j \in Job, job[j].st # "none", job[j].r = r
      PROVE  run[c].j = j /\ run[c].write # NoRow
  <2>1. j = run[c].j
    BY <1>1, <1>2 DEF StartsInOrder
  <2>2. run[c].pc \notin {"s_write", "s_queue"}
    BY <1>1, <1>2, <2>1 DEF ClientOK
  <2>3. run[c].write.st = "PENDING"
    BY <1>1, <2>2 DEF ClientOK, Starting
  <2> QED
    BY <2>1, <2>3 DEF NoRow
<1>3. ASSUME NEW w \in Worker, run[w].pc # "idle", run[w].r = r PROVE ~RowFree(w, r)
  <2>1. run[w].j \in Job /\ job[run[w].j].st # "none" /\ job[run[w].j].r = r
    BY <1>1, <1>3, WorkerFacts
  <2> QED
    BY <1>2, <2>1, Processes DEF RowFree
<1>4. ASSUME NEW j \in Job, run[j].pc # "idle", run[j].r = r PROVE ~RowFree(j, r)
  <2>1. job[j].st # "none" /\ job[j].r = r
    BY <1>1, <1>4, HandlerFacts
  <2> QED
    BY <1>2, <2>1, Processes DEF RowFree
<1>5. ASSUME NEW d \in Client, run[d].pc = "commit", run[d].j # None, run[d].r = r PROVE d = c
  <2>1. ClientOK(d) /\ run[d].j \in Job
    BY <1>1, <1>5, ClientFacts
  <2>2. job[run[d].j].st # "none" /\ job[run[d].j].r = r
    BY <1>5, <2>1 DEF ClientOK
  <2>3. run[c].j = run[d].j
    BY <1>2, <2>1, <2>2
  <2> QED
    BY <1>1, <1>5, <2>1, <2>3 DEF ClientOK
<1> QED
  BY <1>3, <1>4, <1>5

\* An attempt.
LEMMA ActsPlain ==
  ASSUME PlainParts, NEW w \in Worker, run[w].pc # "idle", Acts(w),
         NEW r \in Request, r = run[w].r,
         run'[w].seen.st \in Uncancelled, run'[w].err # "cancel", req'[r].st \in Uncancelled,
         PlainWorker(w)',
         req'[r].st = "FAILED" => run'[w].pc \notin Later \cup {"w_begin"},
         req'[r].st = "COMPLETED" => imported'[r] + req'[r].failed >= Chunks /\ tail'[r] = NoTail,
         req'[r] = req[r] \/ RowFree(w, r),
         run[w].pc \notin Later \cup {"w_begin"} /\ req[r].st \in {"FAILED", "PROCESSING"} =>
           req'[r].st \in {"FAILED", "PROCESSING"} /\ run'[w].pc \notin Later \cup {"w_begin"}
  PROVE  PlainInv'
<1>1. /\ \A q \in Process \ {w} : run'[q] = run[q]
      /\ run'[w].r = r /\ job' = job
      /\ \A x \in Request \ {r} : req'[x] = req[x] /\ imported'[x] = imported[x] /\ tail'[x] = tail[x]
      /\ \A c \in Client : run'[c] = run[c]
      /\ \A j \in Job : run'[j] = run[j]
      /\ \A v \in Worker \ {w} : run'[v] = run[v]
  BY Processes DEF Acts, Moves
<1>2. Plain'
  <2>1. ASSUME NEW x \in Request PROVE req'[x].st \in Uncancelled
    BY <1>1, PlainFacts DEF Plain
  <2>2. ASSUME NEW q \in Process PROVE run'[q].seen.st \in Uncancelled /\ run'[q].err # "cancel"
    BY <1>1, PlainFacts DEF Plain
  <2> QED
    BY <1>1, <2>1, <2>2, PlainFacts DEF Plain
<1>3. ASSUME NEW v \in Worker PROVE PlainWorker(v)'
  <2>1. CASE v # w /\ run[v].pc = "idle"
    BY <1>1, <2>1 DEF PlainWorker, Before
  <2>2. CASE v # w /\ run[v].pc # "idle"
    <3>1. run[v].r \in Request \ {r} /\ PlainWorker(v)
      BY <2>2, PlainFacts, WorkerAlone, WorkerFacts
    <3> QED
      BY <1>1, <2>2, <3>1 DEF PlainWorker
  <2> QED
    BY <2>1, <2>2
<1>4. ASSUME NEW j \in Job PROVE PlainHandler(j)'
  <2>1. CASE run[j].pc = "idle"
    BY <1>1, <2>1 DEF PlainHandler
  <2>2. CASE run[j].pc # "idle"
    <3>1. run[j].r \in Request \ {r} /\ PlainHandler(j)
      BY <2>2, PlainFacts, WorkerAlone, HandlerFacts
    <3> QED
      BY <1>1, <3>1 DEF PlainHandler
  <2> QED
    BY <2>1, <2>2
<1>5. ASSUME NEW x \in Request \ {r} PROVE PlainRequest(x)'
  <2>1. Unimported(x) => Unimported(x)'
    BY <1>1 DEF Unimported
  <2> QED
    BY <1>1, <2>1, PlainFacts DEF PlainRequest, Starting, Whole
<1>6. PlainRequest(r)'
  <2>1. ASSUME NEW v \in Worker \ {w}, run'[v].r = r PROVE run'[v].pc = "idle"
    BY <1>1, <2>1, PlainFacts, WorkerAlone
  <2>2. run'[w].pc \notin Later \cup {"w_begin"} => Unimported(r)'
    BY <2>1 DEF Unimported, Later, Done
  <2>3. Unimported(r) => run[w].pc \notin Later \cup {"w_begin"}
    BY DEF Unimported
  <2>4. ASSUME NEW c \in Client, Starting(c), run[c].r = r, run[c].seen.st = "PENDING"
        PROVE  req'[r].st = "PENDING"
    <3>1. req'[r] = req[r] /\ PlainRequest(r)
      BY <2>4, StartExcludes, PlainFacts
    <3> QED
      BY <2>4, <3>1 DEF PlainRequest
  <2>5. ASSUME NEW c \in Client, Starting(c), run[c].r = r, run[c].seen.st # "PENDING"
        PROVE  req'[r].st \in {"FAILED", "PROCESSING"} /\ Unimported(r)'
    <3>1. req[r].st \in {"FAILED", "PROCESSING"} /\ Unimported(r)
      BY <2>5, PlainFacts DEF PlainRequest
    <3> QED
      BY <2>2, <2>3, <3>1
  <2> QED
    BY <1>1, <2>2, <2>4, <2>5 DEF PlainRequest, Starting, Whole
<1> QED
  BY <1>2, <1>3, <1>4, <1>5, <1>6 DEF PlainInv

LEMMA WorksPlain ==
  ASSUME PlainParts, NEW w \in Worker, Works(w), run[w].pc # "idle"
  PROVE  PlainInv'
<1> DEFINE t == run'[w]
<1>0. /\ run[w].r \in Request /\ TypeOK /\ CopyOK(w) /\ PlainWorker(w) /\ Base /\ w \in Process
      /\ run[w].j \in Job
  BY PlainFacts, WorkerFacts, Processes
<1> PICK r \in Request : r = run[w].r
  BY <1>0
<1>r. /\ RequestOK(r) /\ PlainRequest(r) /\ req[r].st \in Uncancelled /\ ~job[run[w].j].flag
      /\ run[w].seen.st \in Uncancelled /\ run[w].err # "cancel"
      /\ (run[w].pc \in Later \cup {"w_begin"} => req[r].st # "FAILED")
  BY <1>0, PlainFacts DEF Plain, PlainRequest, Unimported
<1>1. CASE Check(w) \/ Load(w) \/ ImportStops(w) \/ MediaEnds(w) \/ Erase(w) \/ QueueCleanup(w) \/ Free(w)
           \/ (End(w) /\ ~Ends(w))
  <2>1. /\ Acts(w) /\ UNCHANGED <<req, imported, tail>> /\ t.seen = run[w].seen
        /\ t.err \in {run[w].err, "error"} /\ t.r = r
        /\ \/ t.pc \in {"w_throw", "w_load", "w_start", "w_basic", "w_catch"}
           \/ run[w].pc = "w_rows" /\ t.pc = "w_logs"
           \/ run[w].pc = "w_loop" /\ t.pc = "w_complete"
           \/ run[w].pc \in Done /\ t.pc \in {"w_cleanup", "w_end"}
           \/ run[w].pc = "w_free" /\ t.pc = "w_basic_fail"
    BY <1>0, <1>1, <1>r, LightSteps DEF Light, Acts, Done
  <2>2. PlainWorker(w)'
    BY <1>0, <2>1 DEF PlainWorker, Before
  <2>3. run[w].pc \notin Later \cup {"w_begin"} => t.pc \notin Later \cup {"w_begin"}
    BY <2>1 DEF Later, Done
  <2>4. req[r].st = "COMPLETED" => imported[r] + req[r].failed >= Chunks /\ tail[r] = NoTail
    BY <1>r DEF PlainRequest, Whole
  <2> QED
    BY <1>0, <1>r, <2>1, <2>2, <2>3, <2>4, ActsPlain DEF Later, Done
<1>2. CASE OnStart(w)
  <2>1. /\ Acts(w) /\ UNCHANGED <<req, imported, tail>> /\ run[w].pc = "w_start" /\ t.r = r
        /\ \/ t.pc = "w_catch" /\ t.err = "error" /\ t.seen = run[w].seen
           \/ t.pc = "w_begin" /\ t.seen.st = "PROCESSING" /\ req[r].st = "PENDING" /\ t.err = run[w].err
    BY <1>0, <1>2, <1>r, StartSteps DEF Acts, Uncancelled
  <2>2. PlainWorker(w)'
    BY <2>1 DEF PlainWorker, Before
  <2>3. req[r].st = "COMPLETED" => imported[r] + req[r].failed >= Chunks /\ tail[r] = NoTail
    BY <1>r DEF PlainRequest, Whole
  <2>4. t.seen.st \in Uncancelled /\ t.err # "cancel"
    BY <1>r, <2>1 DEF Uncancelled
  <2>5. req[r].st \in {"FAILED", "PROCESSING"} => t.pc \notin Later \cup {"w_begin"}
    BY <2>1 DEF Later, Done
  <2> QED
    BY <1>0, <1>r, <2>1, <2>2, <2>3, <2>4, <2>5, ActsPlain
<1>3. CASE Begin(w) \/ MediaTotal(w) \/ MediaWarns(w) \/ MediaFail(w) \/ Fail(w)
  <2>1. /\ Acts(w) /\ UNCHANGED <<imported, tail>> /\ t.seen = run[w].seen /\ req'[r] = run[w].seen
        /\ t.err \in {run[w].err, "error"} /\ RowFree(w, r) /\ t.r = r
        /\ \/ run[w].pc = "w_begin" /\ t.pc = "w_rows"
           \/ run[w].pc = "w_total" /\ t.pc = "w_loop"
           \/ run[w].pc = "w_loop" /\ t.pc = "w_loop"
           \/ run[w].pc = "w_fail" /\ t.pc = "w_restore"
    <3>1. run[w].pc # "w_media_fail"
      BY <1>0 DEF PlainWorker
    <3> QED
      BY <1>0, <1>3, <3>1, WriteSteps DEF Writes, Acts
  <2>2. \/ run[w].pc \in Later \cup {"w_begin"} /\ run[w].seen.st = "PROCESSING"
           /\ t.pc \in {"w_rows", "w_loop"}
        \/ t.pc = "w_restore" /\ run[w].seen.st = "FAILED"
    BY <1>0, <2>1 DEF CopyOK, PlainWorker, Before, Later, Done
  <2>3. PlainWorker(w)'
    BY <1>0, <2>1, <2>2 DEF PlainWorker, Before
  <2>4. t.pc = "w_restore" => t.pc \notin Later \cup {"w_begin"}
    BY DEF Later, Done
  <2> QED
    BY <1>0, <1>r, <2>1, <2>2, <2>3, <2>4, ActsPlain DEF Uncancelled
<1>11. CASE Logs(w)
  <2>1. /\ Acts(w) /\ UNCHANGED <<imported, tail>> /\ req'[r] = t.seen /\ run[w].pc = "w_logs"
        /\ t.pc \in {"w_complete", "w_media"} /\ t.seen.st = run[w].seen.st /\ t.err = run[w].err
        /\ RowFree(w, r) /\ t.r = r
    BY <1>0, <1>11, LogsSteps DEF Acts
  <2>2. t.seen.st = "PROCESSING"
    BY <1>0, <2>1 DEF PlainWorker, Before
  <2>3. PlainWorker(w)'
    BY <2>1, <2>2 DEF PlainWorker, Before
  <2> QED
    BY <1>0, <1>r, <2>1, <2>2, <2>3, ActsPlain DEF Uncancelled, Later, Done
<1>4. CASE Import(w)
  <2>1. /\ Acts(w) /\ run[w].pc = "w_rows" /\ t.pc = "w_rows" /\ t.seen = run[w].seen
        /\ t.err = run[w].err /\ tail' = tail /\ t.r = r
        /\ req'[r] = req[r] \/ (req'[r] = run[w].seen /\ RowFree(w, r))
    BY <1>0, <1>4, ImportSteps DEF Acts
  <2>2. req'[r].st = "PROCESSING" /\ run[w].seen.st = "PROCESSING"
    BY <1>0, <2>1 DEF PlainWorker, Before
  <2>3. PlainWorker(w)'
    BY <2>1, <2>2 DEF PlainWorker, Before
  <2> QED
    BY <1>0, <1>r, <2>1, <2>2, <2>3, ActsPlain DEF Uncancelled, Later
<1>5. CASE Breaks(w)
  <2>1. /\ Acts(w) /\ run[w].pc = "w_rows" /\ t.pc \in {"w_catch", "w_hung"}
        /\ UNCHANGED <<req, imported>> /\ t.seen = run[w].seen /\ t.err \in {run[w].err, "error"} /\ t.r = r
    BY <1>0, <1>5, BreakSteps DEF Acts
  <2>2. req[r].st = "PROCESSING"
    BY <1>0, <2>1 DEF PlainWorker, Before
  <2>3. PlainWorker(w)'
    BY <2>1, <2>2 DEF PlainWorker, Before
  <2> QED
    BY <1>0, <1>r, <2>1, <2>2, <2>3, ActsPlain DEF Uncancelled, Later
<1>6. CASE Media(w)
  <2>1. /\ Acts(w) /\ UNCHANGED <<req, imported, tail>> /\ run[w].pc = "w_media" /\ t.pc = "w_total"
        /\ t.seen.st = req[r].st /\ t.err = run[w].err /\ t.r = r
    BY <1>0, <1>6, MediaSteps DEF Acts
  <2>2. req[r].st = "PROCESSING"
    BY <1>0, <2>1 DEF PlainWorker, Before
  <2>3. PlainWorker(w)'
    BY <2>1, <2>2 DEF PlainWorker, Before
  <2> QED
    BY <1>0, <1>r, <2>1, <2>2, <2>3, ActsPlain DEF Uncancelled, Later, Done
<1>7. CASE Complete(w)
  <2>0. run[w].pc = "w_complete"
    BY <1>7 DEF Complete, At
  <2>1. run[w].seen.st = "PROCESSING" /\ imported[r] + run[w].seen.failed >= Chunks /\ tail[r] = NoTail
    BY <1>0, <2>0 DEF PlainWorker, CopyOK, Whole, Before, Later, Done
  <2>2. /\ Acts(w) /\ UNCHANGED <<imported, tail>> /\ t.pc \in {"w_erase", "w_catch"}
        /\ t.seen = run[w].seen /\ t.err \in {run[w].err, "error"} /\ t.r = r
        /\ \/ RowFree(w, r) /\ req'[r].st = "COMPLETED" /\ req'[r].failed = run[w].seen.failed
           \/ req' = req /\ t.pc = "w_catch"
    BY <1>0, <1>7, <2>1, CompleteSteps DEF Writes, Acts
  <2>3. PlainWorker(w)'
    BY <2>2 DEF PlainWorker, Before
  <2>4. req'[r].st = "COMPLETED" => imported'[r] + req'[r].failed >= Chunks /\ tail'[r] = NoTail
    <3>1. req[r].st = "PROCESSING"
      BY <1>0, <2>0 DEF PlainWorker, Before
    <3> QED
      BY <2>1, <2>2, <3>1
  <2>5. /\ req'[r].st \in Uncancelled /\ req'[r].st # "FAILED" /\ (req'[r] = req[r] \/ RowFree(w, r))
        /\ run[w].pc \in Later
    BY <1>0, <1>r, <2>0, <2>2 DEF PlainWorker, Before, Uncancelled, Later, Done
  <2> QED
    BY <1>0, <1>r, <2>0, <2>1, <2>2, <2>3, <2>4, <2>5, ActsPlain
<1>8. CASE Basic(w) \/ Catch(w)
  <2>1. /\ Acts(w) /\ UNCHANGED <<req, imported, tail>> /\ t.err = run[w].err /\ t.r = r
        /\ t.seen.st \in {"FAILED", req[r].st}
        /\ \/ t.pc = "w_throw"
           \/ t.pc \in {"w_free", "w_basic_fail"} /\ req[r].st \in {"PENDING", "PROCESSING"}
           \/ t.pc = "w_fail" /\ ~Ended(req[r])
    BY <1>0, <1>8, FailReads DEF Acts
  <2>2. PlainWorker(w)'
    BY <2>1 DEF PlainWorker, Before, Ended
  <2>3. req[r].st = "COMPLETED" => imported[r] + req[r].failed >= Chunks /\ tail[r] = NoTail
    BY <1>r DEF PlainRequest, Whole
  <2>4. t.pc \notin Later \cup {"w_begin"}
    BY <2>1 DEF Later, Done
  <2> QED
    BY <1>0, <1>r, <2>1, <2>2, <2>3, <2>4, ActsPlain DEF Uncancelled
<1>9. CASE BasicFail(w)
  <2>1. /\ Acts(w) /\ UNCHANGED <<imported, tail>> /\ t.pc = "w_throw" /\ req'[r].st = "FAILED"
        /\ RowFree(w, r) /\ t.seen = run[w].seen /\ t.err = run[w].err /\ t.r = r
    BY <1>0, <1>9, BasicFailSteps DEF Writes, Acts
  <2>2. PlainWorker(w)'
    BY <2>1 DEF PlainWorker, Before
  <2>3. t.pc \notin Later \cup {"w_begin"}
    BY <2>1 DEF Later, Done
  <2> QED
    BY <1>0, <1>r, <2>1, <2>2, <2>3, ActsPlain DEF Uncancelled
<1>10. CASE Restore(w)
  <2>1. /\ Acts(w) /\ UNCHANGED <<req, imported>> /\ t.pc = "w_throw"
        /\ (tail[r] = NoTail => tail'[r] = NoTail)
        /\ t.seen = run[w].seen /\ t.err = run[w].err /\ t.r = r
    BY <1>0, <1>10, RestoreSteps DEF Acts
  <2>2. PlainWorker(w)'
    BY <2>1 DEF PlainWorker, Before
  <2>3. t.pc \notin Later \cup {"w_begin"}
    BY <2>1 DEF Later, Done
  <2>4. req[r].st = "COMPLETED" => imported[r] + req[r].failed >= Chunks /\ tail[r] = NoTail
    BY <1>r DEF PlainRequest, Whole
  <2> QED
    BY <1>0, <1>r, <2>1, <2>2, <2>3, <2>4, ActsPlain DEF Uncancelled
<1> QED
  BY <1>1, <1>2, <1>3, <1>4, <1>5, <1>6, <1>7, <1>8, <1>9, <1>10, <1>11 DEF Works

\* Attempts and handlers begin or end, and rows in the background are dropped.
LEMMA FewerPlain ==
  ASSUME PlainParts, UNCHANGED <<req, imported>>,
         \A r \in Request : tail'[r] \in {tail[r], NoTail},
         \A j \in Job : job'[j].flag => job[j].flag,
         \A c \in Client : run'[c] = run[c],
         \A w \in Worker : \/ run'[w] = run[w] \/ run'[w] = Idle
                           \/ run'[w].pc = "w_check" /\ run'[w].seen = NoRow /\ run'[w].err = "none",
         \A j \in Job : \/ run'[j] = run[j] \/ run'[j] = Idle
                        \/ run'[j].pc = "h_read" /\ run'[j].seen = NoRow /\ run'[j].err # "cancel"
  PROVE  PlainInv'
<1>1. Plain'
  <2>1. ASSUME NEW p \in Process PROVE run'[p].seen.st \in Uncancelled /\ run'[p].err # "cancel"
    BY PlainFacts, Processes DEF Plain, Idle, NoRow, Uncancelled
  <2> QED
    BY <2>1, PlainFacts DEF Plain
<1>2. ASSUME NEW w \in Worker PROVE PlainWorker(w)'
  BY PlainFacts DEF PlainWorker, Before, Idle
<1>3. ASSUME NEW j \in Job PROVE PlainHandler(j)'
  BY PlainFacts DEF PlainHandler, Idle
<1>4. ASSUME NEW r \in Request PROVE PlainRequest(r)'
  <2>1. Unimported(r) => Unimported(r)'
    BY DEF Unimported, Later, Done, Idle
  <2> QED
    BY <2>1, PlainFacts DEF PlainRequest, Whole, Starting
<1> QED
  BY <1>1, <1>2, <1>3, <1>4 DEF PlainInv

\* A command that writes nothing.
LEMMA AskingPlain ==
  ASSUME PlainParts, NEW c \in Client, Asks(c), req' = req,
         \A j \in Job : job'[j].flag => job[j].flag,
         run'[c].seen.st \in Uncancelled, run'[c].err # "cancel",
         Starting(c)' => \/ Starting(c) /\ run'[c].r = run[c].r /\ run'[c].seen = run[c].seen
                         \/ run'[c].seen = req[run'[c].r] /\ run'[c].seen.st \in {"PENDING", "FAILED"}
  PROVE  PlainInv'
<1>1. /\ \A q \in Process \ {c} : run'[q] = run[q]
      /\ \A d \in Client \ {c} : run'[d] = run[d]
      /\ (\A w \in Worker : run'[w] = run[w]) /\ (\A j \in Job : run'[j] = run[j])
      /\ imported' = imported /\ tail' = tail
  BY Processes DEF Asks, Moves
<1>2. Plain'
  <2>1. ASSUME NEW q \in Process PROVE run'[q].seen.st \in Uncancelled /\ run'[q].err # "cancel"
    BY <1>1, PlainFacts DEF Plain
  <2> QED
    BY <2>1, PlainFacts DEF Plain
<1>3. ASSUME NEW w \in Worker PROVE PlainWorker(w)'
  BY <1>1, PlainFacts DEF PlainWorker
<1>4. ASSUME NEW j \in Job PROVE PlainHandler(j)'
  BY <1>1, PlainFacts DEF PlainHandler
<1>5. ASSUME NEW r \in Request PROVE PlainRequest(r)'
  <2>1. PlainRequest(r) /\ (Unimported(r)' <=> Unimported(r))
    BY <1>1, PlainFacts DEF Unimported
  <2>2. ASSUME NEW d \in Client, Starting(d)', run'[d].r = r
        PROVE  IF run'[d].seen.st = "PENDING" THEN req[r].st = "PENDING"
               ELSE req[r].st \in {"FAILED", "PROCESSING"} /\ Unimported(r)
    <3>1. CASE d # c
      BY <1>1, <2>1, <2>2, <3>1 DEF PlainRequest, Whole, Starting
    <3>2. CASE d = c
      BY <2>1, <2>2, <3>2 DEF PlainRequest, Whole
    <3> QED
      BY <3>1, <3>2
  <2> QED
    BY <1>1, <2>1, <2>2 DEF PlainRequest, Whole
<1> QED
  BY <1>2, <1>3, <1>4, <1>5 DEF PlainInv

\* The row a start commits has the status it has read, and nobody has gone on with the
\* request since.
LEMMA CommitPlain ==
  ASSUME PlainParts, NEW c \in Client, Asks(c), run'[c] = Idle,
         \A j \in Job : job'[j].flag => job[j].flag,
         Starting(c), run[c].pc = "commit", NEW r \in Request, r = run[c].r, req'[r] = run[c].write,
         \A x \in Request \ {r} : req'[x] = req[x]
  PROVE  PlainInv' /\ (req[r].st = "COMPLETED" => req'[r].st = "COMPLETED")
<1>1. /\ \A q \in Process \ {c} : run'[q] = run[q]
      /\ \A d \in Client \ {c} : run'[d] = run[d]
      /\ (\A w \in Worker : run'[w] = run[w]) /\ (\A j \in Job : run'[j] = run[j])
      /\ imported' = imported /\ tail' = tail
  BY Processes DEF Asks, Moves
<1>2. ClientOK(c) /\ PlainRequest(r) /\ Base /\ c \in Process
  BY PlainFacts, ClientFacts, Processes
<1>3. \/ run[c].seen.st = "PENDING" /\ req[r].st = "PENDING" /\ req'[r].st = "PENDING"
      \/ /\ run[c].seen.st = "FAILED" /\ req'[r].st = "FAILED" /\ Unimported(r)
         /\ req[r].st \in {"FAILED", "PROCESSING"}
  <2>1. run[c].seen.st \in {"PENDING", "FAILED"} /\ req'[r].st = run[c].seen.st
    BY <1>2, PlainFacts DEF ClientOK, Plain, Uncancelled
  <2> QED
    BY <1>2, <2>1 DEF PlainRequest, Whole
<1>4. Plain'
  <2>1. ASSUME NEW q \in Process PROVE run'[q].seen.st \in Uncancelled /\ run'[q].err # "cancel"
    BY <1>1, PlainFacts DEF Plain, Idle, NoRow, Uncancelled
  <2>2. ASSUME NEW x \in Request PROVE req'[x].st \in Uncancelled
    BY <1>3, PlainFacts DEF Plain, Uncancelled
  <2> QED
    BY <2>1, <2>2, PlainFacts DEF Plain
<1>5. ASSUME NEW w \in Worker PROVE PlainWorker(w)'
  <2>1. PlainWorker(w)
    BY PlainFacts
  <2>2. CASE run[w].pc = "idle"
    BY <1>1, <2>2 DEF PlainWorker, Before
  <2>3. CASE run[w].pc # "idle" /\ run[w].r # r
    <3>1. run[w].r \in Request \ {r}
      BY <1>2, <2>3, WorkerFacts
    <3> QED
      BY <1>1, <2>1, <3>1 DEF PlainWorker
  <2>4. CASE run[w].r = r
    <3>1. Unimported(r) => run[w].pc \notin Before \cup {"w_begin"}
      BY <2>4 DEF Unimported, Before, Later, Done
    <3> QED
      BY <1>1, <1>3, <2>1, <2>4, <3>1 DEF PlainWorker
  <2> QED
    BY <2>2, <2>3, <2>4
<1>6. ASSUME NEW j \in Job PROVE PlainHandler(j)'
  <2>1. PlainHandler(j)
    BY PlainFacts
  <2>2. CASE run[j].pc = "idle"
    BY <1>1, <2>2 DEF PlainHandler
  <2>3. CASE run[j].pc # "idle"
    <3>1. run[j].r \in Request
      BY <1>2, <2>3, HandlerFacts
    <3> QED
      BY <1>1, <1>3, <2>1, <3>1 DEF PlainHandler
  <2> QED
    BY <2>2, <2>3
<1>7. ASSUME NEW x \in Request PROVE PlainRequest(x)'
  <2>1. PlainRequest(x) /\ (Unimported(x)' <=> Unimported(x))
    BY <1>1, PlainFacts DEF Unimported
  <2>2. CASE x # r
    BY <1>1, <2>1, <2>2 DEF PlainRequest, Whole, Starting, Idle
  <2>3. CASE x = r
    <3>1. ASSUME NEW d \in Client, Starting(d)', run'[d].r = r
          PROVE  IF run'[d].seen.st = "PENDING" THEN req'[r].st = "PENDING"
                 ELSE req'[r].st \in {"FAILED", "PROCESSING"} /\ Unimported(r)
      <4>1. d # c /\ Starting(d) /\ run[d].r = r /\ run'[d] = run[d]
        BY <1>1, <3>1 DEF Starting, Idle
      <4>2. CASE run[d].seen.st = "PENDING"
        <5>1. c = d
          BY <4>1, <4>2, StartExcludes DEF Starting
        <5> QED
          BY <4>1, <5>1
      <4>3. CASE run[d].seen.st # "PENDING"
        BY <1>3, <2>1, <2>3, <4>1, <4>3 DEF PlainRequest, Whole
      <4> QED
        BY <4>2, <4>3
    <3> QED
      BY <1>3, <2>1, <2>3, <3>1 DEF PlainRequest, Whole
  <2> QED
    BY <2>2, <2>3
<1> QED
  BY <1>3, <1>4, <1>5, <1>6, <1>7 DEF PlainInv

\* What is COMPLETED stays so.
Stands == \A r \in Request : req[r].st = "COMPLETED" => req'[r].st = "COMPLETED"

LEMMA AskedPlain ==
  ASSUME PlainParts, "cancel" \notin Ops, NEW c \in Client, ClientStep(c)
  PROVE  PlainInv' /\ Stands
<1>0. ClientOK(c) /\ Base /\ c \in Process /\ Plain /\ \A r \in Request : RequestOK(r)
  BY PlainFacts, ClientFacts, Processes
<1>1. /\ Asks(c) /\ run[c].pc \notin CancelPc /\ run[c].r \in Request
      /\ \A j \in Job : job'[j].flag => job[j].flag
      /\ \A x \in Request \ {run[c].r} : req'[x] = req[x]
  BY <1>0, ClientForms DEF ClientOK
<1>2. CASE run'[c] = Idle /\ req' = req
  BY <1>1, <1>2, AskingPlain DEF Idle, NoRow, Uncancelled, Starting, Stands
<1>3. CASE /\ run[c].pc = "s_lock" /\ run'[c].pc = "s_write" /\ run'[c].r = run[c].r
           /\ run'[c].j = run[c].j /\ run[c].j \in Job /\ run'[c].err = run[c].err
           /\ req' = req /\ run'[c].seen = req[run[c].r] /\ Startable(req[run[c].r])
  <2>1. req[run[c].r].st \in {"PENDING", "FAILED"}
    <3>1. req[run[c].r].st \in Uncancelled /\ req[run[c].r].st # "none"
      BY <1>0, <1>1, <1>3 DEF Plain, ClientOK
    <3> QED
      BY <1>3, <3>1 DEF Startable, Uncancelled
  <2> QED
    BY <1>0, <1>1, <1>3, <2>1, AskingPlain DEF Uncancelled, Plain, Stands
<1>4. CASE /\ Starting(c) /\ run'[c].r = run[c].r /\ run'[c].j = run[c].j
           /\ run'[c].seen = run[c].seen /\ run'[c].err = run[c].err /\ req' = req
  BY <1>0, <1>1, <1>4, AskingPlain DEF Plain, Stands
<1>5. CASE run[c].pc = "commit" /\ run'[c] = Idle /\ req'[run[c].r] = run[c].write
  <2>1. Starting(c)
    BY <1>0, <1>5 DEF ClientOK, Starting
  <2> QED
    BY <1>1, <1>5, <2>1, CommitPlain DEF Stands
<1> QED
  BY <1>0, <1>1, <1>2, <1>3, <1>4, <1>5, ClientForms

LEMMA WorksStand ==
  ASSUME PlainParts, NEW w \in Worker, Works(w), run[w].pc # "idle"
  PROVE  Stands
<1>0. /\ run[w].r \in Request /\ TypeOK /\ CopyOK(w) /\ PlainWorker(w)
  BY PlainFacts, WorkerFacts
<1> PICK r \in Request : r = run[w].r
  BY <1>0
<1>1. CASE Check(w) \/ Load(w) \/ ImportStops(w) \/ MediaEnds(w) \/ Erase(w) \/ QueueCleanup(w) \/ Free(w)
           \/ (End(w) /\ ~Ends(w)) \/ OnStart(w) \/ Breaks(w) \/ Media(w) \/ Basic(w) \/ Catch(w) \/ Restore(w)
  <2>1. req' = req
    BY <1>0, <1>1, LightSteps, StartSteps, BreakSteps, MediaSteps, FailReads, RestoreSteps DEF Light
  <2> QED
    BY <2>1 DEF Stands
<1>2. CASE Begin(w) \/ Logs(w) \/ MediaTotal(w) \/ MediaWarns(w) \/ MediaFail(w) \/ Fail(w)
  <2>1. Acts(w) /\ run[w].pc \in {"w_begin", "w_logs", "w_total", "w_loop", "w_media_fail", "w_fail"}
    BY <1>0, <1>2, WriteSteps, LogsSteps DEF Writes
  <2>2. req[r].st # "COMPLETED"
    BY <1>0, <2>1 DEF PlainWorker, Before
  <2> QED
    BY <2>1, <2>2 DEF Acts, Stands
<1>3. CASE Import(w)
  <2>1. Acts(w) /\ run[w].pc = "w_rows"
    BY <1>0, <1>3, ImportSteps
  <2>2. req[r].st # "COMPLETED"
    BY <1>0, <2>1 DEF PlainWorker, Before
  <2> QED
    BY <2>1, <2>2 DEF Acts, Stands
<1>4. CASE Complete(w)
  <2>1. Acts(w) /\ run[w].pc = "w_complete"
    BY <1>0, <1>4, CompleteSteps
  <2>2. req[r].st # "COMPLETED"
    BY <1>0, <2>1 DEF PlainWorker, Before
  <2> QED
    BY <2>1, <2>2 DEF Acts, Stands
<1>5. CASE BasicFail(w)
  <2>1. Acts(w) /\ run[w].pc = "w_basic_fail"
    BY <1>0, <1>5, BasicFailSteps DEF Writes
  <2>2. req[r].st # "COMPLETED"
    BY <1>0, <2>1 DEF PlainWorker
  <2> QED
    BY <2>1, <2>2 DEF Acts, Stands
<1> QED
  BY <1>1, <1>2, <1>3, <1>4, <1>5 DEF Works

LEMMA HandledPlain ==
  ASSUME PlainParts, NEW j \in Job, run[j].pc # "idle", HandlerStep(j)
  PROVE  PlainInv' /\ Stands
<1>0. /\ Base /\ TypeOK /\ run[j].r \in Request /\ run[j].r = job[j].r /\ PlainHandler(j) /\ j \in Process
      /\ run[j].err # "cancel" /\ run[j].seen.st \in Uncancelled /\ StartsInOrder /\ Plain
  BY PlainFacts, HandlerFacts, Processes DEF Plain
<1> PICK r \in Request : r = run[j].r
  BY <1>0
<1>1. /\ Serves(j) /\ imported' = imported
      /\ \/ req' = req
         \/ RowFree(j, r) /\ run[j].pc = "h_write" /\ ~Ended(run[j].seen) /\ req'[r].st = "FAILED"
      /\ \/ run'[j] = Idle
         \/ run'[j].r = r /\ run'[j].err = run[j].err /\ run'[j].pc # "h_products" /\ req' = req
            /\ (run'[j].seen = req[r] \/ (run'[j].seen = run[j].seen /\ run[j].pc \in {"h_restore", "h_free"}))
  <2>1. run[j].pc # "h_products"
    BY <1>0 DEF PlainHandler
  <2>2. CASE HandlerReads(j)
    BY <1>0, <2>2, HandlerReadSteps
  <2>3. CASE DeleteProducts(j)
    BY <2>1, <2>3 DEF DeleteProducts, At
  <2>4. CASE HandlerRestores(j) \/ HandlerFrees(j)
    BY <1>0, <2>4, HandlerLightSteps
  <2>5. CASE HandlerWrites(j)
    BY <1>0, <2>5, HandlerWriteSteps
  <2> QED
    BY <2>2, <2>3, <2>4, <2>5 DEF HandlerStep
<1>2. /\ tail' = tail /\ job' = job
      /\ (\A w \in Worker : run'[w] = run[w]) /\ (\A c \in Client : run'[c] = run[c])
      /\ \A x \in Request \ {r} : req'[x] = req[x]
      /\ \A q \in Process \ {j} : run'[q] = run[q]
  BY <1>1, Processes DEF Serves, Moves
<1>3. req' # req => req[r].st # "COMPLETED" /\ RowFree(j, r) /\ req'[r].st = "FAILED"
  BY <1>0, <1>1 DEF PlainHandler
<1>4. \A w \in Worker : run[w].pc # "idle" => run[w].r \in Request \ {r}
  BY <1>0, WorkerAlone, WorkerFacts
<1>5. ASSUME NEW i \in Job, i # j, run[i].pc # "idle" PROVE run[i].r \in Request \ {r}
  <2>1. run[i].r \in Request /\ run[i].r = job[i].r
    BY <1>0, <1>5, HandlerFacts
  <2> QED
    BY <1>0, <1>5, <2>1 DEF StartsInOrder, Busy
<1>6. Plain'
  <2>1. ASSUME NEW q \in Process PROVE run'[q].seen.st \in Uncancelled /\ run'[q].err # "cancel"
    <3>1. CASE q # j
      BY <1>0, <1>2, <3>1 DEF Plain
    <3>2. CASE q = j
      BY <1>0, <1>1, <3>2 DEF Plain, Idle, NoRow, Uncancelled
    <3> QED
      BY <3>1, <3>2
  <2>2. ASSUME NEW x \in Request PROVE req'[x].st \in Uncancelled
    BY <1>0, <1>2, <1>3 DEF Plain, Uncancelled
  <2> QED
    BY <1>0, <1>2, <2>1, <2>2 DEF Plain
<1>7. ASSUME NEW w \in Worker PROVE PlainWorker(w)'
  <2>1. CASE run[w].pc = "idle"
    BY <1>2, <2>1 DEF PlainWorker, Before
  <2>2. CASE run[w].pc # "idle"
    BY <1>2, <1>4, <2>2, PlainFacts DEF PlainWorker
  <2> QED
    BY <2>1, <2>2
<1>8. ASSUME NEW i \in Job PROVE PlainHandler(i)'
  <2>1. CASE i # j
    <3>1. run'[i] = run[i] /\ PlainHandler(i)
      BY <1>2, <2>1, PlainFacts, Processes
    <3>2. CASE run[i].pc = "idle"
      BY <3>1, <3>2 DEF PlainHandler
    <3>3. CASE run[i].pc # "idle"
      BY <1>2, <1>5, <2>1, <3>1, <3>3 DEF PlainHandler
    <3> QED
      BY <3>2, <3>3
  <2>2. CASE i = j
    BY <1>0, <1>1, <2>2 DEF PlainHandler, Idle, Ended
  <2> QED
    BY <2>1, <2>2
<1>9. ASSUME NEW x \in Request PROVE PlainRequest(x)'
  <2>1. PlainRequest(x) /\ (Unimported(x)' <=> Unimported(x))
    BY <1>2, PlainFacts DEF Unimported
  <2>2. CASE x # r \/ req' = req
    BY <1>1, <1>2, <2>1, <2>2 DEF PlainRequest, Whole, Starting
  <2>3. CASE x = r /\ req' # req
    <3>1. Unimported(r)
      BY <1>4 DEF Unimported, Later, Done
    <3>2. ASSUME NEW c \in Client, Starting(c), run[c].r = r PROVE run[c].seen.st # "PENDING"
      BY <1>0, <1>3, <2>3, <3>2, StartExcludes
    <3> QED
      BY <1>2, <1>3, <2>1, <2>3, <3>1, <3>2 DEF PlainRequest, Whole, Starting
  <2> QED
    BY <2>2, <2>3
<1> QED
  BY <1>2, <1>3, <1>6, <1>7, <1>8, <1>9 DEF PlainInv, Stands

LEMMA TailPlain ==
  ASSUME PlainParts, NEW r \in Request, ImportTail(r)
  PROVE  PlainInv' /\ Stands
<1>0. TypeOK /\ RequestOK(r) /\ PlainRequest(r) /\ Base /\ Plain
  BY PlainFacts
<1>1. /\ UNCHANGED <<job, run>> /\ tail[r] # NoTail
      /\ req'[r] = req[r] \/ req'[r].st = "PROCESSING"
      /\ \A x \in Request \ {r} : req'[x] = req[x] /\ imported'[x] = imported[x] /\ tail'[x] = tail[x]
  BY <1>0, TailSteps DEF RequestOK
<1>2. Touched(r) /\ req[r].st # "COMPLETED"
  BY <1>0, <1>1 DEF Touched, PlainRequest
<1>3. Plain'
  BY <1>0, <1>1 DEF Plain, Uncancelled
<1>4. ASSUME NEW w \in Worker PROVE PlainWorker(w)'
  <2>1. PlainWorker(w) /\ CopyOK(w)
    BY PlainFacts
  <2>2. CASE run[w].pc = "idle"
    BY <1>1, <2>2 DEF PlainWorker, Before
  <2>3. CASE run[w].pc # "idle" /\ run[w].r # r
    <3>1. run[w].r \in Request \ {r}
      BY <1>0, <2>3, WorkerFacts
    <3> QED
      BY <1>1, <2>1, <3>1 DEF PlainWorker
  <2>4. CASE run[w].r = r
    BY <1>1, <1>2, <2>1, <2>4 DEF PlainWorker, CopyOK, Before, Later, Done
  <2> QED
    BY <2>2, <2>3, <2>4
<1>5. ASSUME NEW j \in Job PROVE PlainHandler(j)'
  <2>1. PlainHandler(j)
    BY PlainFacts
  <2>2. CASE run[j].pc = "idle"
    BY <1>1, <2>2 DEF PlainHandler
  <2>3. CASE run[j].pc # "idle"
    <3>1. run[j].r \in Request
      BY <1>0, <2>3, HandlerFacts
    <3> QED
      BY <1>1, <2>1, <3>1 DEF PlainHandler
  <2> QED
    BY <2>2, <2>3
<1>6. ASSUME NEW x \in Request PROVE PlainRequest(x)'
  <2>1. PlainRequest(x) /\ (Unimported(x)' <=> Unimported(x))
    BY <1>1, PlainFacts DEF Unimported
  <2>2. CASE x # r
    BY <1>1, <2>1, <2>2 DEF PlainRequest, Whole, Starting
  <2>3. CASE x = r
    <3>1. ASSUME NEW c \in Client, Starting(c), run[c].r = r PROVE run[c].seen.st # "PENDING"
      BY <1>0, <1>2, <3>1 DEF RequestOK
    <3> QED
      BY <1>1, <1>2, <2>1, <2>3, <3>1 DEF PlainRequest, Whole, Starting
  <2> QED
    BY <2>2, <2>3
<1> QED
  BY <1>1, <1>2, <1>3, <1>4, <1>5, <1>6 DEF PlainInv, Stands

LEMMA CreatePlain ==
  ASSUME PlainParts, NEW r \in Request, Create(r)
  PROVE  PlainInv' /\ Stands
<1>0. TypeOK /\ Base /\ Plain
  BY PlainFacts
<1>1. /\ UNCHANGED <<job, imported, tail, run>> /\ req[r].st = "none" /\ req'[r].st = "PENDING"
      /\ \A x \in Request \ {r} : req'[x] = req[x]
  BY <1>0, CreateSteps DEF NoRow
<1>2. Plain'
  BY <1>0, <1>1 DEF Plain, Uncancelled
<1>3. ASSUME NEW w \in Worker PROVE PlainWorker(w)'
  <2>1. CASE run[w].pc = "idle"
    BY <1>1, <2>1 DEF PlainWorker, Before
  <2>2. CASE run[w].pc # "idle"
    <3>1. run[w].r \in Request \ {r} /\ PlainWorker(w)
      BY <1>0, <1>1, <2>2, WorkerFacts, PlainFacts
    <3> QED
      BY <1>1, <3>1 DEF PlainWorker
  <2> QED
    BY <2>1, <2>2
<1>4. ASSUME NEW j \in Job PROVE PlainHandler(j)'
  <2>1. CASE run[j].pc = "idle"
    BY <1>1, <2>1 DEF PlainHandler
  <2>2. CASE run[j].pc # "idle"
    <3>1. run[j].r \in Request \ {r} /\ PlainHandler(j)
      BY <1>0, <1>1, <2>2, HandlerFacts, PlainFacts
    <3> QED
      BY <1>1, <3>1 DEF PlainHandler
  <2> QED
    BY <2>1, <2>2
<1>5. ASSUME NEW x \in Request PROVE PlainRequest(x)'
  <2>1. PlainRequest(x) /\ (Unimported(x)' <=> Unimported(x))
    BY <1>1, PlainFacts DEF Unimported
  <2>2. CASE x # r
    BY <1>1, <2>1, <2>2 DEF PlainRequest, Whole, Starting
  <2>3. CASE x = r
    <3>1. ASSUME NEW c \in Client, Starting(c), run[c].r = r PROVE FALSE
      BY <1>0, <1>1, <3>1, ClientFacts DEF Starting
    <3> QED
      BY <1>1, <2>3, <3>1 DEF PlainRequest, Whole, Starting
  <2> QED
    BY <2>2, <2>3
<1> QED
  BY <1>1, <1>2, <1>3, <1>4, <1>5 DEF PlainInv, Stands

LEMMA PlainInit == Init => PlainInv
<1> SUFFICES ASSUME Init PROVE PlainInv
  OBVIOUS
<1>1. /\ \A p \in Process : run[p] = Idle
      /\ \A r \in Request : req[r] = NoRow
      /\ \A j \in Job : job[j] = NoJob
  BY DEF Init
<1>2. (\A c \in Client : run[c] = Idle) /\ (\A w \in Worker : run[w] = Idle) /\ \A j \in Job : run[j] = Idle
  BY <1>1, Processes
<1>3. Plain
  BY <1>1 DEF Plain, Idle, NoRow, NoJob, Uncancelled
<1>4. ASSUME NEW w \in Worker PROVE PlainWorker(w)
  BY <1>2 DEF PlainWorker, Before, Idle
<1>5. ASSUME NEW j \in Job PROVE PlainHandler(j)
  BY <1>2 DEF PlainHandler, Idle
<1>6. ASSUME NEW r \in Request PROVE PlainRequest(r)
  BY <1>1, <1>2 DEF PlainRequest, Whole, Starting, Idle, NoRow
<1> QED
  BY <1>3, <1>4, <1>5, <1>6 DEF PlainInv

LEMMA PlainStep ==
  ASSUME "cancel" \notin Ops, PlainParts, [Next]_vars
  PROVE  PlainInv' /\ Stands
<1>0. Base /\ TypeOK /\ Plain
  BY PlainFacts
<1>1. ASSUME NEW r \in Request, Create(r) PROVE PlainInv' /\ Stands
  BY <1>1, CreatePlain
<1>2. ASSUME NEW r \in Request, ImportTail(r) PROVE PlainInv' /\ Stands
  BY <1>2, TailPlain
<1>3. ASSUME NEW c \in Client, NEW r \in Request, BeginCancel(c, r) PROVE FALSE
  BY <1>3 DEF BeginCancel
<1>4. ASSUME NEW c \in Client, NEW r \in Request, NEW j \in Job, BeginStart(c, r, j)
      PROVE  PlainInv' /\ Stands
  <2>1. /\ Asks(c) /\ UNCHANGED <<req, job>> /\ ~Starting(c)'
        /\ run'[c].seen.st \in Uncancelled /\ run'[c].err # "cancel"
    BY <1>0, <1>4, BeginStartSteps DEF Starting, NoRow, Uncancelled
  <2> QED
    BY <2>1, AskingPlain DEF Stands
<1>5. ASSUME NEW c \in Client, ClientStep(c) PROVE PlainInv' /\ Stands
  BY <1>5, AskedPlain
<1>6. ASSUME NEW w \in Worker, WorkerStep(w) PROVE PlainInv' /\ Stands
  <2>1. run[w].pc # "idle" /\ (Works(w) \/ (End(w) /\ Ends(w)) \/ Throw(w))
    BY <1>6, StepOfWorker
  <2>2. CASE Works(w)
    BY <2>1, <2>2, WorksPlain, WorksStand
  <2>3. CASE End(w) /\ Ends(w)
    <3>1. run[w].j \in Job
      BY <1>0, <2>1, WorkerFacts
    <3>2. /\ UNCHANGED <<req, imported, tail>> /\ run'[w] = Idle
          /\ \A q \in Process \ {w} : run'[q] = run[q]
          /\ \A i \in Job : job'[i].flag => job[i].flag
      BY <1>0, <2>3, <3>1, EndSteps DEF Moves
    <3> QED
      BY <3>2, FewerPlain, Processes DEF Stands
  <2>4. CASE Throw(w)
    <3>1. run[w].j \in Job /\ job[run[w].j].tries < Attempts /\ run[w].err # "cancel"
      BY <1>0, <2>1, WorkerFacts, Processes DEF Plain
    <3> PICK j \in Job : j = run[w].j
      BY <3>1
    <3>2. /\ UNCHANGED <<req, imported, tail>> /\ run'[w] = Idle
          /\ \A q \in Process \ {w, j} : run'[q] = run[q]
          /\ \A i \in Job : job'[i].flag => job[i].flag
          /\ run'[j].pc = "h_read" /\ run'[j].seen = NoRow /\ run'[j].err # "cancel"
      BY <1>0, <2>4, <3>1, ThrowSteps
    <3>3. /\ \A c \in Client : run'[c] = run[c]
          /\ \A v \in Worker \ {w} : run'[v] = run[v]
          /\ \A i \in Job \ {j} : run'[i] = run[i]
      BY <3>2, Processes
    <3> QED
      BY <3>2, <3>3, FewerPlain DEF Stands
  <2> QED
    BY <2>1, <2>2, <2>3, <2>4
<1>7. ASSUME NEW w \in Worker, Cleanup(w) PROVE PlainInv' /\ Stands
  BY <1>0, <1>7, CleanupSteps, FewerPlain DEF Stands
<1>8. ASSUME NEW j \in Job, Promote(j) PROVE PlainInv' /\ Stands
  <2>1. UNCHANGED <<req, imported, tail, run>> /\ \A i \in Job : job'[i].flag => job[i].flag
    BY <1>0, <1>8, PromoteSteps
  <2> QED
    BY <2>1, FewerPlain DEF Stands
<1>9. ASSUME NEW j \in Job, Stalled(j) PROVE PlainInv' /\ Stands
  <2>1. /\ UNCHANGED <<req, imported, tail>> /\ \A q \in Process \ {j} : run'[q] = run[q]
        /\ \A i \in Job : job'[i].flag => job[i].flag
        /\ \/ run' = run
           \/ run'[j].pc = "h_read" /\ run'[j].seen = NoRow /\ run'[j].err # "cancel"
    BY <1>0, <1>9, StalledSteps DEF Moves
  <2>2. /\ (\A c \in Client : run'[c] = run[c]) /\ (\A w \in Worker : run'[w] = run[w])
        /\ \A i \in Job \ {j} : run'[i] = run[i]
    BY <2>1, Processes
  <2> QED
    BY <2>1, <2>2, FewerPlain DEF Stands
<1>10. ASSUME NEW w \in Worker, NEW j \in Job, Pick(w, j) PROVE PlainInv' /\ Stands
  <2>1. /\ UNCHANGED <<req, imported, tail>> /\ \A q \in Process \ {w} : run'[q] = run[q]
        /\ run'[w].pc = "w_check" /\ run'[w].seen = NoRow /\ run'[w].err = "none"
        /\ \A i \in Job : job'[i].flag => job[i].flag
    BY <1>0, <1>10, PickSteps DEF Moves
  <2> QED
    BY <2>1, FewerPlain, Processes DEF Stands
<1>11. ASSUME NEW j \in Job, HandlerStep(j) PROVE PlainInv' /\ Stands
  BY <1>0, <1>11, HandlerBase, HandledPlain
<1>12. CASE Crash
  BY <1>0, <1>12, CrashSteps, FewerPlain DEF Stands
<1>13. CASE UNCHANGED vars
  BY <1>13, FewerPlain DEF vars, db, products, Stands
<1> QED
  BY <1>1, <1>2, <1>3, <1>4, <1>5, <1>6, <1>7, <1>8, <1>9, <1>10, <1>11, <1>12, <1>13 DEF Next

\* Without the cancel command a COMPLETED request accounts for every page of its file, as
\* imported or as failed, whatever breaks, is passed over, retried or stalls.
THEOREM CompletedIsWhole ==
  ASSUME "cancel" \notin Ops
  PROVE  Spec /\ []StartsInOrder => []CompletedCountsAllRows
<1>1. Inv /\ PlainInv /\ StartsInOrder /\ [Next]_vars => PlainInv'
  BY PlainStep DEF PlainParts
<1>2. PlainInv => CompletedCountsAllRows
  BY DEF PlainInv, PlainRequest, Whole, CompletedCountsAllRows
<1> QED
  BY <1>1, <1>2, PlainInit, InvInit, InvStep, PTL DEF Spec

\* Without the cancel command what is COMPLETED is never written again: not by a failing
\* attempt, a late handler, a row in the background or a start that commits.
THEOREM CompletedIsFinal ==
  ASSUME "cancel" \notin Ops
  PROVE  Spec /\ []StartsInOrder => CompletedStands
<1>1. Inv /\ PlainInv /\ StartsInOrder /\ [Next]_vars => PlainInv' /\ Stands
  BY PlainStep DEF PlainParts
<1>2. Inv /\ PlainInv /\ StartsInOrder /\ [Next]_vars => [Stands]_vars
  BY <1>1
<1> HIDE DEF Stands
<1>3. Spec /\ []StartsInOrder => [][Stands]_vars
  BY <1>1, <1>2, PlainInit, InvInit, InvStep, PTL DEF Spec
<1> QED
  BY <1>3 DEF CompletedStands, Stands

\* A file that is started once meets the hypothesis: with a single job nothing else has to
\* be assumed of commands, workers, attempts and faults.
THEOREM OneStartIsInOrder ==
  ASSUME \A i, j \in Job : i = j
  PROVE  Spec => []StartsInOrder
<1>1. Base => StartsInOrder
  <2> SUFFICES ASSUME Base PROVE StartsInOrder
    OBVIOUS
  <2>1. ASSUME NEW c \in Client, NEW j \in Job, Starting(c) PROVE j = run[c].j
    BY <2>1, ClientFacts DEF Starting
  <2> QED
    BY <2>1 DEF StartsInOrder
<1> QED
  BY <1>1, BaseInit, BaseStep, PTL DEF Spec

===============================================================================
