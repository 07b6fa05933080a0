--------------------------- MODULE EmailQueueProofs ---------------------------
(***************************************************************************)
(* How often a welcome message is sent and what the row of a user says in  *)
(* the end, for every number of registrations, workers, attempts and       *)
(* faults.  A step is about one user, and what the invariant says of       *)
(* another user stays.                                                     *)
(***************************************************************************)
EXTENDS EmailQueue, FiniteSetTheorems, TLAPS

\* The runs of u that are at one of the steps in places.
RunsAt(u, places) == {w \in Worker : run[w].user = u /\ run[w].at \in places}

\* The job of u while it may run, its lock, and the runs of it that workers still have.
JobOK(u) ==
  /\ job[u].state \in {"none", "ready", "active"} => job[u].made < Attempts /\ job[u].stalls <= MaxStalled
  /\ holder[u] # {} => job[u].state = "active"
  /\ job[u].state = "completed" => job[u].done
  /\ request[u] \in {"idle", "created"} => job[u].state = "none"
  /\ row[u] # NoRow => request[u] = "committed"
  /\ \A w \in Worker : run[w].user = u =>
       /\ run[w].at # "idle" /\ job[u].state # "none"
       /\ run[w].at = "end" => job[u].done

RunsOK == \A w \in Worker : run[w].user = Nobody => run[w] = Idle
CopyOK == copy = NoCopy \/ (copy.user \in Users /\ copy.as \in Row /\ row[copy.user] # NoRow)

Base == TypeOK /\ RunsOK /\ CopyOK /\ \A u \in Users : JobOK(u)

\* Every message sent or still to be sent is paid for: by the run that is taken now, or by
\* one that ended badly.  A job that waits and has no progress has nobody to pay.
Credit(u) == lost[u] + IF job[u].state \in {"none", "ready"} /\ ~job[u].done THEN 0 ELSE 1

ToMail == {"mail"}
ToText == {"mail", "mailed", "text"}

Paid(u) ==
  /\ mails[u] + Cardinality(RunsAt(u, ToMail)) <= Credit(u)
  /\ texts[u] + Cardinality(RunsAt(u, ToText)) <= Credit(u)

PaidInv == Base /\ \A u \in Users : Paid(u)

\* What the row says, and what is true of the messages.
Mailed(u) == mails[u] > 0 \/ "email" \in refused[u]
Texted(u) == u \in HasPhone => texts[u] > 0 \/ "sms" \in refused[u]
SaysMailed(u) == row[u] # NoRow /\ row[u].email = "SENT" /\ Mailed(u)
SaysBoth(u) ==
  SaysMailed(u) /\ Texted(u) /\ row[u].sms = (IF u \in HasPhone THEN "SENT" ELSE "NOT_PROVIDED")
SaysError(u) == row[u] # NoRow /\ "SEND_ERROR" \in {row[u].email, row[u].sms}

Alone(u, w) == run[w].user = u => holder[u] = {w}

Told(u, w) ==
  /\ run[w].at = "mailed" => Mailed(u)
  /\ run[w].at \in {"text", "texted", "textError"} => SaysMailed(u)
  /\ run[w].at = "texted" => Texted(u)
  /\ run[w].at = "progress" => SaysBoth(u)
  /\ job[u].done => run[w].at = "end"

\* Without stalls a run holds the lock of its job, and the row follows it.
RowOK(u) ==
  /\ "stall" \notin upset[u] => \A w \in Worker : Alone(u, w)
  /\ upset[u] \cap {"stall", "overwritten"} = {} =>
       /\ job[u].done => SaysBoth(u)
       /\ \A w \in Worker : run[w].user = u => Told(u, w)
  /\ upset[u] = {} =>
       /\ job[u].state = "failed" => SaysError(u)
       /\ \A w \in Worker : run[w].user = u /\ run[w].at \in {"error", "timeout"} => SaysError(u)

RowInv == Base /\ \A u \in Users : RowOK(u)

-----------------------------------------------------------------------------
(* What a step does, field by field.                                        *)

Places == {"idle", "mail", "mailed", "mailError", "text", "texted", "textError",
           "progress", "end", "error", "timeout"}

\* A step about u leaves the rows, the job and the runs of everyone else alone.
Local(u) ==
  /\ \A v \in Users \ {u} :
       /\ request'[v] = request[v] /\ row'[v] = row[v] /\ job'[v] = job[v] /\ holder'[v] = holder[v]
       /\ mails'[v] = mails[v] /\ texts'[v] = texts[v] /\ lost'[v] = lost[v]
       /\ refused'[v] = refused[v] /\ upset'[v] = upset[v]
  /\ \A w \in Worker : run'[w] = run[w] \/ {run[w].user, run'[w].user} \subseteq {u, Nobody}

\* Only the run of w moves, and it stays a run of the same job.
Stays(w, to) ==
  /\ run' \in [Worker -> Run]
  /\ run'[w].user = run[w].user /\ run'[w].at = to
  /\ \A x \in Worker \ {w} : run'[x] = run[x]

\* A worker is idle from now on.
Frees(w) ==
  /\ run' \in [Worker -> Run] /\ run'[w] = Idle
  /\ \A x \in Worker \ {w} : run'[x] = run[x]

\* Every worker runs the job of a user, or is idle.
LEMMA UserOfRun ==
  ASSUME Base, NEW w \in Worker
  PROVE  /\ run[w] \in Run
         /\ run[w].at # "idle" => run[w].user \in Users
         /\ run[w].at = "idle" => run[w] = Idle
<1>1. run[w] \in Run /\ (run[w].user = Nobody => run[w] = Idle)
  BY DEF Base, TypeOK, RunsOK
<1>2. run[w].user \in Users => run[w].at # "idle"
  BY DEF Base, JobOK
<1> QED
  BY <1>1, <1>2 DEF Run, Idle

\* A step of the handler moves the run of its worker and nothing else.
LEMMA Moved ==
  ASSUME Base, NEW w \in Worker, NEW from \in Places \ {"idle"}, NEW to \in Places, Moves(w, from, to)
  PROVE  Stays(w, to) /\ run[w].at = from /\ run[w].user \in Users
<1>1. /\ run \in [Worker -> Run] /\ run[w] \in Run
      /\ run[w].at = from /\ run' = [run EXCEPT ![w].at = to]
  BY DEF Base, TypeOK, Moves
<1>2. run[w].user \in Users
  BY <1>1, UserOfRun
<1> DEFINE new == [run[w] EXCEPT !.at = to]
<1>3. new \in Run /\ new.user = run[w].user /\ new.at = to
  BY <1>1 DEF Run, Places
<1>4. run' = [run EXCEPT ![w] = new]
  BY <1>1
<1> HIDE DEF new
<1> QED
  BY <1>1, <1>2, <1>3, <1>4 DEF Stays

\* The end of a run: the holder of the lock has the last word on its job.
LEMMA Left ==
  ASSUME Base, NEW w \in Worker, NEW u \in Users, NEW result \in Job, Leave(w, u, result)
  PROVE  /\ Frees(w)
         /\ job' \in [Users -> Job] /\ holder' \in [Users -> SUBSET Worker]
         /\ \A v \in Users \ {u} : job'[v] = job[v] /\ holder'[v] = holder[v]
         /\ w \in holder[u] => job'[u] = result /\ holder'[u] = {}
         /\ w \notin holder[u] => job'[u] = job[u] /\ holder'[u] = holder[u]
<1>1. run \in [Worker -> Run] /\ job \in [Users -> Job] /\ holder \in [Users -> SUBSET Worker]
  BY DEF Base, TypeOK
<1>2. Idle \in Run /\ run' = [run EXCEPT ![w] = Idle]
  BY DEF Idle, Run, Leave
<1>3. Frees(w)
  BY <1>1, <1>2 DEF Frees
<1>4. CASE w \in holder[u]
  <2>1. job' = [job EXCEPT ![u] = result] /\ holder' = [holder EXCEPT ![u] = {}]
    BY <1>4 DEF Leave
  <2> QED
    BY <1>1, <1>3, <1>4, <2>1
<1>5. CASE w \notin holder[u]
  <2>1. job' = job /\ holder' = holder
    BY <1>5 DEF Leave
  <2> QED
    BY <1>1, <1>3, <1>5, <2>1
<1> QED
  BY <1>4, <1>5

\* What the invariant says of a user no step is about stays.
LEMMA JobKept ==
  ASSUME Base, NEW u \in Users, NEW v \in Users \ {u}, Local(u), TypeOK'
  PROVE  JobOK(v)'
<1>1. /\ request'[v] = request[v] /\ row'[v] = row[v] /\ job'[v] = job[v] /\ holder'[v] = holder[v]
  BY DEF Local
<1>2. \A w \in Worker : run'[w].user = v => run'[w] = run[w]
  BY EmailQueueAssumption DEF Local
<1>3. JobOK(v)
  BY DEF Base
<1>4. (\A w \in Worker : run[w].user = v =>
         /\ run[w].at # "idle" /\ job[v].state # "none"
         /\ run[w].at = "end" => job[v].done)'
  BY <1>1, <1>2, <1>3 DEF JobOK
<1> QED
  BY <1>1, <1>3, <1>4 DEF JobOK

\* So a step about u has to answer for u alone.
LEMMA BaseFromOne ==
  ASSUME Base, NEW u \in Users, Local(u), TypeOK', RunsOK', CopyOK', JobOK(u)'
  PROVE  Base'
<1>1. \A v \in Users : JobOK(v)'
  BY JobKept
<1> QED
  BY <1>1 DEF Base

-----------------------------------------------------------------------------
(* Types, locks and attempts are right in every state.                      *)

\* A request that fails, or writes its user, before the queue has seen it.
LEMMA BaseCreate ==
  ASSUME Base, NEW u \in Users, Create(u) \/ AddressTaken(u)
  PROVE  Base' /\ Local(u)
<1>1. \E to \in {"created", "failed"} :
        /\ request[u] = "idle" /\ request' = [request EXCEPT ![u] = to]
        /\ UNCHANGED <<row, job, holder, run, copy, faults, mails, texts, lost, refused, upset>>
  BY DEF Create, AddressTaken, Goes, queue, history
<1>2. TypeOK' /\ RunsOK' /\ CopyOK'
  BY <1>1 DEF Base, TypeOK, RunsOK, CopyOK, NoCopy
<1>3. Local(u)
  BY <1>1 DEF Base, TypeOK, Local
<1>4. JobOK(u) /\ request'[u] \in {"created", "failed"}
  BY <1>1 DEF Base, TypeOK
<1>5. JobOK(u)'
  BY <1>1, <1>4 DEF JobOK
<1> QED
  BY <1>2, <1>3, <1>5, BaseFromOne

\* The queue takes the job, and says so or not.
LEMMA BasePublish ==
  ASSUME Base, NEW u \in Users, Publish(u) \/ NotPublished(u)
  PROVE  /\ Base' /\ Local(u)
         /\ UNCHANGED <<row, holder, run, copy, history>>
         /\ \/ job'[u] = job[u]
            \/ /\ job[u].state = "none" /\ job'[u] \in Job
               /\ job'[u].state = "ready" /\ job'[u].done = job[u].done
<1>1. /\ \E to \in {"published", "failed"} :
           request[u] = "created" /\ request' = [request EXCEPT ![u] = to]
      /\ job' = job \/ job' = [job EXCEPT ![u].state = "ready"]
      /\ faults' \in 0..MaxFaults
      /\ UNCHANGED <<row, holder, run, copy, mails, texts, lost, refused, upset>>
  <2>1. CASE Publish(u)
    BY <2>1 DEF Base, TypeOK, Publish, Goes, history
  <2>2. CASE NotPublished(u)
    BY <2>2, EmailQueueAssumption DEF Base, TypeOK, NotPublished, Goes, Fault, history
  <2> QED
    BY <2>1, <2>2
<1>2. /\ JobOK(u) /\ job[u] \in Job /\ job \in [Users -> Job] /\ job[u].state = "none"
  BY <1>1 DEF Base, TypeOK, JobOK
<1> DEFINE ready == [job[u] EXCEPT !.state = "ready"]
<1>3. /\ ready \in Job /\ ready.state = "ready" /\ ready.done = job[u].done
      /\ ready.made = job[u].made /\ ready.stalls = job[u].stalls
  BY <1>2 DEF Job
<1>4. job' = job \/ job' = [job EXCEPT ![u] = ready]
  BY <1>1
<1> HIDE DEF ready
<1>5. /\ job' \in [Users -> Job] /\ job'[u] \in {job[u], ready}
      /\ \A v \in Users \ {u} : job'[v] = job[v]
  BY <1>2, <1>3, <1>4
<1>6. TypeOK' /\ RunsOK' /\ CopyOK'
  <2>1. RunsOK' /\ CopyOK'
    BY <1>1 DEF Base, RunsOK, CopyOK, NoCopy
  <2> QED
    <3>1. request' \in [Users -> {"idle", "created", "published", "committed", "failed"}]
      BY <1>1 DEF Base, TypeOK
    <3> QED
      BY <1>1, <1>5, <2>1, <3>1 DEF Base, TypeOK
<1>7. Local(u)
  BY <1>1, <1>5 DEF Base, TypeOK, Local
<1>8. request[u] = "created" /\ request'[u] \in {"published", "failed"}
  BY <1>1 DEF Base, TypeOK
<1>9. JobOK(u)'
  <2>1. row[u] = NoRow /\ holder[u] = {} /\ \A w \in Worker : run[w].user # u
    BY <1>2, <1>8 DEF JobOK
  <2> QED
    BY <1>1, <1>2, <1>3, <1>5, <1>8, <2>1 DEF JobOK
<1> QED
  BY <1>1, <1>2, <1>3, <1>5, <1>6, <1>7, <1>9, BaseFromOne DEF history

\* The transaction of the request ends.
LEMMA BaseFinish ==
  ASSUME Base, NEW u \in Users, Finish(u)
  PROVE  /\ Base' /\ Local(u)
         /\ UNCHANGED <<job, holder, run, copy, history>>
         /\ row'[u] = row[u] \/ row[u] = NoRow
<1>1. /\ \E to \in {"committed", "failed"} :
           /\ request[u] = "published" /\ request' = [request EXCEPT ![u] = to]
           /\ \/ row' = row
              \/ to = "committed" /\ row' = [row EXCEPT ![u] = NewRow(u)]
      /\ UNCHANGED <<job, holder, run, copy, faults, history>>
  BY DEF Finish, Commit, Abort, Goes, queue
<1>2. NewRow(u) \in Row /\ NewRow(u) # NoRow
  <2>1. NewRow(u) \in Row
    BY DEF NewRow, Row, Status
  <2> QED
    BY <2>1, EmailQueueAssumption
<1>3. TypeOK' /\ RunsOK' /\ CopyOK'
  <2>1. \A v \in Users : row[v] # NoRow => row'[v] # NoRow
    BY <1>1, <1>2 DEF Base, TypeOK
  <2>2. RunsOK' /\ CopyOK'
    BY <1>1, <2>1 DEF Base, RunsOK, CopyOK, NoCopy
  <2> QED
    BY <1>1, <1>2, <2>2 DEF Base, TypeOK, history
<1>4. Local(u)
  BY <1>1 DEF Base, TypeOK, Local, history
<1>5. JobOK(u) /\ request[u] = "published" /\ row[u] = NoRow
  BY <1>1 DEF Base, JobOK
<1>6. /\ request'[u] \in {"committed", "failed"}
      /\ row'[u] = row[u] \/ request'[u] = "committed"
  BY <1>1 DEF Base, TypeOK
<1>7. JobOK(u)'
  BY <1>1, <1>5, <1>6 DEF JobOK
<1> QED
  BY <1>1, <1>3, <1>4, <1>5, <1>7, BaseFromOne

\* Another request reads the user and writes it back.
LEMMA BaseRead ==
  ASSUME Base, NEW u \in Users, ReadUser(u)
  PROVE  Base' /\ Local(u) /\ UNCHANGED <<request, row, queue, history>>
<1>1. /\ row[u] # NoRow /\ copy' = [user |-> u, as |-> row[u]]
      /\ faults' \in 0..MaxFaults /\ UNCHANGED <<request, row, queue, history>>
  BY EmailQueueAssumption DEF Base, TypeOK, ReadUser, Fault
<1>2. copy' \in [user : Users \cup {Nobody}, as : Row \cup {NoRow}] /\ CopyOK'
  BY <1>1 DEF Base, TypeOK, CopyOK
<1>3. TypeOK' /\ RunsOK'
  <2>1. RunsOK'
    BY <1>1 DEF Base, RunsOK, queue
  <2> QED
    BY <1>1, <1>2, <2>1 DEF Base, TypeOK, queue, history
<1>4. Local(u)
  BY <1>1 DEF Local, queue, history
<1>5. JobOK(u)'
  BY <1>1 DEF Base, JobOK, queue
<1> QED
  BY <1>1, <1>2, <1>3, <1>4, <1>5, BaseFromOne

LEMMA BaseSave ==
  ASSUME Base, SaveUser
  PROVE  /\ copy.user \in Users /\ Base' /\ Local(copy.user)
         /\ UNCHANGED <<job, holder, run, mails, texts, lost, refused>>
         /\ row'[copy.user] # row[copy.user] => "overwritten" \in upset'[copy.user]
         /\ upset[copy.user] \subseteq upset'[copy.user]
<1>1. PICK u \in Users : u = copy.user
  BY DEF Base, CopyOK, SaveUser
<1>2. /\ row' = [row EXCEPT ![u] = copy.as] /\ copy' = NoCopy
      /\ upset' = [upset EXCEPT ![u] = IF row[u] = copy.as THEN @ ELSE @ \cup {"overwritten"}]
      /\ UNCHANGED <<request, job, holder, run, faults, mails, texts, lost, refused>>
  BY <1>1 DEF SaveUser, queue
<1>3. /\ copy.as \in Row /\ row \in [Users -> Row \cup {NoRow}]
      /\ upset \in [Users -> SUBSET {"stall", "overwritten", "unmarked"}]
      /\ JobOK(u)
  BY <1>1 DEF Base, TypeOK, CopyOK, SaveUser
<1>4. row[u] # NoRow /\ request[u] = "committed"
  BY <1>1, <1>3 DEF SaveUser, Base, CopyOK, JobOK
<1>5. row' \in [Users -> Row \cup {NoRow}] /\ row'[u] = copy.as /\ \A v \in Users \ {u} : row'[v] = row[v]
  BY <1>1, <1>2, <1>3
<1> DEFINE now == IF row[u] = copy.as THEN upset[u] ELSE upset[u] \cup {"overwritten"}
<1>6. /\ now \in SUBSET {"stall", "overwritten", "unmarked"} /\ upset[u] \subseteq now
      /\ row[u] # copy.as => "overwritten" \in now
  BY <1>1, <1>3
<1>7. upset' = [upset EXCEPT ![u] = now]
  BY <1>2
<1> HIDE DEF now
<1>8. /\ upset' \in [Users -> SUBSET {"stall", "overwritten", "unmarked"}]
      /\ upset'[u] = now /\ \A v \in Users \ {u} : upset'[v] = upset[v]
  BY <1>1, <1>3, <1>6, <1>7
<1>9. RunsOK' /\ CopyOK'
  BY <1>2 DEF Base, RunsOK, CopyOK, NoCopy
<1>10. TypeOK'
  <2>1. copy' \in [user : Users \cup {Nobody}, as : Row \cup {NoRow}]
    BY <1>2 DEF NoCopy
  <2> QED
    BY <1>2, <1>5, <1>8, <2>1 DEF Base, TypeOK
<1>11. Local(u)
  BY <1>2, <1>5, <1>8 DEF Local
<1>12. JobOK(u)'
  BY <1>2, <1>3, <1>4, <1>5 DEF JobOK
<1>13. Base'
  BY <1>1, <1>9, <1>10, <1>11, <1>12, BaseFromOne
<1> QED
  BY <1>1, <1>2, <1>5, <1>6, <1>8, <1>11, <1>13

\* A worker takes a job that is ready.
LEMMA BaseTake ==
  ASSUME Base, NEW u \in Users, NEW w \in Worker, Take(w, u)
  PROVE  /\ Base' /\ Local(u)
         /\ run[w] = Idle /\ job[u].state = "ready"
         /\ job'[u].state = "active" /\ job'[u].done = job[u].done
         /\ holder'[u] = {w}
         /\ run'[w].user = u /\ run'[w].at = FirstStep(u)
         /\ \A x \in Worker \ {w} : run'[x] = run[x]
         /\ UNCHANGED <<request, row, copy, history>>
<1> DEFINE taken == [job[u] EXCEPT !.state = "active"]
           first == [user |-> u, at |-> FirstStep(u)]
<1>1. /\ run[w] = Idle /\ job[u].state = "ready"
      /\ job' = [job EXCEPT ![u] = taken] /\ holder' = [holder EXCEPT ![u] = {w}]
      /\ run' = [run EXCEPT ![w] = first]
      /\ UNCHANGED <<request, row, copy, faults, mails, texts, lost, refused, upset>>
  BY DEF Take, history
<1>2. /\ job[u] \in Job /\ JobOK(u) /\ job \in [Users -> Job]
      /\ holder \in [Users -> SUBSET Worker] /\ run \in [Worker -> Run]
  BY DEF Base, TypeOK
<1>3. /\ taken \in Job /\ taken.state = "active" /\ taken.done = job[u].done
      /\ taken.made = job[u].made /\ taken.stalls = job[u].stalls
  BY <1>2 DEF Job
<1>4. /\ first \in Run /\ first.user = u /\ first.at = FirstStep(u)
      /\ FirstStep(u) \in {"mail", "end"} /\ (FirstStep(u) = "end" => job[u].done)
  BY DEF Run, FirstStep
<1> HIDE DEF taken, first
<1>5. /\ job' \in [Users -> Job] /\ job'[u] = taken
      /\ holder' \in [Users -> SUBSET Worker] /\ holder'[u] = {w}
      /\ run' \in [Worker -> Run] /\ run'[w] = first
      /\ \A v \in Users \ {u} : job'[v] = job[v] /\ holder'[v] = holder[v]
      /\ \A x \in Worker \ {w} : run'[x] = run[x]
  BY <1>1, <1>2, <1>3, <1>4
<1>6. TypeOK'
  BY <1>1, <1>5 DEF Base, TypeOK
<1>7. RunsOK' /\ CopyOK'
  BY <1>1, <1>4, <1>5, EmailQueueAssumption DEF Base, RunsOK, CopyOK, NoCopy
<1>8. Local(u)
  BY <1>1, <1>4, <1>5 DEF Local, Idle
<1>9. JobOK(u)'
  BY <1>1, <1>2, <1>3, <1>4, <1>5 DEF JobOK
<1> QED
  BY <1>1, <1>3, <1>4, <1>5, <1>6, <1>7, <1>8, <1>9, BaseFromOne DEF history

\* A run ends with a result that the queue may take.
LEMMA BaseLeave ==
  ASSUME Base, NEW u \in Users, NEW w \in Worker, NEW result \in Job,
         run[w].user = u, Leave(w, u, result),
         result.state \in {"ready", "completed", "failed"}, result.done = job[u].done,
         result.state = "completed" => job[u].done,
         w \in holder[u] /\ result.state = "ready" => result.made < Attempts /\ result.stalls <= MaxStalled,
         lost' \in [Users -> Nat], \A v \in Users \ {u} : lost'[v] = lost[v],
         UNCHANGED <<request, row, copy, faults, mails, texts, refused, upset>>
  PROVE  /\ Base' /\ Local(u) /\ Frees(w)
         /\ w \in holder[u] => job[u].state = "active" /\ job'[u] = result /\ holder'[u] = {}
         /\ w \notin holder[u] => job'[u] = job[u] /\ holder'[u] = holder[u]
<1>1. /\ Frees(w)
      /\ job' \in [Users -> Job] /\ holder' \in [Users -> SUBSET Worker]
      /\ \A v \in Users \ {u} : job'[v] = job[v] /\ holder'[v] = holder[v]
      /\ w \in holder[u] => job'[u] = result /\ holder'[u] = {}
      /\ w \notin holder[u] => job'[u] = job[u] /\ holder'[u] = holder[u]
  BY Left
<1>2. /\ run' \in [Worker -> Run] /\ run'[w] = Idle
      /\ \A x \in Worker \ {w} : run'[x] = run[x]
  BY <1>1 DEF Frees
<1>3. TypeOK'
  BY <1>1, <1>2 DEF Base, TypeOK
<1>4. RunsOK' /\ CopyOK'
  BY <1>2 DEF Base, RunsOK, CopyOK, NoCopy
<1>5. Local(u)
  BY <1>1, <1>2 DEF Local, Idle
<1>6. JobOK(u) /\ run'[w].user # u
  BY <1>2, EmailQueueAssumption DEF Base, Idle
<1>7. w \in holder[u] => job[u].state = "active"
  BY <1>6 DEF JobOK
<1>8. \A x \in Worker : run'[x].user = u => run[x].user = u /\ run'[x] = run[x]
  BY <1>2, <1>6
<1>9. JobOK(u)'
  <2>1. CASE w \in holder[u]
    BY <2>1, <1>1, <1>6, <1>7, <1>8 DEF JobOK
  <2>2. CASE w \notin holder[u]
    BY <2>2, <1>1, <1>6, <1>8 DEF JobOK
  <2> QED
    BY <2>1, <2>2
<1> QED
  BY <1>1, <1>3, <1>4, <1>5, <1>7, <1>9, BaseFromOne

\* Complete: the result of a run that is through.
LEMMA BaseComplete ==
  ASSUME Base, NEW w \in Worker, Complete(w)
  PROVE  \E u \in Users :
           /\ Base' /\ Local(u) /\ Frees(w) /\ run[w].user = u /\ run[w].at = "end"
           /\ job[u].done /\ job'[u].done
           /\ job'[u].state = job[u].state \/ (job[u].state = "active" /\ job'[u].state = "completed")
           /\ w \in holder[u] => holder'[u] = {}
           /\ w \notin holder[u] => holder'[u] = holder[u]
           /\ UNCHANGED <<request, row, history>>
<1>1. run[w].at = "end"
  BY DEF Complete
<1>2. PICK u \in Users : u = run[w].user
  BY <1>1, UserOfRun
<1> DEFINE result == [job[u] EXCEPT !.state = "completed"]
<1>3. /\ Leave(w, u, result)
      /\ UNCHANGED <<request, row, copy, faults, mails, texts, lost, refused, upset>>
  BY <1>2 DEF Complete, history
<1>4. job[u] \in Job /\ job[u].done /\ lost \in [Users -> Nat]
  BY <1>1, <1>2 DEF Base, TypeOK, JobOK
<1>5. result \in Job /\ result.state = "completed" /\ result.done = job[u].done
  BY <1>4 DEF Job
<1> HIDE DEF result
<1>6. /\ Base' /\ Local(u) /\ Frees(w)
      /\ w \in holder[u] => job[u].state = "active" /\ job'[u] = result /\ holder'[u] = {}
      /\ w \notin holder[u] => job'[u] = job[u] /\ holder'[u] = holder[u]
  <2>1. /\ lost' \in [Users -> Nat] /\ \A v \in Users \ {u} : lost'[v] = lost[v]
        /\ UNCHANGED <<request, row, copy, faults, mails, texts, refused, upset>>
    BY <1>3, <1>4
  <2>2. /\ result.state \in {"ready", "completed", "failed"}
        /\ result.state = "completed" => job[u].done
        /\ w \in holder[u] /\ result.state = "ready" => result.made < Attempts /\ result.stalls <= MaxStalled
    BY <1>4, <1>5
  <2>3. run[w].user = u /\ Leave(w, u, result)
    BY <1>2, <1>3
  <2> QED
    BY <1>5, <2>1, <2>2, <2>3, BaseLeave
<1>7. job'[u].done /\ (job'[u].state = job[u].state \/ (job[u].state = "active" /\ job'[u].state = "completed"))
  <2>1. CASE w \in holder[u]
    BY <1>4, <1>5, <1>6, <2>1
  <2>2. CASE w \notin holder[u]
    BY <1>4, <1>6, <2>2
  <2> QED
    BY <2>1, <2>2
<1>8. UNCHANGED <<request, row, history>>
  BY <1>3 DEF history
<1> QED
  BY <1>1, <1>2, <1>4, <1>6, <1>7, <1>8

\* Fail: the run ends badly, and is counted if the job had no progress.
LEMMA BaseFail ==
  ASSUME Base, NEW w \in Worker, Fail(w)
  PROVE  \E u \in Users :
           /\ Base' /\ Local(u) /\ Frees(w) /\ run[w].user = u /\ run[w].at \in {"error", "timeout"}
           /\ lost'[u] = IF job[u].done THEN lost[u] ELSE lost[u] + 1
           /\ job'[u].done = job[u].done
           /\ w \in holder[u] => /\ holder'[u] = {} /\ job[u].state = "active"
                                 /\ job'[u].state \in {"ready", "failed"}
           /\ w \notin holder[u] => job'[u] = job[u] /\ holder'[u] = holder[u]
           /\ UNCHANGED <<request, row, mails, texts, refused, upset>>
<1>1. run[w].at \in {"error", "timeout"}
  BY DEF Fail
<1>2. PICK u \in Users : u = run[w].user
  BY <1>1, UserOfRun
<1>3. job[u] \in Job /\ JobOK(u) /\ lost \in [Users -> Nat] /\ job[u].made \in 0..Attempts
  BY DEF Base, TypeOK, Job
<1>4. /\ lost' = [lost EXCEPT ![u] = IF job[u].done THEN @ ELSE @ + 1]
      /\ UNCHANGED <<request, row, copy, faults, mails, texts, refused, upset>>
  BY <1>2 DEF Fail, Lose
<1>5. /\ lost' \in [Users -> Nat] /\ \A v \in Users \ {u} : lost'[v] = lost[v]
      /\ lost'[u] = IF job[u].done THEN lost[u] ELSE lost[u] + 1
  BY <1>3, <1>4
<1>6. PICK state \in {"ready", "failed"} :
        /\ Leave(w, u, [job[u] EXCEPT !.made = job[u].made + 1, !.state = state])
        /\ state = "ready" => job[u].made + 1 # Attempts
  <2>1. CASE Leave(w, u, [job[u] EXCEPT !.made = job[u].made + 1, !.state = "failed"])
    BY <2>1
  <2>2. CASE ~Leave(w, u, [job[u] EXCEPT !.made = job[u].made + 1, !.state = "failed"])
    <3>1. Leave(w, u, [job[u] EXCEPT !.made = job[u].made + 1,
                                     !.state = IF job[u].made + 1 = Attempts THEN "failed" ELSE "ready"])
      BY <1>2, <2>2 DEF Fail
    <3>2. job[u].made + 1 # Attempts
      BY <3>1, <2>2
    <3> QED
      BY <3>1, <3>2
  <2> QED
    BY <2>1, <2>2
<1>7. CASE w \in holder[u]
  <2>1. job[u].state = "active" /\ job[u].made < Attempts /\ job[u].stalls <= MaxStalled
    BY <1>3, <1>7 DEF JobOK
  <2> DEFINE result == [job[u] EXCEPT !.made = job[u].made + 1, !.state = state]
  <2>2. /\ result \in Job /\ result.state = state /\ result.done = job[u].done
        /\ result.made = job[u].made + 1 /\ result.stalls = job[u].stalls
    <3>1. job[u].made + 1 \in 0..Attempts
      BY <1>3, <2>1, EmailQueueAssumption
    <3> QED
      BY <1>3, <3>1 DEF Job
  <2>3. result.state = "ready" => result.made < Attempts /\ result.stalls <= MaxStalled
    BY <1>3, <1>6, <2>1, <2>2, EmailQueueAssumption
  <2>4. Leave(w, u, result)
    BY <1>6
  <2> HIDE DEF result
  <2>5. /\ Base' /\ Local(u) /\ Frees(w)
        /\ job'[u] = result /\ holder'[u] = {}
    <3>1. result.state \in {"ready", "completed", "failed"} /\ (result.state = "completed" => job[u].done)
      BY <2>2
    <3> QED
      BY <1>2, <1>4, <1>5, <1>7, <2>2, <2>3, <2>4, <3>1, BaseLeave
  <2> QED
    BY <1>1, <1>2, <1>4, <1>5, <1>7, <2>1, <2>2, <2>5
<1>8. CASE w \notin holder[u]
  <2>1. \A other \in Job : Leave(w, u, other)
    BY <1>6, <1>8 DEF Leave
  <2> DEFINE result == [job[u] EXCEPT !.state = "failed"]
  <2>2. result \in Job /\ result.state = "failed" /\ result.done = job[u].done /\ Leave(w, u, result)
    BY <1>3, <2>1 DEF Job
  <2> HIDE DEF result
  <2>3. Base' /\ Local(u) /\ Frees(w) /\ job'[u] = job[u] /\ holder'[u] = holder[u]
    BY <1>2, <1>4, <1>5, <1>8, <2>2, BaseLeave
  <2> QED
    BY <1>1, <1>2, <1>4, <1>5, <1>8, <2>3
<1> QED
  BY <1>7, <1>8

\* A worker dies.
LEMMA BaseCrash ==
  ASSUME Base, NEW w \in Worker, Crash(w)
  PROVE  \E u \in Users :
           /\ Base' /\ Local(u) /\ Frees(w) /\ run[w].user = u
           /\ UNCHANGED <<request, row, job, holder, history>>
<1>1. /\ run[w] # Idle /\ run' = [run EXCEPT ![w] = Idle] /\ faults' \in 0..MaxFaults
      /\ UNCHANGED <<request, row, job, holder, copy, mails, texts, lost, refused, upset>>
  BY EmailQueueAssumption DEF Base, TypeOK, Crash, Fault, history
<1>2. PICK u \in Users : u = run[w].user
  BY <1>1, UserOfRun
<1>3. Idle \in Run /\ run \in [Worker -> Run]
  BY DEF Idle, Run, Base, TypeOK
<1>4. /\ run' \in [Worker -> Run] /\ run'[w] = Idle /\ \A x \in Worker \ {w} : run'[x] = run[x]
  BY <1>1, <1>3
<1>5. TypeOK'
  BY <1>1, <1>4 DEF Base, TypeOK
<1>6. RunsOK' /\ CopyOK'
  BY <1>1, <1>4 DEF Base, RunsOK, CopyOK, NoCopy
<1>7. Local(u)
  BY <1>1, <1>2, <1>4 DEF Local, Idle
<1>8. JobOK(u) /\ \A x \in Worker : run'[x].user = u => run'[x] = run[x]
  BY <1>4, EmailQueueAssumption DEF Base, Idle
<1>9. JobOK(u)'
  BY <1>1, <1>8 DEF JobOK
<1>10. Base'
  BY <1>5, <1>6, <1>7, <1>9, BaseFromOne
<1> QED
  BY <1>1, <1>2, <1>4, <1>7, <1>10 DEF Frees, history

\* The lock of an active job has expired.
LEMMA BaseStall ==
  ASSUME Base, NEW u \in Users, Stall(u)
  PROVE  /\ Base' /\ Local(u) /\ job[u].state = "active"
         /\ job'[u].state \in {"ready", "failed"} /\ job'[u].done = job[u].done
         /\ lost'[u] = IF job[u].done THEN lost[u] ELSE lost[u] + 1
         /\ "stall" \in upset'[u]
         /\ UNCHANGED <<request, row, run, mails, texts, refused>>
<1> DEFINE stalls == job[u].stalls + 1
           stalled == [job[u] EXCEPT !.stalls = stalls,
                                     !.state = IF stalls > MaxStalled THEN "failed" ELSE "ready"]
<1>1. /\ job[u].state = "active"
      /\ job' = [job EXCEPT ![u] = stalled]
      /\ holder' = [holder EXCEPT ![u] = {}]
      /\ upset' = [upset EXCEPT ![u] = @ \cup {"stall"}]
      /\ lost' = [lost EXCEPT ![u] = IF job[u].done THEN @ ELSE @ + 1]
      /\ UNCHANGED <<request, row, run, copy, mails, texts, refused>>
  BY DEF Stall, Lose, Base, TypeOK
<1>2. faults' \in 0..MaxFaults
  BY EmailQueueAssumption DEF Stall, Fault, Base, TypeOK
<1>3. /\ job \in [Users -> Job] /\ job[u] \in Job /\ JobOK(u)
      /\ lost \in [Users -> Nat] /\ holder \in [Users -> SUBSET Worker]
      /\ upset \in [Users -> SUBSET {"stall", "overwritten", "unmarked"}]
  BY DEF Base, TypeOK
<1>4. job[u].made < Attempts /\ job[u].stalls <= MaxStalled /\ job[u].stalls \in Nat
  BY <1>1, <1>3 DEF JobOK, Job
<1>5. stalls \in 0..(MaxStalled + 1) /\ (stalls > MaxStalled \/ stalls <= MaxStalled)
  BY <1>4, EmailQueueAssumption
<1>6. /\ stalled \in Job /\ stalled.state \in {"ready", "failed"} /\ stalled.done = job[u].done
      /\ stalled.made = job[u].made /\ stalled.stalls = stalls
      /\ stalled.state = "ready" => stalls <= MaxStalled
  <2>1. CASE stalls > MaxStalled
    BY <1>3, <1>5, <2>1 DEF Job
  <2>2. CASE ~(stalls > MaxStalled)
    BY <1>3, <1>5, <2>2 DEF Job
  <2> QED
    BY <2>1, <2>2
<1> HIDE DEF stalled, stalls
<1>7. /\ job' \in [Users -> Job] /\ job'[u] = stalled
      /\ holder' \in [Users -> SUBSET Worker] /\ holder'[u] = {}
      /\ upset' \in [Users -> SUBSET {"stall", "overwritten", "unmarked"}] /\ "stall" \in upset'[u]
      /\ \A v \in Users \ {u} : /\ job'[v] = job[v] /\ holder'[v] = holder[v]
                                /\ upset'[v] = upset[v]
  BY <1>1, <1>3, <1>6
<1>8. /\ lost' \in [Users -> Nat] /\ \A v \in Users \ {u} : lost'[v] = lost[v]
      /\ lost'[u] = IF job[u].done THEN lost[u] ELSE lost[u] + 1
  BY <1>1, <1>3
<1>9. TypeOK'
  BY <1>1, <1>2, <1>7, <1>8 DEF Base, TypeOK
<1>10. RunsOK' /\ CopyOK'
  BY <1>1 DEF Base, RunsOK, CopyOK, NoCopy
<1>11. Local(u)
  BY <1>1, <1>7, <1>8 DEF Local
<1>12. JobOK(u)'
  BY <1>1, <1>3, <1>4, <1>6, <1>7 DEF JobOK
<1> QED
  BY <1>1, <1>6, <1>7, <1>8, <1>9, <1>10, <1>11, <1>12, BaseFromOne

\* A step of the handler: it may change the row, but neither makes nor deletes it.
LEMMA BaseMove ==
  ASSUME Base, NEW u \in Users, NEW w \in Worker, NEW to \in Places \ {"idle"},
         run[w].user = u, run[w].at # "idle", Stays(w, to),
         to = "end" => job'[u].done,
         row' \in [Users -> Row \cup {NoRow}], row'[u] = NoRow <=> row[u] = NoRow,
         job' = job \/ job' = [job EXCEPT ![u].done = TRUE],
         faults' \in 0..MaxFaults,
         mails' \in [Users -> Nat], texts' \in [Users -> Nat],
         refused' \in [Users -> SUBSET {"email", "sms"}],
         upset' \in [Users -> SUBSET {"stall", "overwritten", "unmarked"}],
         \A v \in Users \ {u} : /\ row'[v] = row[v] /\ mails'[v] = mails[v] /\ texts'[v] = texts[v]
                                /\ refused'[v] = refused[v] /\ upset'[v] = upset[v],
         UNCHANGED <<request, holder, copy, lost>>
  PROVE  /\ Base' /\ Local(u)
         /\ job'[u].state = job[u].state /\ (job[u].done => job'[u].done)
<1>1. /\ run' \in [Worker -> Run] /\ run'[w].user = u /\ run'[w].at = to
      /\ \A x \in Worker \ {w} : run'[x] = run[x]
  BY DEF Stays
<1>2. job \in [Users -> Job] /\ job[u] \in Job /\ JobOK(u)
  BY DEF Base, TypeOK
<1> DEFINE done == [job[u] EXCEPT !.done = TRUE]
<1>3. /\ done \in Job /\ done.state = job[u].state /\ done.made = job[u].made
      /\ done.stalls = job[u].stalls /\ done.done = TRUE
  BY <1>2 DEF Job
<1>4. job' = job \/ job' = [job EXCEPT ![u] = done]
  OBVIOUS
<1> HIDE DEF done
<1>5. /\ job' \in [Users -> Job] /\ job'[u] \in {job[u], done}
      /\ \A v \in Users \ {u} : job'[v] = job[v]
  BY <1>2, <1>3, <1>4
<1>6. /\ job'[u].state = job[u].state /\ job'[u].made = job[u].made
      /\ job'[u].stalls = job[u].stalls /\ (job[u].done => job'[u].done)
  <2>1. CASE job'[u] = job[u]
    BY <2>1
  <2>2. CASE job'[u] = done
    BY <1>3, <2>2
  <2> QED
    BY <1>5, <2>1, <2>2
<1>7. TypeOK'
  BY <1>1, <1>5 DEF Base, TypeOK
<1>8. RunsOK'
  BY <1>1, EmailQueueAssumption DEF Base, RunsOK
<1>9. CopyOK'
  <2>1. \A v \in Users : row'[v] = NoRow <=> row[v] = NoRow
    OBVIOUS
  <2> QED
    BY <2>1 DEF Base, CopyOK, NoCopy
<1>10. Local(u)
  BY <1>1, <1>5 DEF Local
<1>11. JobOK(u)'
  <2>1. \A x \in Worker : run'[x].user = u =>
          /\ run'[x].at # "idle" /\ job'[u].state # "none"
          /\ run'[x].at = "end" => job'[u].done
    <3> SUFFICES ASSUME NEW x \in Worker, run'[x].user = u
                 PROVE  /\ run'[x].at # "idle" /\ job'[u].state # "none"
                        /\ run'[x].at = "end" => job'[u].done
      OBVIOUS
    <3>1. CASE x = w
      BY <1>1, <1>2, <1>6, <3>1 DEF JobOK
    <3>2. CASE x # w
      BY <1>1, <1>2, <1>6, <3>2 DEF JobOK
    <3> QED
      BY <3>1, <3>2
  <2> QED
    BY <1>2, <1>6, <2>1 DEF JobOK
<1> QED
  BY <1>6, <1>7, <1>8, <1>9, <1>10, <1>11, BaseFromOne

\* SendMail: it was delivered, refused by the provider, or there is none.
LEMMA BaseSendMail ==
  ASSUME Base, NEW w \in Worker, SendMail(w)
  PROVE  \E u \in Users :
           /\ Base' /\ Local(u) /\ run[w].user = u /\ run[w].at = "mail"
           /\ \/ /\ Stays(w, "mailed") /\ mails'[u] = mails[u] + 1 /\ refused'[u] = refused[u]
              \/ /\ Stays(w, "mailed") /\ mails'[u] = mails[u] /\ refused'[u] = refused[u] \cup {"email"}
              \/ /\ Stays(w, "mailError") /\ mails'[u] = mails[u] /\ refused'[u] = refused[u]
           /\ UNCHANGED <<request, row, job, holder, texts, lost, upset>>
<1>1. run[w].at = "mail"
  BY DEF SendMail
<1>2. PICK u \in Users : u = run[w].user
  BY <1>1, UserOfRun
<1>3. /\ mails \in [Users -> Nat] /\ refused \in [Users -> SUBSET {"email", "sms"}]
      /\ faults \in 0..MaxFaults
  BY DEF Base, TypeOK
<1>4. UNCHANGED <<request, row, job, holder, copy, texts, lost, upset>>
  BY DEF SendMail
<1>5. \/ /\ Moves(w, "mail", "mailed") /\ mails' = [mails EXCEPT ![u] = @ + 1]
         /\ refused' = refused /\ faults' \in 0..MaxFaults
      \/ /\ Moves(w, "mail", "mailed") /\ refused' = [refused EXCEPT ![u] = @ \cup {"email"}]
         /\ mails' = mails /\ faults' \in 0..MaxFaults
      \/ /\ Moves(w, "mail", "mailError") /\ refused' = refused /\ mails' = mails
         /\ faults' \in 0..MaxFaults
  BY <1>2, <1>3, EmailQueueAssumption DEF SendMail, Fault
<1>6. PICK to \in {"mailed", "mailError"} :
        /\ Moves(w, "mail", to)
        /\ \/ to = "mailed" /\ mails'[u] = mails[u] + 1 /\ refused'[u] = refused[u]
           \/ to = "mailed" /\ mails'[u] = mails[u] /\ refused'[u] = refused[u] \cup {"email"}
           \/ to = "mailError" /\ mails'[u] = mails[u] /\ refused'[u] = refused[u]
  BY <1>3, <1>5
<1>7. /\ mails' \in [Users -> Nat] /\ refused' \in [Users -> SUBSET {"email", "sms"}]
      /\ \A v \in Users \ {u} : mails'[v] = mails[v] /\ refused'[v] = refused[v]
      /\ faults' \in 0..MaxFaults
  BY <1>3, <1>5
<1>8. to \in Places \ {"idle"} /\ "mail" \in Places \ {"idle"}
  BY DEF Places
<1>9. Stays(w, to)
  BY <1>6, <1>8, Moved
<1>10. Base' /\ Local(u)
  BY <1>1, <1>2, <1>4, <1>6, <1>7, <1>8, <1>9, BaseMove DEF Base, TypeOK
<1> QED
  BY <1>1, <1>2, <1>4, <1>6, <1>9, <1>10

\* SendText: it was delivered or refused, or there is no telephone.
LEMMA BaseSendText ==
  ASSUME Base, NEW w \in Worker, SendText(w)
  PROVE  \E u \in Users :
           /\ Base' /\ Local(u) /\ run[w].user = u /\ run[w].at = "text" /\ Stays(w, "texted")
           /\ \/ texts'[u] = texts[u] + 1 /\ refused'[u] = refused[u]
              \/ texts'[u] = texts[u] /\ refused'[u] = refused[u] \cup {"sms"}
              \/ u \notin HasPhone /\ texts'[u] = texts[u] /\ refused'[u] = refused[u]
           /\ UNCHANGED <<request, row, job, holder, mails, lost, upset>>
<1>1. Moves(w, "text", "texted")
  BY DEF SendText
<1>2. Stays(w, "texted") /\ run[w].at = "text"
  BY <1>1, Moved DEF Places
<1>3. PICK u \in Users : u = run[w].user
  BY <1>2, UserOfRun
<1>4. /\ texts \in [Users -> Nat] /\ refused \in [Users -> SUBSET {"email", "sms"}]
      /\ faults \in 0..MaxFaults
  BY DEF Base, TypeOK
<1>5. UNCHANGED <<request, row, job, holder, copy, mails, lost, upset>>
  BY DEF SendText
<1>6. /\ faults' \in 0..MaxFaults
      /\ \/ u \notin HasPhone /\ texts' = texts /\ refused' = refused
         \/ texts' = [texts EXCEPT ![u] = @ + 1] /\ refused' = refused
         \/ refused' = [refused EXCEPT ![u] = @ \cup {"sms"}] /\ texts' = texts
  BY <1>3, <1>4, EmailQueueAssumption DEF SendText, Fault
<1>7. /\ texts' \in [Users -> Nat] /\ refused' \in [Users -> SUBSET {"email", "sms"}]
      /\ \A v \in Users \ {u} : texts'[v] = texts[v] /\ refused'[v] = refused[v]
  BY <1>4, <1>6
<1>8. \/ texts'[u] = texts[u] + 1 /\ refused'[u] = refused[u]
      \/ texts'[u] = texts[u] /\ refused'[u] = refused[u] \cup {"sms"}
      \/ u \notin HasPhone /\ texts'[u] = texts[u] /\ refused'[u] = refused[u]
  BY <1>4, <1>6
<1>9. Base' /\ Local(u)
  BY <1>2, <1>3, <1>5, <1>6, <1>7, BaseMove DEF Base, TypeOK, Places
<1> QED
  BY <1>2, <1>3, <1>5, <1>8, <1>9

\* Note: one column of the row is written, or the row stays as it is.
LEMMA Noted ==
  ASSUME Base, NEW w \in Worker, NEW from \in Places \ {"idle"},
         NEW ok \in Places \ {"idle"}, NEW failed \in Places \ {"idle"},
         NEW column \in {"email", "sms"}, NEW status \in Status,
         Note(w, from, ok, failed, column, status)
  PROVE  \E u \in Users :
           /\ run[w].user = u /\ run[w].at = from
           /\ row' \in [Users -> Row \cup {NoRow}] /\ \A v \in Users \ {u} : row'[v] = row[v]
           /\ \/ /\ Stays(w, ok) /\ row[u] \in Row /\ row'[u] \in Row /\ row'[u][column] = status
                 /\ \A c \in {"email", "sms"} \ {column} : row'[u][c] = row[u][c]
              \/ Stays(w, failed) /\ row'[u] = row[u]
           /\ faults' \in 0..MaxFaults
           /\ UNCHANGED <<request, job, holder, copy, mails, texts, lost, refused>>
<1>1. run[w].at = from
  BY DEF Note
<1>2. PICK u \in Users : u = run[w].user
  BY <1>1, UserOfRun
<1>3. row \in [Users -> Row \cup {NoRow}] /\ faults \in 0..MaxFaults
  BY DEF Base, TypeOK
<1>4. UNCHANGED <<request, job, holder, copy, mails, texts, lost, refused>>
  BY DEF Note
<1>5. \/ /\ row[u] # NoRow /\ Moves(w, from, ok) /\ faults' \in 0..MaxFaults
         /\ row' = [row EXCEPT ![u][column] = status]
      \/ Moves(w, from, failed) /\ row' = row /\ faults' \in 0..MaxFaults
  BY <1>2, <1>3, EmailQueueAssumption DEF Note, Fault
<1>6. CASE /\ row[u] # NoRow /\ Moves(w, from, ok) /\ faults' \in 0..MaxFaults
           /\ row' = [row EXCEPT ![u][column] = status]
  <2>1. Stays(w, ok)
    BY <1>6, Moved
  <2>2. row[u] \in Row
    BY <1>3, <1>6
  <2> DEFINE new == [row[u] EXCEPT ![column] = status]
  <2>3. /\ new \in Row /\ new[column] = status
        /\ \A c \in {"email", "sms"} \ {column} : new[c] = row[u][c]
    <3>1. CASE column = "email"
      BY <2>2, <3>1 DEF Row
    <3>2. CASE column = "sms"
      BY <2>2, <3>2 DEF Row
    <3> QED
      BY <3>1, <3>2
  <2>4. row' = [row EXCEPT ![u] = new]
    BY <1>6
  <2> HIDE DEF new
  <2>5. /\ row' \in [Users -> Row \cup {NoRow}] /\ row'[u] = new
        /\ \A v \in Users \ {u} : row'[v] = row[v]
    BY <1>3, <2>3, <2>4
  <2> QED
    <3>1. row'[u] \in Row /\ row'[u][column] = status
      BY <2>3, <2>5
    <3>2. \A c \in {"email", "sms"} \ {column} : row'[u][c] = row[u][c]
      BY <2>3, <2>5
    <3> QED
      BY <1>1, <1>2, <1>4, <1>6, <2>1, <2>2, <2>5, <3>1, <3>2
<1>7. CASE Moves(w, from, failed) /\ row' = row /\ faults' \in 0..MaxFaults
  <2>1. Stays(w, failed)
    BY <1>7, Moved
  <2> QED
    BY <1>1, <1>2, <1>3, <1>4, <1>7, <2>1
<1> QED
  BY <1>5, <1>6, <1>7

\* NoteMailed: the row says that the mail was sent, or the run goes to its catch block.
LEMMA BaseNoteMailed ==
  ASSUME Base, NEW w \in Worker, NoteMailed(w)
  PROVE  \E u \in Users :
           /\ Base' /\ Local(u) /\ run[w].user = u /\ run[w].at = "mailed"
           /\ \/ Stays(w, "text") /\ row'[u] \in Row /\ row'[u].email = "SENT"
              \/ Stays(w, "mailError") /\ row'[u] = row[u]
           /\ UNCHANGED <<request, job, holder, history>>
<1>1. Note(w, "mailed", "text", "mailError", "email", "SENT") /\ upset' = upset
  BY DEF NoteMailed
<1>2. PICK u \in Users :
           /\ run[w].user = u /\ run[w].at = "mailed"
           /\ row' \in [Users -> Row \cup {NoRow}] /\ \A v \in Users \ {u} : row'[v] = row[v]
           /\ \/ /\ Stays(w, "text") /\ row[u] \in Row /\ row'[u] \in Row /\ row'[u]["email"] = "SENT"
                 /\ \A c \in {"email", "sms"} \ {"email"} : row'[u][c] = row[u][c]
              \/ Stays(w, "mailError") /\ row'[u] = row[u]
           /\ faults' \in 0..MaxFaults
           /\ UNCHANGED <<request, job, holder, copy, mails, texts, lost, refused>>
  <2>1. /\ {"mailed", "text", "mailError"} \subseteq Places \ {"idle"}
        /\ "email" \in {"email", "sms"} /\ "SENT" \in Status
    BY DEF Places, Status
  <2> QED
    BY <1>1, <2>1, Noted
<1>3. row'[u] = NoRow <=> row[u] = NoRow
  BY <1>2, EmailQueueAssumption
<1>4. \A to \in {"text", "mailError"} : Stays(w, to) => Base' /\ Local(u)
  BY <1>1, <1>2, <1>3, BaseMove DEF Base, TypeOK, Places
<1> QED
  BY <1>1, <1>2, <1>4 DEF history

\* NoteTexted: the row says the same of the text message.
LEMMA BaseNoteTexted ==
  ASSUME Base, NEW w \in Worker, NoteTexted(w)
  PROVE  \E u \in Users :
           /\ Base' /\ Local(u) /\ run[w].user = u /\ run[w].at = "texted"
           /\ \/ /\ Stays(w, "progress") /\ row[u] \in Row /\ row'[u] \in Row
                 /\ row'[u].sms = (IF u \in HasPhone THEN "SENT" ELSE "NOT_PROVIDED")
                 /\ row'[u].email = row[u].email
              \/ Stays(w, "textError") /\ row'[u] = row[u]
           /\ UNCHANGED <<request, job, holder, history>>
<1> DEFINE status == IF run[w].user \in HasPhone THEN "SENT" ELSE "NOT_PROVIDED"
<1>1. Note(w, "texted", "progress", "textError", "sms", status) /\ upset' = upset
  BY DEF NoteTexted
<1>2. status \in Status
  BY DEF Status
<1>3. \E u \in Users :
           /\ run[w].user = u /\ run[w].at = "texted"
           /\ row' \in [Users -> Row \cup {NoRow}] /\ \A v \in Users \ {u} : row'[v] = row[v]
           /\ \/ /\ Stays(w, "progress") /\ row[u] \in Row /\ row'[u] \in Row /\ row'[u]["sms"] = status
                 /\ \A c \in {"email", "sms"} \ {"sms"} : row'[u][c] = row[u][c]
              \/ Stays(w, "textError") /\ row'[u] = row[u]
           /\ faults' \in 0..MaxFaults
           /\ UNCHANGED <<request, job, holder, copy, mails, texts, lost, refused>>
  <2> HIDE DEF status
  <2> QED
    BY <1>1, <1>2, Noted DEF Places
<1>4. PICK u \in Users :
           /\ run[w].user = u /\ run[w].at = "texted"
           /\ row' \in [Users -> Row \cup {NoRow}] /\ \A v \in Users \ {u} : row'[v] = row[v]
           /\ \/ /\ Stays(w, "progress") /\ row[u] \in Row /\ row'[u] \in Row /\ row'[u].sms = status
                 /\ row'[u].email = row[u].email
              \/ Stays(w, "textError") /\ row'[u] = row[u]
           /\ faults' \in 0..MaxFaults
           /\ UNCHANGED <<request, job, holder, copy, mails, texts, lost, refused>>
  BY <1>3
<1>5. row'[u] = NoRow <=> row[u] = NoRow
  BY <1>4, EmailQueueAssumption
<1>6. \A to \in {"progress", "textError"} : Stays(w, to) => Base' /\ Local(u)
  BY <1>1, <1>4, <1>5, BaseMove DEF Base, TypeOK, Places
<1> QED
  BY <1>1, <1>4, <1>6 DEF history

\* The catch blocks: the row says so, or a history does.
LEMMA BaseNoteError ==
  ASSUME Base, NEW w \in Worker, NoteMailError(w) \/ NoteTextError(w)
  PROVE  \E u \in Users :
           /\ Base' /\ Local(u) /\ run[w].user = u /\ run[w].at \in {"mailError", "textError"}
           /\ Stays(w, "error")
           /\ upset[u] \subseteq upset'[u] /\ upset'[u] \subseteq upset[u] \cup {"unmarked"}
           /\ upset'[u] = {} => SaysError(u)'
           /\ UNCHANGED <<request, job, holder, mails, texts, lost, refused>>
<1>1. PICK from \in {"mailError", "textError"}, column \in {"email", "sms"} :
        Note(w, from, "error", "error", column, "SEND_ERROR") /\ Unmarked(run[w].user, column)
  BY DEF NoteMailError, NoteTextError
<1>2. /\ {"error", from} \subseteq Places \ {"idle"} /\ "SEND_ERROR" \in Status
  BY DEF Places, Status
<1>3. PICK u \in Users :
           /\ run[w].user = u /\ run[w].at = from
           /\ row' \in [Users -> Row \cup {NoRow}] /\ \A v \in Users \ {u} : row'[v] = row[v]
           /\ \/ /\ Stays(w, "error") /\ row[u] \in Row /\ row'[u] \in Row /\ row'[u][column] = "SEND_ERROR"
                 /\ \A c \in {"email", "sms"} \ {column} : row'[u][c] = row[u][c]
              \/ Stays(w, "error") /\ row'[u] = row[u]
           /\ faults' \in 0..MaxFaults
           /\ UNCHANGED <<request, job, holder, copy, mails, texts, lost, refused>>
  BY <1>1, <1>2, Noted
<1>4. row'[u] = NoRow <=> row[u] = NoRow
  BY <1>3, EmailQueueAssumption
<1>5. upset \in [Users -> SUBSET {"stall", "overwritten", "unmarked"}]
  BY DEF Base, TypeOK
<1> DEFINE now == IF row'[u] # NoRow /\ row'[u][column] = "SEND_ERROR"
                  THEN upset[u] ELSE upset[u] \cup {"unmarked"}
<1>6. upset' = [upset EXCEPT ![u] = now]
  BY <1>1, <1>3 DEF Unmarked
<1>7. /\ now \in SUBSET {"stall", "overwritten", "unmarked"}
      /\ upset[u] \subseteq now /\ now \subseteq upset[u] \cup {"unmarked"}
      /\ now = {} => row'[u] # NoRow /\ row'[u][column] = "SEND_ERROR"
  BY <1>5
<1> HIDE DEF now
<1>8. /\ upset' \in [Users -> SUBSET {"stall", "overwritten", "unmarked"}]
      /\ upset'[u] = now /\ \A v \in Users \ {u} : upset'[v] = upset[v]
  BY <1>5, <1>6, <1>7
<1>9. upset'[u] = {} => SaysError(u)'
  <2>1. CASE column = "email"
    BY <1>7, <1>8, <2>1 DEF SaysError
  <2>2. CASE column = "sms"
    BY <1>7, <1>8, <2>2 DEF SaysError
  <2> QED
    BY <2>1, <2>2
<1>10. Base' /\ Local(u)
  <2>1. /\ run[w].at # "idle" /\ mails' \in [Users -> Nat] /\ texts' \in [Users -> Nat]
        /\ refused' \in [Users -> SUBSET {"email", "sms"}] /\ job' = job
    BY <1>3 DEF Base, TypeOK
  <2> QED
    BY <1>2, <1>3, <1>4, <1>8, <2>1, BaseMove
<1> QED
  BY <1>3, <1>7, <1>8, <1>9, <1>10

\* StoreProgress: the handler is done, or the run ends badly.
LEMMA BaseStoreProgress ==
  ASSUME Base, NEW w \in Worker, StoreProgress(w)
  PROVE  \E u \in Users :
           /\ Base' /\ Local(u) /\ run[w].user = u /\ run[w].at = "progress"
           /\ job'[u].state = job[u].state
           /\ \/ Stays(w, "end") /\ job'[u].done /\ upset'[u] = upset[u]
              \/ /\ Stays(w, "error") \/ Stays(w, "timeout")
                 /\ job' = job /\ upset'[u] = upset[u] \cup {"unmarked"}
           /\ UNCHANGED <<request, row, holder, mails, texts, lost, refused>>
<1>1. run[w].at = "progress"
  BY DEF StoreProgress
<1>2. PICK u \in Users : u = run[w].user
  BY <1>1, UserOfRun
<1>3. /\ upset \in [Users -> SUBSET {"stall", "overwritten", "unmarked"}]
      /\ faults \in 0..MaxFaults /\ job \in [Users -> Job] /\ job[u] \in Job
  BY DEF Base, TypeOK
<1>4. UNCHANGED <<request, row, holder, copy, mails, texts, lost, refused>>
  BY DEF StoreProgress
<1>5. PICK to \in {"end", "error", "timeout"} :
        /\ Moves(w, "progress", to) /\ faults' \in 0..MaxFaults
        /\ \/ to = "end" /\ job' = [job EXCEPT ![u].done = TRUE] /\ upset' = upset
           \/ /\ to # "end" /\ job' = job
              /\ upset' = [upset EXCEPT ![u] = @ \cup {"unmarked"}]
  BY <1>2, <1>3, EmailQueueAssumption DEF StoreProgress, Fault
<1>6. /\ to \in Places \ {"idle"} /\ "progress" \in Places \ {"idle"}
  BY DEF Places
<1>7. Stays(w, to)
  BY <1>5, <1>6, Moved
<1>8. to = "end" => job'[u].done
  <2>1. CASE to = "end"
    <3>1. job' = [job EXCEPT ![u] = [job[u] EXCEPT !.done = TRUE]] /\ [job[u] EXCEPT !.done = TRUE].done = TRUE
      BY <1>3, <1>5, <2>1 DEF Job
    <3>2. job'[u] = [job[u] EXCEPT !.done = TRUE]
      BY <1>3, <3>1
    <3> QED
      BY <3>1, <3>2, Zenon
  <2> QED
    BY <2>1
<1>9. /\ upset' \in [Users -> SUBSET {"stall", "overwritten", "unmarked"}]
      /\ \A v \in Users \ {u} : upset'[v] = upset[v]
      /\ IF to = "end" THEN upset'[u] = upset[u] ELSE upset'[u] = upset[u] \cup {"unmarked"}
  BY <1>3, <1>5
<1>10. Base' /\ Local(u) /\ job'[u].state = job[u].state
  <2>1. /\ run[w].at # "idle" /\ mails' \in [Users -> Nat] /\ texts' \in [Users -> Nat]
        /\ refused' \in [Users -> SUBSET {"email", "sms"}]
        /\ row' \in [Users -> Row \cup {NoRow}] /\ (row'[u] = NoRow <=> row[u] = NoRow)
        /\ \A v \in Users \ {u} : /\ row'[v] = row[v] /\ mails'[v] = mails[v] /\ texts'[v] = texts[v]
                                  /\ refused'[v] = refused[v] /\ upset'[v] = upset[v]
    BY <1>1, <1>4, <1>9 DEF Base, TypeOK
  <2>2. job' = job \/ job' = [job EXCEPT ![u].done = TRUE]
    BY <1>5
  <2> QED
    BY <1>2, <1>4, <1>5, <1>6, <1>7, <1>8, <1>9, <2>1, <2>2, BaseMove
<1>11. \/ Stays(w, "end") /\ job'[u].done /\ upset'[u] = upset[u]
       \/ /\ Stays(w, "error") \/ Stays(w, "timeout")
          /\ job' = job /\ upset'[u] = upset[u] \cup {"unmarked"}
  <2>1. CASE to = "end"
    BY <1>7, <1>8, <1>9, <2>1
  <2>2. CASE to # "end"
    BY <1>5, <1>7, <1>9, <2>2
  <2> QED
    BY <2>1, <2>2
<1> QED
  BY <1>1, <1>2, <1>4, <1>10, <1>11

LEMMA BaseInit == ASSUME Init PROVE Base
<1>1. TypeOK
  BY EmailQueueAssumption DEF Init, TypeOK, Job, Run, Idle, NoCopy
<1>2. RunsOK /\ CopyOK
  BY DEF Init, RunsOK, CopyOK
<1>3. \A u \in Users : JobOK(u)
  BY EmailQueueAssumption DEF Init, JobOK, Idle
<1> QED
  BY <1>1, <1>2, <1>3 DEF Base

\* Every step is about one user.
LEMMA BaseNext ==
  ASSUME Base, Next
  PROVE  Base'
<1>1. ASSUME NEW u \in Users,
             \/ Create(u) \/ AddressTaken(u) \/ Publish(u) \/ NotPublished(u) \/ Finish(u)
             \/ ReadUser(u) \/ Stall(u)
             \/ \E w \in Worker : Take(w, u)
      PROVE  Base'
  BY <1>1, BaseCreate, BasePublish, BaseFinish, BaseRead, BaseStall, BaseTake
<1>2. ASSUME NEW w \in Worker, Handle(w) \/ Crash(w)
      PROVE  Base'
  BY <1>2, BaseSendMail, BaseNoteMailed, BaseNoteError, BaseSendText, BaseNoteTexted,
     BaseStoreProgress, BaseComplete, BaseFail, BaseCrash DEF Handle
<1>3. ASSUME SaveUser PROVE Base'
  BY <1>3, BaseSave
<1> QED
  BY <1>1, <1>2, <1>3 DEF Next

LEMMA BaseStutters ==
  ASSUME Base, UNCHANGED vars
  PROVE  Base'
<1>1. UNCHANGED <<request, row, job, holder, run, copy, faults, mails, texts, lost, refused, upset>>
  BY DEF vars, queue, history
<1>2. TypeOK'
  BY <1>1 DEF Base, TypeOK
<1>3. RunsOK' /\ CopyOK'
  BY <1>1 DEF Base, RunsOK, CopyOK, NoCopy
<1>4. \A u \in Users : JobOK(u)'
  BY <1>1 DEF Base, JobOK
<1> QED
  BY <1>2, <1>3, <1>4 DEF Base

\* Requests, rows, jobs, runs and histories keep their types: a job that may still run has
\* attempts and stalls left (BullMQ; queue.config.ts).
THEOREM TypeCorrect == Spec => []TypeOK
<1>1. Init => Base
  BY BaseInit
<1>2. Base /\ [Next]_vars => Base'
  BY BaseNext, BaseStutters
<1>3. Base => TypeOK
  BY DEF Base
<1> QED
  BY <1>1, <1>2, <1>3, PTL DEF Spec

-----------------------------------------------------------------------------
(* Messages are paid for.                                                   *)

\* A set that loses or gains at most one element.
LEMMA Counting ==
  ASSUME NEW A, IsFiniteSet(A), NEW B, NEW x
  PROVE  /\ Cardinality(A) \in Nat
         /\ B \subseteq A => Cardinality(B) \in Nat /\ Cardinality(B) <= Cardinality(A)
         /\ x \in A /\ B \subseteq A \ {x} => Cardinality(B) \in Nat /\ Cardinality(B) + 1 <= Cardinality(A)
         /\ B \subseteq A \cup {x} => Cardinality(B) \in Nat /\ Cardinality(B) <= Cardinality(A) + 1
<1>1. Cardinality(A) \in Nat
  BY FS_CardinalityType
<1>2. B \subseteq A => Cardinality(B) \in Nat /\ Cardinality(B) <= Cardinality(A)
  BY FS_Subset, FS_CardinalityType
<1>3. x \in A /\ B \subseteq A \ {x} => Cardinality(B) \in Nat /\ Cardinality(B) + 1 <= Cardinality(A)
  <2> SUFFICES ASSUME x \in A, B \subseteq A \ {x}
               PROVE  Cardinality(B) \in Nat /\ Cardinality(B) + 1 <= Cardinality(A)
    OBVIOUS
  <2>1. IsFiniteSet(A \ {x}) /\ Cardinality(A \ {x}) = Cardinality(A) - 1
    BY FS_RemoveElement
  <2>2. Cardinality(B) \in Nat /\ Cardinality(B) <= Cardinality(A \ {x})
    BY <2>1, FS_Subset, FS_CardinalityType
  <2> QED
    BY <1>1, <2>1, <2>2
<1>4. B \subseteq A \cup {x} => Cardinality(B) \in Nat /\ Cardinality(B) <= Cardinality(A) + 1
  <2> SUFFICES ASSUME B \subseteq A \cup {x}
               PROVE  Cardinality(B) \in Nat /\ Cardinality(B) <= Cardinality(A) + 1
    OBVIOUS
  <2>1. /\ IsFiniteSet(A \cup {x})
        /\ Cardinality(A \cup {x}) = Cardinality(A) \/ Cardinality(A \cup {x}) = Cardinality(A) + 1
    BY FS_AddElement
  <2>2. Cardinality(B) \in Nat /\ Cardinality(B) <= Cardinality(A \cup {x})
    BY <2>1, FS_Subset, FS_CardinalityType
  <2> QED
    BY <1>1, <2>1, <2>2
<1> QED
  BY <1>1, <1>2, <1>3, <1>4

LEMMA RunsAreFinite ==
  ASSUME NEW u \in Users, NEW places
  PROVE  IsFiniteSet(RunsAt(u, places)) /\ Cardinality(RunsAt(u, places)) \in Nat
<1>1. RunsAt(u, places) \subseteq Worker
  BY DEF RunsAt
<1> QED
  BY <1>1, EmailQueueAssumption, FS_Subset, FS_CardinalityType

\* The credit of a user is what the job and the lost runs of that user make it.
LEMMA CreditIs ==
  ASSUME Base, NEW u \in Users
  PROVE  /\ lost[u] \in Nat /\ mails[u] \in Nat /\ texts[u] \in Nat
         /\ Credit(u) = lost[u] \/ Credit(u) = lost[u] + 1
         /\ job[u].state \in {"none", "ready"} /\ ~job[u].done => Credit(u) = lost[u]
         /\ job[u].state \notin {"none", "ready"} \/ job[u].done => Credit(u) = lost[u] + 1
BY DEF Base, TypeOK, Credit

LEMMA PaidKept ==
  ASSUME Base, NEW u \in Users, NEW v \in Users \ {u}, Local(u), Paid(v)
  PROVE  Paid(v)'
<1>1. /\ job'[v] = job[v] /\ mails'[v] = mails[v] /\ texts'[v] = texts[v] /\ lost'[v] = lost[v]
  BY DEF Local
<1>2. \A w \in Worker : run'[w] = run[w] \/ (run[w].user # v /\ run'[w].user # v)
  BY EmailQueueAssumption DEF Local
<1>3. \A places : RunsAt(v, places)' = RunsAt(v, places)
  BY <1>2 DEF RunsAt
<1>4. RunsAt(v, ToMail)' = RunsAt(v, ToMail) /\ RunsAt(v, ToText)' = RunsAt(v, ToText)
  BY <1>3 DEF ToMail, ToText
<1>5. Credit(v)' = Credit(v)
  BY <1>1 DEF Credit
<1> QED
  BY <1>1, <1>4, <1>5 DEF Paid

\* No message is sent or planned: the credit must not shrink.
LEMMA PaidQuietly ==
  ASSUME Base, Base', NEW u \in Users, Paid(u),
         mails'[u] = mails[u], texts'[u] = texts[u],
         RunsAt(u, ToMail)' \subseteq RunsAt(u, ToMail), RunsAt(u, ToText)' \subseteq RunsAt(u, ToText),
         Credit(u)' >= Credit(u)
  PROVE  Paid(u)'
<1>1. /\ Cardinality(RunsAt(u, ToMail)) \in Nat /\ Cardinality(RunsAt(u, ToMail)') \in Nat
      /\ Cardinality(RunsAt(u, ToText)) \in Nat /\ Cardinality(RunsAt(u, ToText)') \in Nat
      /\ Cardinality(RunsAt(u, ToMail)') <= Cardinality(RunsAt(u, ToMail))
      /\ Cardinality(RunsAt(u, ToText)') <= Cardinality(RunsAt(u, ToText))
  BY RunsAreFinite, Counting
<1>2. mails[u] \in Nat /\ texts[u] \in Nat /\ lost[u] \in Nat /\ lost'[u] \in Nat
  BY DEF Base, TypeOK
<1>3. Credit(u) \in Nat /\ Credit(u)' \in Nat
  BY <1>2 DEF Credit
<1> QED
  BY <1>1, <1>2, <1>3 DEF Paid

\* Runs that do not move plan what they planned.
LEMMA SameRuns ==
  ASSUME NEW u \in Users, NEW w \in Worker, NEW places,
         \A x \in Worker \ {w} : run'[x] = run[x],
         run'[w].user = u => run'[w].at \notin places
  PROVE  /\ RunsAt(u, places)' \subseteq RunsAt(u, places)
         /\ RunsAt(u, places)' \subseteq RunsAt(u, places) \ {w}
BY DEF RunsAt

\* The request, other requests and the queue send nothing.
LEMMA PaidOutside ==
  ASSUME Base, NEW u \in Users, Paid(u),
         \/ Create(u) \/ AddressTaken(u) \/ Publish(u) \/ NotPublished(u) \/ Finish(u)
         \/ ReadUser(u) \/ Stall(u) \/ (SaveUser /\ u = copy.user)
  PROVE  Local(u) /\ Base' /\ Paid(u)'
<1>1. /\ Local(u) /\ Base' /\ run' = run /\ mails' = mails /\ texts' = texts
      /\ \/ job'[u] = job[u] /\ lost'[u] = lost[u]
         \/ /\ job[u].state = "none" /\ job'[u].state = "ready" /\ job'[u].done = job[u].done
            /\ lost'[u] = lost[u]
         \/ /\ job[u].state = "active" /\ job'[u].state \in {"ready", "failed"}
            /\ job'[u].done = job[u].done
            /\ lost'[u] = IF job[u].done THEN lost[u] ELSE lost[u] + 1
  <2>1. CASE Create(u) \/ AddressTaken(u)
    BY <2>1, BaseCreate DEF Create, AddressTaken, queue, history
  <2>2. CASE Publish(u) \/ NotPublished(u)
    BY <2>2, BasePublish DEF history
  <2>3. CASE Finish(u)
    BY <2>3, BaseFinish DEF history
  <2>4. CASE ReadUser(u)
    BY <2>4, BaseRead DEF queue, history
  <2>5. CASE Stall(u)
    BY <2>5, BaseStall
  <2>6. CASE SaveUser /\ u = copy.user
    BY <2>6, BaseSave
  <2> QED
    BY <2>1, <2>2, <2>3, <2>4, <2>5, <2>6
<1>2. lost[u] \in Nat
  BY DEF Base, TypeOK
<1>3. Credit(u)' >= Credit(u)
  BY <1>1, <1>2 DEF Credit
<1>4. \A places : RunsAt(u, places)' = RunsAt(u, places)
  BY <1>1 DEF RunsAt
<1>5. RunsAt(u, ToMail)' \subseteq RunsAt(u, ToMail) /\ RunsAt(u, ToText)' \subseteq RunsAt(u, ToText)
  BY <1>4 DEF ToMail, ToText
<1> QED
  BY <1>1, <1>3, <1>5, PaidQuietly

\* A run that begins sends one mail and one text at most, if the job has no progress: from
\* here on the job can pay.
LEMMA PaidTake ==
  ASSUME Base, NEW u \in Users, Paid(u), NEW w \in Worker, Take(w, u)
  PROVE  Local(u) /\ Base' /\ Paid(u)'
<1>1. /\ Local(u) /\ Base' /\ job[u].state = "ready" /\ job'[u].state = "active"
      /\ job'[u].done = job[u].done /\ mails' = mails /\ texts' = texts /\ lost' = lost
      /\ run'[w].at = FirstStep(u) /\ \A x \in Worker \ {w} : run'[x] = run[x]
  BY BaseTake DEF history
<1>2. CASE job[u].done
  <2>1. run'[w].at = "end"
    BY <1>1, <1>2 DEF FirstStep
  <2>2. RunsAt(u, ToMail)' \subseteq RunsAt(u, ToMail) /\ RunsAt(u, ToText)' \subseteq RunsAt(u, ToText)
    BY <1>1, <2>1 DEF RunsAt, ToMail, ToText
  <2>3. Credit(u)' >= Credit(u)
    BY <1>1, <1>2 DEF Credit, Base, TypeOK
  <2> QED
    BY <1>1, <2>2, <2>3, PaidQuietly
<1>3. CASE ~job[u].done
  <2>1. RunsAt(u, ToMail)' \subseteq RunsAt(u, ToMail) \cup {w} /\ RunsAt(u, ToText)' \subseteq RunsAt(u, ToText) \cup {w}
    BY <1>1 DEF RunsAt
  <2>2. /\ Cardinality(RunsAt(u, ToMail)) \in Nat /\ Cardinality(RunsAt(u, ToMail)') \in Nat
        /\ Cardinality(RunsAt(u, ToText)) \in Nat /\ Cardinality(RunsAt(u, ToText)') \in Nat
        /\ Cardinality(RunsAt(u, ToMail)') <= Cardinality(RunsAt(u, ToMail)) + 1
        /\ Cardinality(RunsAt(u, ToText)') <= Cardinality(RunsAt(u, ToText)) + 1
    BY <2>1, RunsAreFinite, Counting
  <2>3. lost[u] \in Nat /\ mails[u] \in Nat /\ texts[u] \in Nat
    BY DEF Base, TypeOK
  <2>4. Credit(u) = lost[u] /\ Credit(u)' = lost[u] + 1
    BY <1>1, <1>3, <2>3 DEF Credit
  <2> QED
    BY <1>1, <2>2, <2>3, <2>4 DEF Paid
<1> QED
  BY <1>2, <1>3

\* A message that leaves was planned.
LEMMA PaidSend ==
  ASSUME Base, NEW w \in Worker, SendMail(w) \/ SendText(w), \A u \in Users : Paid(u)
  PROVE  \E u \in Users : Local(u) /\ Base' /\ Paid(u)'
<1>1. PICK u \in Users :
        /\ Local(u) /\ Base' /\ run[w].user = u /\ job' = job /\ lost' = lost
        /\ \/ /\ run[w].at = "mail" /\ texts' = texts
              /\ \/ Stays(w, "mailed") /\ mails'[u] \in {mails[u], mails[u] + 1}
                 \/ Stays(w, "mailError") /\ mails'[u] = mails[u]
           \/ /\ run[w].at = "text" /\ Stays(w, "texted") /\ mails' = mails
              /\ texts'[u] \in {texts[u], texts[u] + 1}
  BY BaseSendMail, BaseSendText
<1>2. Paid(u) /\ lost[u] \in Nat /\ mails[u] \in Nat /\ texts[u] \in Nat
  BY DEF Base, TypeOK
<1>3. Credit(u) \in Nat /\ Credit(u)' = Credit(u)
  BY <1>1, <1>2 DEF Credit
<1>4. \A to : Stays(w, to) => /\ run'[w].at = to /\ run'[w].user = u
                              /\ \A x \in Worker \ {w} : run'[x] = run[x]
  BY <1>1 DEF Stays
<1>5. CASE run[w].at = "mail"
  <2>1. /\ \A x \in Worker \ {w} : run'[x] = run[x]
        /\ run'[w].at \in {"mailed", "mailError"} /\ texts' = texts
        /\ mails'[u] = mails[u] \/ mails'[u] = mails[u] + 1
    BY <1>1, <1>4, <1>5
  <2>2. /\ w \in RunsAt(u, ToMail) /\ RunsAt(u, ToMail)' \subseteq RunsAt(u, ToMail) \ {w}
        /\ RunsAt(u, ToText)' \subseteq RunsAt(u, ToText)
    BY <1>1, <1>5, <2>1 DEF RunsAt, ToMail, ToText
  <2>3. /\ Cardinality(RunsAt(u, ToMail)) \in Nat /\ Cardinality(RunsAt(u, ToMail)') \in Nat
        /\ Cardinality(RunsAt(u, ToText)) \in Nat /\ Cardinality(RunsAt(u, ToText)') \in Nat
        /\ Cardinality(RunsAt(u, ToMail)') + 1 <= Cardinality(RunsAt(u, ToMail))
        /\ Cardinality(RunsAt(u, ToText)') <= Cardinality(RunsAt(u, ToText))
    BY <2>2, RunsAreFinite, Counting
  <2>4. Paid(u)'
    BY <1>2, <1>3, <2>1, <2>3 DEF Paid
  <2> QED
    BY <1>1, <2>4
<1>6. CASE run[w].at = "text"
  <2>1. /\ \A x \in Worker \ {w} : run'[x] = run[x]
        /\ run'[w].at = "texted" /\ mails' = mails
        /\ texts'[u] = texts[u] \/ texts'[u] = texts[u] + 1
    BY <1>1, <1>4, <1>6
  <2>2. /\ w \in RunsAt(u, ToText) /\ RunsAt(u, ToText)' \subseteq RunsAt(u, ToText) \ {w}
        /\ RunsAt(u, ToMail)' \subseteq RunsAt(u, ToMail)
    BY <1>1, <1>6, <2>1 DEF RunsAt, ToMail, ToText
  <2>3. /\ Cardinality(RunsAt(u, ToMail)) \in Nat /\ Cardinality(RunsAt(u, ToMail)') \in Nat
        /\ Cardinality(RunsAt(u, ToText)) \in Nat /\ Cardinality(RunsAt(u, ToText)') \in Nat
        /\ Cardinality(RunsAt(u, ToText)') + 1 <= Cardinality(RunsAt(u, ToText))
        /\ Cardinality(RunsAt(u, ToMail)') <= Cardinality(RunsAt(u, ToMail))
    BY <2>2, RunsAreFinite, Counting
  <2>4. Paid(u)'
    BY <1>2, <1>3, <2>1, <2>3 DEF Paid
  <2> QED
    BY <1>1, <2>4
<1> QED
  BY <1>1, <1>5, <1>6

\* The other steps of a run send nothing.
LEMMA PaidRun ==
  ASSUME Base, NEW w \in Worker, \A u \in Users : Paid(u),
         \/ NoteMailed(w) \/ NoteMailError(w) \/ NoteTexted(w) \/ NoteTextError(w)
         \/ StoreProgress(w) \/ Complete(w) \/ Fail(w) \/ Crash(w)
  PROVE  \E u \in Users : Local(u) /\ Base' /\ Paid(u)'
<1>1. PICK u \in Users :
        /\ Local(u) /\ Base' /\ run[w].user = u /\ mails' = mails /\ texts' = texts
        /\ \/ Frees(w) \/ (run[w].at = "mailed" /\ Stays(w, "text"))
           \/ \E to \in {"mailError", "textError", "progress", "error", "end", "timeout"} : Stays(w, to)
        /\ \/ lost'[u] = lost[u] /\ job'[u] = job[u]
           \/ lost'[u] = lost[u] /\ job'[u].done
           \/ /\ lost'[u] = IF job[u].done THEN lost[u] ELSE lost[u] + 1
              /\ job'[u].done = job[u].done
              /\ job'[u] = job[u] \/ job[u].state = "active"
  <2>1. CASE NoteMailed(w) \/ NoteTexted(w)
    BY <2>1, BaseNoteMailed, BaseNoteTexted DEF history
  <2>2. CASE NoteMailError(w) \/ NoteTextError(w)
    BY <2>2, BaseNoteError
  <2>3. CASE StoreProgress(w)
    BY <2>3, BaseStoreProgress
  <2>4. CASE Complete(w)
    BY <2>4, BaseComplete DEF history
  <2>5. CASE Fail(w)
    BY <2>5, BaseFail
  <2>6. CASE Crash(w)
    BY <2>6, BaseCrash DEF history
  <2> QED
    BY <2>1, <2>2, <2>3, <2>4, <2>5, <2>6
<1>2. lost[u] \in Nat /\ Paid(u)
  BY DEF Base, TypeOK
<1>3. Credit(u)' >= Credit(u)
  BY <1>1, <1>2 DEF Credit
<1>4. /\ \A x \in Worker \ {w} : run'[x] = run[x]
      /\ run'[w].at \notin ToMail
      /\ run'[w].at \in ToText => run[w].at \in ToText
  BY <1>1 DEF Frees, Stays, Idle, ToMail, ToText
<1>5. RunsAt(u, ToMail)' \subseteq RunsAt(u, ToMail) /\ RunsAt(u, ToText)' \subseteq RunsAt(u, ToText)
  <2>1. RunsAt(u, ToMail)' \subseteq RunsAt(u, ToMail)
    BY <1>4 DEF RunsAt, ToMail
  <2>2. RunsAt(u, ToText)' \subseteq RunsAt(u, ToText)
    BY <1>1, <1>4 DEF RunsAt, ToText
  <2> QED
    BY <2>1, <2>2
<1> QED
  BY <1>1, <1>2, <1>3, <1>5, PaidQuietly

LEMMA PaidNext ==
  ASSUME PaidInv, [Next]_vars
  PROVE  PaidInv'
<1>1. Base /\ \A u \in Users : Paid(u)
  BY DEF PaidInv
<1>2. ASSUME NEW u \in Users, Local(u), Base', Paid(u)'
      PROVE  PaidInv'
  <2>1. \A v \in Users : Paid(v)'
    BY <1>1, <1>2, PaidKept
  <2> QED
    BY <1>2, <2>1 DEF PaidInv
<1>3. ASSUME NEW u \in Users,
             \/ Create(u) \/ AddressTaken(u) \/ Publish(u) \/ NotPublished(u) \/ Finish(u)
             \/ ReadUser(u) \/ Stall(u)
             \/ \E w \in Worker : Take(w, u)
      PROVE  PaidInv'
  BY <1>1, <1>2, <1>3, PaidOutside, PaidTake
<1>4. ASSUME NEW w \in Worker, Handle(w) \/ Crash(w)
      PROVE  PaidInv'
  <2>1. CASE SendMail(w) \/ SendText(w)
    BY <1>1, <1>2, <2>1, PaidSend
  <2>2. CASE ~(SendMail(w) \/ SendText(w))
    BY <1>1, <1>2, <1>4, <2>2, PaidRun DEF Handle
  <2> QED
    BY <2>1, <2>2
<1>5. ASSUME SaveUser PROVE PaidInv'
  BY <1>1, <1>2, <1>5, BaseSave, PaidOutside
<1>6. ASSUME UNCHANGED vars PROVE PaidInv'
  <2>1. \A u \in Users : Paid(u)'
    BY <1>1, <1>6 DEF Paid, Credit, RunsAt, vars, queue, history
  <2> QED
    BY <1>1, <1>6, <2>1, BaseStutters DEF PaidInv
<1> QED
  BY <1>3, <1>4, <1>5, <1>6 DEF Next

\* However often runs fail, stall or die, and however many workers have the same job: each
\* message leaves once, and once more for each run that ended badly before its progress was
\* stored (BaseProcessor.executeHandlers and job.updateProgress).
THEOREM DuplicatesPaid == Spec => []DuplicatesArePaidFor
<1>1. Init => PaidInv
  <2> SUFFICES ASSUME Init PROVE PaidInv
    OBVIOUS
  <2>1. Base
    BY BaseInit
  <2>2. ASSUME NEW u \in Users PROVE Paid(u)
    <3>1. RunsAt(u, ToMail) = {} /\ RunsAt(u, ToText) = {}
      BY EmailQueueAssumption DEF Init, RunsAt, Idle
    <3>2. mails[u] = 0 /\ texts[u] = 0 /\ Credit(u) = 0
      BY DEF Init, Credit
    <3> QED
      BY <3>1, <3>2, FS_EmptySet DEF Paid
  <2> QED
    BY <2>1, <2>2 DEF PaidInv
<1>2. PaidInv /\ [Next]_vars => PaidInv'
  BY PaidNext
<1>3. PaidInv => DuplicatesArePaidFor
  <2> SUFFICES ASSUME PaidInv, NEW u \in Users
               PROVE  mails[u] <= lost[u] + 1 /\ texts[u] <= lost[u] + 1
    BY DEF DuplicatesArePaidFor
  <2>1. Base /\ Paid(u)
    BY DEF PaidInv
  <2>2. /\ Cardinality(RunsAt(u, ToMail)) \in Nat /\ Cardinality(RunsAt(u, ToText)) \in Nat
        /\ lost[u] \in Nat /\ mails[u] \in Nat /\ texts[u] \in Nat
    BY <2>1, RunsAreFinite DEF Base, TypeOK
  <2>3. Credit(u) = lost[u] \/ Credit(u) = lost[u] + 1
    BY <2>1, CreditIs
  <2> QED
    BY <2>1, <2>2, <2>3 DEF Paid
<1> QED
  BY <1>1, <1>2, <1>3, PTL DEF Spec

-----------------------------------------------------------------------------
(* The row tells how the job ended.                                         *)

LEMMA RowKept ==
  ASSUME Base, NEW u \in Users, NEW v \in Users \ {u}, Local(u), RowOK(v)
  PROVE  RowOK(v)'
<1>1. /\ row'[v] = row[v] /\ job'[v] = job[v] /\ holder'[v] = holder[v]
      /\ mails'[v] = mails[v] /\ texts'[v] = texts[v]
      /\ refused'[v] = refused[v] /\ upset'[v] = upset[v]
  BY DEF Local
<1>2. \A w \in Worker : run'[w].user = v => run'[w] = run[w]
  BY EmailQueueAssumption DEF Local
<1>3. /\ (SaysMailed(v)' <=> SaysMailed(v)) /\ (Mailed(v)' <=> Mailed(v))
      /\ (Texted(v)' <=> Texted(v)) /\ (SaysBoth(v)' <=> SaysBoth(v))
      /\ (SaysError(v)' <=> SaysError(v))
  BY <1>1 DEF SaysMailed, Mailed, Texted, SaysBoth, SaysError
<1>4. ASSUME NEW w \in Worker, run'[w].user = v
      PROVE  /\ run[w].user = v /\ run'[w] = run[w]
             /\ Told(v, w) => Told(v, w)'
  BY <1>1, <1>2, <1>3, <1>4 DEF Told
<1>5. \A w \in Worker : Alone(v, w) => Alone(v, w)'
  BY <1>1, <1>2 DEF Alone
<1> QED
  BY <1>1, <1>3, <1>4, <1>5 DEF RowOK

\* The request, other requests and the queue: the row is new, stays, or is noted as overwritten.
LEMMA RowOutside ==
  ASSUME Base, NEW u \in Users, RowOK(u),
         \/ Create(u) \/ AddressTaken(u) \/ Publish(u) \/ NotPublished(u) \/ Finish(u)
         \/ ReadUser(u) \/ Stall(u) \/ (SaveUser /\ u = copy.user)
  PROVE  Local(u) /\ Base' /\ RowOK(u)'
<1>1. CASE Stall(u)
  <2>1. Local(u) /\ Base' /\ "stall" \in upset'[u]
    BY <1>1, BaseStall
  <2>2. upset'[u] # {} /\ upset'[u] \cap {"stall", "overwritten"} # {}
    BY <2>1
  <2> QED
    BY <2>1, <2>2 DEF RowOK
<1>2. CASE ~Stall(u)
  <2>1. /\ Local(u) /\ Base' /\ run' = run /\ holder' = holder
        /\ mails' = mails /\ texts' = texts /\ refused' = refused
        /\ upset[u] \subseteq upset'[u]
        /\ row'[u] = row[u] \/ row[u] = NoRow \/ "overwritten" \in upset'[u]
        /\ job'[u].done = job[u].done
        /\ job'[u].state = job[u].state \/ job'[u].state = "ready"
    <3>1. CASE Create(u) \/ AddressTaken(u)
      BY <3>1, BaseCreate DEF Create, AddressTaken, queue, history
    <3>2. CASE Publish(u) \/ NotPublished(u)
      BY <3>2, BasePublish DEF history
    <3>3. CASE Finish(u)
      BY <3>3, BaseFinish DEF history
    <3>4. CASE ReadUser(u)
      BY <3>4, BaseRead DEF queue, history
    <3>5. CASE SaveUser /\ u = copy.user
      BY <3>5, BaseSave
    <3> QED
      BY <1>2, <3>1, <3>2, <3>3, <3>4, <3>5
  <2>2. "stall" \notin upset'[u] => \A w \in Worker : Alone(u, w)'
    BY <2>1 DEF RowOK, Alone
  <2>3. (Mailed(u)' <=> Mailed(u)) /\ (Texted(u)' <=> Texted(u))
    BY <2>1 DEF Mailed, Texted
  <2>4. row'[u] = row[u] => /\ (SaysMailed(u)' <=> SaysMailed(u)) /\ (SaysBoth(u)' <=> SaysBoth(u))
                            /\ (SaysError(u)' <=> SaysError(u))
    BY <2>3 DEF SaysMailed, SaysBoth, SaysError
  <2>5. row[u] = NoRow => ~SaysMailed(u) /\ ~SaysBoth(u) /\ ~SaysError(u)
    BY DEF SaysMailed, SaysBoth, SaysError
  <2>6. ASSUME upset'[u] \cap {"stall", "overwritten"} = {}
        PROVE  /\ job'[u].done => SaysBoth(u)'
               /\ \A w \in Worker : run'[w].user = u => Told(u, w)'
    <3>1. upset[u] \cap {"stall", "overwritten"} = {} /\ "overwritten" \notin upset'[u]
      BY <2>1, <2>6
    <3>2. /\ job[u].done => SaysBoth(u)
          /\ \A w \in Worker : run[w].user = u => Told(u, w)
      BY <3>1 DEF RowOK
    <3>3. job'[u].done => SaysBoth(u)'
      BY <2>1, <2>4, <2>5, <3>1, <3>2
    <3>4. ASSUME NEW w \in Worker, run'[w].user = u
          PROVE  Told(u, w)'
      <4>1. run'[w] = run[w] /\ Told(u, w)
        BY <2>1, <3>2, <3>4
      <4> QED
        BY <2>1, <2>3, <2>4, <2>5, <3>1, <4>1 DEF Told
    <3> QED
      BY <3>3, <3>4
  <2>7. ASSUME upset'[u] = {}
        PROVE  /\ job'[u].state = "failed" => SaysError(u)'
               /\ \A w \in Worker : run'[w].user = u /\ run'[w].at \in {"error", "timeout"} => SaysError(u)'
    BY <2>1, <2>4, <2>5, <2>7 DEF RowOK
  <2> QED
    BY <2>1, <2>2, <2>6, <2>7 DEF RowOK
<1> QED
  BY <1>1, <1>2

\* Without stalls nobody has a run of a job that is ready: the worker that takes it is alone.
LEMMA RowTake ==
  ASSUME Base, NEW u \in Users, RowOK(u), NEW w \in Worker, Take(w, u)
  PROVE  Local(u) /\ Base' /\ RowOK(u)'
<1>1. /\ Local(u) /\ Base' /\ job[u].state = "ready" /\ job'[u].state = "active"
      /\ job'[u].done = job[u].done /\ row' = row /\ mails' = mails /\ texts' = texts
      /\ refused' = refused /\ upset' = upset
      /\ holder'[u] = {w} /\ run'[w].user = u /\ run'[w].at = FirstStep(u)
      /\ \A x \in Worker \ {w} : run'[x] = run[x]
  BY BaseTake DEF history
<1>2. JobOK(u)
  BY DEF Base
<1>3. holder[u] = {}
  BY <1>1, <1>2 DEF JobOK
<1>4. CASE "stall" \in upset[u]
  <2>1. upset'[u] # {} /\ upset'[u] \cap {"stall", "overwritten"} # {} /\ "stall" \in upset'[u]
    BY <1>1, <1>4
  <2> QED
    BY <1>1, <2>1 DEF RowOK
<1>5. CASE "stall" \notin upset[u]
  <2>1. \A x \in Worker : run[x].user # u
    BY <1>3, <1>5 DEF RowOK, Alone
  <2>2. \A x \in Worker : run'[x].user = u => x = w
    BY <1>1, <2>1
  <2>3. \A x \in Worker : Alone(u, x)'
    BY <1>1, <2>2 DEF Alone
  <2>4. run'[w].at \in {"mail", "end"} /\ (job[u].done => run'[w].at = "end")
    BY <1>1 DEF FirstStep
  <2>5. Told(u, w)'
    BY <1>1, <2>4 DEF Told
  <2>6. SaysBoth(u)' <=> SaysBoth(u)
    BY <1>1 DEF SaysBoth, SaysMailed, Mailed, Texted
  <2> QED
    BY <1>1, <2>2, <2>3, <2>4, <2>5, <2>6 DEF RowOK
<1> QED
  BY <1>4, <1>5

\* What a run may rely on when nothing has disturbed it.
LEMMA Undisturbed ==
  ASSUME Base, NEW u \in Users, RowOK(u), NEW w \in Worker, run[w].user = u,
         upset[u] \cap {"stall", "overwritten"} = {}
  PROVE  Told(u, w) /\ (job[u].done => run[w].at = "end" /\ SaysBoth(u))
BY DEF RowOK, Told

\* Without stalls the run of w is the only one.
LEMMA OnlyRun ==
  ASSUME Base, NEW u \in Users, RowOK(u), NEW w \in Worker, run[w].user = u, "stall" \notin upset[u]
  PROVE  /\ holder[u] = {w} /\ job[u].state = "active"
         /\ \A x \in Worker : run[x].user = u => x = w
<1>1. JobOK(u) /\ \A x \in Worker : Alone(u, x)
  BY DEF Base, RowOK
<1>2. holder[u] = {w} /\ \A x \in Worker : run[x].user = u => holder[u] = {x}
  BY <1>1 DEF Alone
<1>3. job[u].state = "active"
  BY <1>1, <1>2 DEF JobOK
<1> QED
  BY <1>2, <1>3

\* A run ends.  If the queue takes its word, it was the only one.
LEMMA RowLeave ==
  ASSUME Base, NEW w \in Worker, \A u \in Users : RowOK(u), Complete(w) \/ Fail(w) \/ Crash(w)
  PROVE  \E u \in Users : Local(u) /\ Base' /\ RowOK(u)'
<1>1. PICK u \in Users :
        /\ Local(u) /\ Base' /\ Frees(w) /\ run[w].user = u
        /\ row' = row /\ mails' = mails /\ texts' = texts /\ refused' = refused /\ upset' = upset
        /\ job[u].done <=> job'[u].done
        /\ \/ job'[u].state = job[u].state \/ job'[u].state \in {"completed", "ready"}
           \/ job'[u].state = "failed" /\ run[w].at \in {"error", "timeout"}
        /\ holder'[u] = holder[u] \/ w \in holder[u]
  <2>1. CASE Complete(w)
    BY <2>1, BaseComplete DEF history
  <2>2. CASE Fail(w)
    BY <2>2, BaseFail
  <2>3. CASE Crash(w)
    BY <2>3, BaseCrash DEF history
  <2> QED
    BY <2>1, <2>2, <2>3
<1>2. RowOK(u)
  OBVIOUS
<1>3. \A x \in Worker : run'[x].user = u => x # w /\ run'[x] = run[x]
  BY <1>1, EmailQueueAssumption DEF Frees, Idle
<1>4. /\ (SaysMailed(u)' <=> SaysMailed(u)) /\ (Mailed(u)' <=> Mailed(u))
      /\ (Texted(u)' <=> Texted(u)) /\ (SaysBoth(u)' <=> SaysBoth(u))
      /\ (SaysError(u)' <=> SaysError(u))
  BY <1>1 DEF SaysMailed, Mailed, Texted, SaysBoth, SaysError
<1>5. "stall" \notin upset'[u] => \A x \in Worker : run'[x].user # u
  BY <1>1, <1>2, <1>3, OnlyRun
<1>6. "stall" \notin upset'[u] => \A x \in Worker : Alone(u, x)'
  BY <1>5 DEF Alone
<1>7. ASSUME upset'[u] \cap {"stall", "overwritten"} = {}
      PROVE  /\ job'[u].done => SaysBoth(u)'
             /\ \A x \in Worker : run'[x].user = u => Told(u, x)'
  <2>1. upset[u] \cap {"stall", "overwritten"} = {} /\ "stall" \notin upset'[u]
    BY <1>1, <1>7
  <2> QED
    BY <1>1, <1>2, <1>4, <1>5, <2>1 DEF RowOK
<1>8. ASSUME upset'[u] = {}
      PROVE  /\ job'[u].state = "failed" => SaysError(u)'
             /\ \A x \in Worker : run'[x].user = u /\ run'[x].at \in {"error", "timeout"} => SaysError(u)'
  BY <1>1, <1>2, <1>3, <1>4, <1>8 DEF RowOK
<1> QED
  BY <1>1, <1>6, <1>7, <1>8 DEF RowOK

\* A step of the handler: it answers for itself.
LEMMA RowMove ==
  ASSUME Base, NEW u \in Users, RowOK(u), NEW w \in Worker, NEW to,
         run[w].user = u, Stays(w, to), holder' = holder, job'[u].state = job[u].state,
         upset[u] \subseteq upset'[u],
         upset'[u] \cap {"stall", "overwritten"} = {} =>
           Told(u, w)' /\ (job'[u].done => SaysBoth(u)'),
         upset'[u] = {} /\ to \in {"error", "timeout"} => SaysError(u)'
  PROVE  RowOK(u)'
<1>1. /\ run'[w].user = u /\ run'[w].at = to
      /\ \A x \in Worker \ {w} : run'[x] = run[x]
  BY DEF Stays
<1>2. ASSUME "stall" \notin upset'[u]
      PROVE  /\ \A x \in Worker : Alone(u, x)'
             /\ \A x \in Worker : run'[x].user = u => x = w
             /\ job'[u].state = "active"
  <2>1. /\ holder[u] = {w} /\ job[u].state = "active"
        /\ \A x \in Worker : run[x].user = u => x = w
    BY <1>2, OnlyRun
  <2>2. \A x \in Worker : run'[x].user = u => x = w
    BY <1>1, <2>1
  <2> QED
    BY <1>1, <2>1, <2>2 DEF Alone
<1>3. ASSUME upset'[u] \cap {"stall", "overwritten"} = {}
      PROVE  /\ job'[u].done => SaysBoth(u)'
             /\ \A x \in Worker : run'[x].user = u => Told(u, x)'
  <2>1. "stall" \notin upset'[u]
    BY <1>3
  <2> QED
    BY <1>2, <1>3, <2>1
<1>4. ASSUME upset'[u] = {}
      PROVE  /\ job'[u].state = "failed" => SaysError(u)'
             /\ \A x \in Worker : run'[x].user = u /\ run'[x].at \in {"error", "timeout"} => SaysError(u)'
  <2>1. "stall" \notin upset'[u]
    BY <1>4
  <2> QED
    BY <1>1, <1>2, <1>4, <2>1
<1> QED
  BY <1>2, <1>3, <1>4 DEF RowOK

\* SendMail and SendText: a message was delivered or refused.
LEMMA RowSend ==
  ASSUME Base, NEW w \in Worker, \A u \in Users : RowOK(u), SendMail(w) \/ SendText(w)
  PROVE  \E u \in Users : Local(u) /\ Base' /\ RowOK(u)'
<1>1. CASE SendMail(w)
  <2>1. PICK u \in Users :
           /\ Base' /\ Local(u) /\ run[w].user = u /\ run[w].at = "mail"
           /\ \/ /\ Stays(w, "mailed") /\ mails'[u] = mails[u] + 1 /\ refused'[u] = refused[u]
              \/ /\ Stays(w, "mailed") /\ mails'[u] = mails[u] /\ refused'[u] = refused[u] \cup {"email"}
              \/ /\ Stays(w, "mailError") /\ mails'[u] = mails[u] /\ refused'[u] = refused[u]
           /\ UNCHANGED <<request, row, job, holder, texts, lost, upset>>
    BY <1>1, BaseSendMail
  <2>2. PICK to \in {"mailed", "mailError"} : Stays(w, to) /\ (to = "mailed" => Mailed(u)')
    <3>1. mails[u] \in Nat
      BY DEF Base, TypeOK
    <3> QED
      BY <2>1, <3>1 DEF Mailed
  <2>3. run'[w].at = to
    BY <2>2 DEF Stays
  <2>4. ASSUME upset'[u] \cap {"stall", "overwritten"} = {}
        PROVE  Told(u, w)' /\ (job'[u].done => SaysBoth(u)')
    <3>1. ~job[u].done
      BY <2>1, <2>4, Undisturbed
    <3> QED
      BY <2>1, <2>2, <2>3, <3>1 DEF Told
  <2>5. RowOK(u)'
    BY <2>1, <2>2, <2>4, RowMove
  <2> QED
    BY <2>1, <2>5
<1>2. CASE SendText(w)
  <2>1. PICK u \in Users :
           /\ Base' /\ Local(u) /\ run[w].user = u /\ run[w].at = "text" /\ Stays(w, "texted")
           /\ \/ texts'[u] = texts[u] + 1 /\ refused'[u] = refused[u]
              \/ texts'[u] = texts[u] /\ refused'[u] = refused[u] \cup {"sms"}
              \/ u \notin HasPhone /\ texts'[u] = texts[u] /\ refused'[u] = refused[u]
           /\ UNCHANGED <<request, row, job, holder, mails, lost, upset>>
    BY <1>2, BaseSendText
  <2>2. texts[u] \in Nat
    BY DEF Base, TypeOK
  <2>3. run'[w].at = "texted" /\ Texted(u)' /\ (SaysMailed(u) => SaysMailed(u)')
    BY <2>1, <2>2 DEF Stays, Texted, SaysMailed, Mailed
  <2>4. ASSUME upset'[u] \cap {"stall", "overwritten"} = {}
        PROVE  Told(u, w)' /\ (job'[u].done => SaysBoth(u)')
    <3>1. ~job[u].done /\ Told(u, w)
      BY <2>1, <2>4, Undisturbed
    <3>2. SaysMailed(u)
      BY <2>1, <3>1 DEF Told
    <3> QED
      BY <2>1, <2>3, <3>1, <3>2 DEF Told
  <2>5. RowOK(u)'
    BY <2>1, <2>4, RowMove
  <2> QED
    BY <2>1, <2>5
<1> QED
  BY <1>1, <1>2

\* NoteMailed and NoteTexted: the row says what is true.
LEMMA RowNote ==
  ASSUME Base, NEW w \in Worker, \A u \in Users : RowOK(u), NoteMailed(w) \/ NoteTexted(w)
  PROVE  \E u \in Users : Local(u) /\ Base' /\ RowOK(u)'
<1>1. CASE NoteMailed(w)
  <2>1. PICK u \in Users :
           /\ Base' /\ Local(u) /\ run[w].user = u /\ run[w].at = "mailed"
           /\ \/ Stays(w, "text") /\ row'[u] \in Row /\ row'[u].email = "SENT"
              \/ Stays(w, "mailError") /\ row'[u] = row[u]
           /\ UNCHANGED <<request, job, holder, history>>
    BY <1>1, BaseNoteMailed
  <2>2. PICK to \in {"text", "mailError"} :
          Stays(w, to) /\ (to = "text" => row'[u] # NoRow /\ row'[u].email = "SENT")
    BY <2>1, EmailQueueAssumption
  <2>3. run'[w].at = to /\ upset' = upset /\ (Mailed(u)' <=> Mailed(u))
    BY <2>1, <2>2 DEF Stays, Mailed, history
  <2>4. ASSUME upset'[u] \cap {"stall", "overwritten"} = {}
        PROVE  Told(u, w)' /\ (job'[u].done => SaysBoth(u)')
    <3>1. ~job[u].done /\ Told(u, w)
      BY <2>1, <2>3, <2>4, Undisturbed
    <3>2. to = "text" => SaysMailed(u)'
      BY <2>1, <2>2, <2>3, <3>1 DEF Told, SaysMailed
    <3> QED
      BY <2>1, <2>3, <3>1, <3>2 DEF Told
  <2>5. RowOK(u)'
    BY <2>1, <2>2, <2>3, <2>4, RowMove
  <2> QED
    BY <2>1, <2>5
<1>2. CASE NoteTexted(w)
  <2>1. PICK u \in Users :
           /\ Base' /\ Local(u) /\ run[w].user = u /\ run[w].at = "texted"
           /\ \/ /\ Stays(w, "progress") /\ row[u] \in Row /\ row'[u] \in Row
                 /\ row'[u].sms = (IF u \in HasPhone THEN "SENT" ELSE "NOT_PROVIDED")
                 /\ row'[u].email = row[u].email
              \/ Stays(w, "textError") /\ row'[u] = row[u]
           /\ UNCHANGED <<request, job, holder, history>>
    BY <1>2, BaseNoteTexted
  <2>2. /\ mails' = mails /\ texts' = texts /\ refused' = refused /\ upset' = upset
        /\ (Mailed(u)' <=> Mailed(u)) /\ (Texted(u)' <=> Texted(u))
    BY <2>1 DEF Mailed, Texted, history
  <2>3. PICK to \in {"progress", "textError"} :
          /\ Stays(w, to)
          /\ SaysMailed(u) => SaysMailed(u)'
          /\ to = "progress" /\ SaysMailed(u) /\ Texted(u) => SaysBoth(u)'
    <3>1. CASE Stays(w, "progress") /\ row[u] \in Row /\ row'[u] \in Row
               /\ row'[u].sms = (IF u \in HasPhone THEN "SENT" ELSE "NOT_PROVIDED")
               /\ row'[u].email = row[u].email
      BY <2>2, <3>1, EmailQueueAssumption DEF SaysMailed, SaysBoth
    <3>2. CASE Stays(w, "textError") /\ row'[u] = row[u]
      BY <2>2, <3>2 DEF SaysMailed
    <3> QED
      BY <2>1, <3>1, <3>2
  <2>4. run'[w].at = to
    BY <2>3 DEF Stays
  <2>5. ASSUME upset'[u] \cap {"stall", "overwritten"} = {}
        PROVE  Told(u, w)' /\ (job'[u].done => SaysBoth(u)')
    <3>1. ~job[u].done /\ Told(u, w)
      BY <2>1, <2>2, <2>5, Undisturbed
    <3>2. SaysMailed(u) /\ Texted(u)
      BY <2>1, <3>1 DEF Told
    <3>3. SaysMailed(u)' /\ (to = "progress" => SaysBoth(u)')
      BY <2>3, <3>2
    <3> QED
      BY <2>1, <2>4, <3>1, <3>3 DEF Told
  <2>6. RowOK(u)'
    BY <2>1, <2>2, <2>3, <2>5, RowMove
  <2> QED
    BY <2>1, <2>6
<1> QED
  BY <1>1, <1>2

\* The catch blocks and the progress: the row says that it failed, or a history says why not.
LEMMA RowEnd ==
  ASSUME Base, NEW w \in Worker, \A u \in Users : RowOK(u),
         NoteMailError(w) \/ NoteTextError(w) \/ StoreProgress(w)
  PROVE  \E u \in Users : Local(u) /\ Base' /\ RowOK(u)'
<1>1. CASE NoteMailError(w) \/ NoteTextError(w)
  <2>1. PICK u \in Users :
           /\ Base' /\ Local(u) /\ run[w].user = u /\ run[w].at \in {"mailError", "textError"}
           /\ Stays(w, "error")
           /\ upset[u] \subseteq upset'[u] /\ upset'[u] \subseteq upset[u] \cup {"unmarked"}
           /\ upset'[u] = {} => SaysError(u)'
           /\ UNCHANGED <<request, job, holder, mails, texts, lost, refused>>
    BY <1>1, BaseNoteError
  <2>2. ASSUME upset'[u] \cap {"stall", "overwritten"} = {}
        PROVE  Told(u, w)' /\ (job'[u].done => SaysBoth(u)')
    <3>1. upset[u] \cap {"stall", "overwritten"} = {}
      BY <2>1, <2>2
    <3>2. ~job[u].done /\ run'[w].at = "error"
      BY <2>1, <3>1, Undisturbed DEF Stays
    <3> QED
      BY <2>1, <3>2 DEF Told
  <2>3. RowOK(u)'
    BY <2>1, <2>2, RowMove
  <2> QED
    BY <2>1, <2>3
<1>2. CASE StoreProgress(w)
  <2>1. PICK u \in Users :
           /\ Base' /\ Local(u) /\ run[w].user = u /\ run[w].at = "progress"
           /\ job'[u].state = job[u].state
           /\ \/ Stays(w, "end") /\ job'[u].done /\ upset'[u] = upset[u]
              \/ /\ Stays(w, "error") \/ Stays(w, "timeout")
                 /\ job' = job /\ upset'[u] = upset[u] \cup {"unmarked"}
           /\ UNCHANGED <<request, row, holder, mails, texts, lost, refused>>
    BY <1>2, BaseStoreProgress
  <2>2. SaysBoth(u)' <=> SaysBoth(u)
    BY <2>1 DEF SaysBoth, SaysMailed, Mailed, Texted
  <2>3. PICK to \in {"end", "error", "timeout"} :
          /\ Stays(w, to) /\ upset[u] \subseteq upset'[u]
          /\ to # "end" => job' = job /\ upset'[u] # {}
    BY <2>1
  <2>4. run'[w].at = to
    BY <2>3 DEF Stays
  <2>5. ASSUME upset'[u] \cap {"stall", "overwritten"} = {}
        PROVE  Told(u, w)' /\ (job'[u].done => SaysBoth(u)')
    <3>1. upset[u] \cap {"stall", "overwritten"} = {}
      BY <2>3, <2>5
    <3>2. ~job[u].done /\ Told(u, w)
      BY <2>1, <3>1, Undisturbed
    <3>3. SaysBoth(u)'
      BY <2>1, <2>2, <3>2 DEF Told
    <3>4. job'[u].done => to = "end"
      BY <2>3, <3>2
    <3> QED
      BY <2>4, <3>3, <3>4 DEF Told
  <2>6. RowOK(u)'
    BY <2>1, <2>3, <2>5, RowMove
  <2> QED
    BY <2>1, <2>6
<1> QED
  BY <1>1, <1>2

LEMMA RowNext ==
  ASSUME RowInv, [Next]_vars
  PROVE  RowInv'
<1>1. Base /\ \A u \in Users : RowOK(u)
  BY DEF RowInv
<1>2. ASSUME NEW u \in Users, Local(u), Base', RowOK(u)'
      PROVE  RowInv'
  <2>1. \A v \in Users : RowOK(v)'
    BY <1>1, <1>2, RowKept
  <2> QED
    BY <1>2, <2>1 DEF RowInv
<1>3. ASSUME NEW u \in Users,
             \/ Create(u) \/ AddressTaken(u) \/ Publish(u) \/ NotPublished(u) \/ Finish(u)
             \/ ReadUser(u) \/ Stall(u)
             \/ \E w \in Worker : Take(w, u)
      PROVE  RowInv'
  BY <1>1, <1>2, <1>3, RowOutside, RowTake
<1>4. ASSUME NEW w \in Worker, Handle(w) \/ Crash(w)
      PROVE  RowInv'
  BY <1>1, <1>2, <1>4, RowSend, RowNote, RowEnd, RowLeave DEF Handle
<1>5. ASSUME SaveUser PROVE RowInv'
  BY <1>1, <1>2, <1>5, BaseSave, RowOutside
<1>6. ASSUME UNCHANGED vars PROVE RowInv'
  <2>1. \A u \in Users : RowOK(u)'
    BY <1>1, <1>6 DEF RowOK, Alone, Told, SaysMailed, SaysBoth, SaysError, Mailed, Texted,
       vars, queue, history
  <2> QED
    BY <1>1, <1>6, <2>1, BaseStutters DEF RowInv
<1> QED
  BY <1>3, <1>4, <1>5, <1>6 DEF Next

\* What the administrator sees: a job that completed says so of both messages, and each was
\* delivered or refused; one that was given up shows an error.  The exceptions are the ones
\* the property names (AuthEmailUserCreatedHandler.handle and its catch blocks).
THEOREM OutcomeVisible == Spec => []OutcomeIsVisible
<1>1. Init => RowInv
  <2> SUFFICES ASSUME Init PROVE RowInv
    OBVIOUS
  <2>1. Base
    BY BaseInit
  <2>2. \A u \in Users : RowOK(u)
    BY EmailQueueAssumption DEF Init, RowOK, Alone, Told, Idle
  <2> QED
    BY <2>1, <2>2 DEF RowInv
<1>2. RowInv /\ [Next]_vars => RowInv'
  BY RowNext
<1>3. RowInv => OutcomeIsVisible
  <2> SUFFICES ASSUME RowInv, NEW u \in Users, row[u] # NoRow
               PROVE  /\ job[u].state = "completed" /\ upset[u] \cap {"stall", "overwritten"} = {} =>
                           /\ row[u].email = "SENT" /\ (mails[u] > 0 \/ "email" \in refused[u])
                           /\ IF u \in HasPhone
                              THEN row[u].sms = "SENT" /\ (texts[u] > 0 \/ "sms" \in refused[u])
                              ELSE row[u].sms = "NOT_PROVIDED"
                      /\ job[u].state = "failed" /\ upset[u] = {} =>
                           "SEND_ERROR" \in {row[u].email, row[u].sms}
    BY DEF OutcomeIsVisible
  <2>1. JobOK(u) /\ RowOK(u)
    BY DEF RowInv, Base
  <2>2. job[u].state = "completed" => job[u].done
    BY <2>1 DEF JobOK
  <2>3. job[u].state = "completed" /\ upset[u] \cap {"stall", "overwritten"} = {} => SaysBoth(u)
    BY <2>1, <2>2 DEF RowOK
  <2>4. job[u].state = "failed" /\ upset[u] = {} => SaysError(u)
    BY <2>1 DEF RowOK
  <2> QED
    BY <2>3, <2>4 DEF SaysBoth, SaysMailed, SaysError, Mailed, Texted
<1> QED
  BY <1>1, <1>2, <1>3, PTL DEF Spec

===============================================================================
