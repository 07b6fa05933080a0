------------------------------ MODULE EmailQueue ------------------------------
(***************************************************************************)
(* The welcome message of a new user, from the registration request over   *)
(* the BullMQ queue "auth-emails" to the worker that sends an e-mail and a *)
(* text message and notes the result in the user's row (UserService,       *)
(* BaseEventBus, BaseProcessor, GenericEventProcessor,                     *)
(* AuthEmailUserCreatedHandler).                                           *)
(*                                                                         *)
(* The request writes the user in one database transaction and publishes   *)
(* the job before that transaction ends.  Workers use connections of their *)
(* own: they see committed rows only.  A run that lost the lock of its job *)
(* goes on: BullMQ refuses its last word on the job, not what it does      *)
(* before.  Faults are database or Redis commands that fail, locks that    *)
(* expire, workers that die and requests that save the user at the same    *)
(* time.  When the queue refuses jobs is the matter of its health checker; *)
(* here it may at any time.                                                *)
(***************************************************************************)
EXTENDS Naturals, FiniteSets

CONSTANTS
  Users,       \* registrations: each has a user id and a job of its own
  Address,     \* their e-mail addresses
  HasPhone,    \* the registrations with a telephone number
  Worker,      \* jobs the workers run at a time
  Attempts,    \* jobs.attempts
  MaxStalled,  \* stalls of a job before it is given up
  MaxFaults,   \* bound of the model: faults in a behaviour
  Nobody,      \* no user
  NoRow        \* no row in the database

Status == {"NOT_PROVIDED", "PENDING", "SENT", "SEND_ERROR"}
Row == [email : Status, sms : Status]

ASSUME EmailQueueAssumption ==
  /\ IsFiniteSet(Worker) /\ NoRow \notin Row
  /\ HasPhone \subseteq Users /\ Nobody \notin Users
  /\ Attempts \in Nat \ {0} /\ MaxStalled \in Nat /\ MaxFaults \in Nat

VARIABLES
  request,  \* where the registration request is
  row,      \* the committed notification columns of the user
  job,      \* the job in Redis
  holder,   \* the workers that hold the lock of a job
  run,      \* what each worker runs
  copy,     \* a user entity another request has read and will write back
  faults,   \* faults so far
  mails, texts,  \* history: e-mails and text messages delivered
  lost,     \* history: runs that ended badly before the progress was stored
  refused,  \* history: the messages a provider did not take
  upset     \* history: what else has disturbed the row or the job of a user

queue == <<job, holder, run>>
history == <<mails, texts, lost, refused, upset>>
vars == <<request, row, queue, copy, faults, history>>

Idle == [user |-> Nobody, at |-> "idle"]

Job == [state : {"none", "ready", "active", "completed", "failed"},
        made : 0..Attempts, stalls : 0..(MaxStalled + 1), done : BOOLEAN]
Run == [user : Users \cup {Nobody},
        at : {"idle", "mail", "mailed", "mailError", "text", "texted", "textError",
              "progress", "end", "error", "timeout"}]

TypeOK ==
  /\ request \in [Users -> {"idle", "created", "published", "committed", "failed"}]
  /\ row \in [Users -> Row \cup {NoRow}]
  /\ job \in [Users -> Job]
  /\ holder \in [Users -> SUBSET Worker]
  /\ run \in [Worker -> Run]
  /\ copy \in [user : Users \cup {Nobody}, as : Row \cup {NoRow}]
  /\ faults \in 0..MaxFaults
  /\ mails \in [Users -> Nat] /\ texts \in [Users -> Nat] /\ lost \in [Users -> Nat]
  /\ refused \in [Users -> SUBSET {"email", "sms"}]
  /\ upset \in [Users -> SUBSET {"stall", "overwritten", "unmarked"}]

NoCopy == [user |-> Nobody, as |-> NoRow]

NewRow(u) ==
  [email |-> "PENDING", sms |-> IF u \in HasPhone THEN "PENDING" ELSE "NOT_PROVIDED"]

Init ==
  /\ request = [u \in Users |-> "idle"]
  /\ row = [u \in Users |-> NoRow]
  /\ job = [u \in Users |-> [state |-> "none", made |-> 0, stalls |-> 0, done |-> FALSE]]
  /\ holder = [u \in Users |-> {}]
  /\ run = [w \in Worker |-> Idle]
  /\ copy = NoCopy /\ faults = 0
  /\ mails = [u \in Users |-> 0] /\ texts = [u \in Users |-> 0]
  /\ lost = [u \in Users |-> 0]
  /\ refused = [u \in Users |-> {}] /\ upset = [u \in Users |-> {}]

\* A command fails, or the world does what the code cannot see.
Fault == faults < MaxFaults /\ faults' = faults + 1

-----------------------------------------------------------------------------
(* The registration request *)

Goes(u, from, to) == request[u] = from /\ request' = [request EXCEPT ![u] = to]

\* createUserWithExtendedData until the row is written with its statuses;
\* the unique address makes it wait for the transaction of another one.
Create(u) ==
  LET others == {v \in Users \ {u} : Address[v] = Address[u]}
  IN /\ \A v \in others : request[v] \in {"idle", "failed"}
     /\ Goes(u, "idle", "created")
     /\ UNCHANGED <<row, queue, copy, faults, history>>

AddressTaken(u) ==
  /\ \E v \in Users \ {u} : Address[v] = Address[u] /\ request[v] = "committed"
  /\ Goes(u, "idle", "failed")
  /\ UNCHANGED <<row, queue, copy, faults, history>>

\* publish: the queue takes the job.
Publish(u) ==
  /\ Goes(u, "created", "published")
  /\ job' = [job EXCEPT ![u].state = "ready"]
  /\ UNCHANGED <<row, holder, run, copy, faults, history>>

\* enforceHealthOrThrow, or Redis, refuses; the transaction is rolled back.
\* A command that only timed out has left its job.
NotPublished(u) ==
  /\ Goes(u, "created", "failed")
  /\ \/ UNCHANGED <<job, faults>>
     \/ Fault /\ job' = [job EXCEPT ![u].state = "ready"]
  /\ UNCHANGED <<row, holder, run, copy, history>>

Commit(u) ==
  /\ Goes(u, "published", "committed")
  /\ row' = [row EXCEPT ![u] = NewRow(u)]
  /\ UNCHANGED <<queue, copy, faults, history>>

\* The storage configuration of the user, or the transaction, fails.
Abort(u) ==
  /\ Goes(u, "published", "failed")
  /\ UNCHANGED <<row, queue, copy, faults, history>>

-----------------------------------------------------------------------------
(* Any other request that saves the user: UserRepository.update writes every *)
(* column of the entity read before.                                         *)

ReadUser(u) ==
  /\ copy = NoCopy /\ row[u] # NoRow /\ Fault
  /\ copy' = [user |-> u, as |-> row[u]]
  /\ UNCHANGED <<request, row, queue, history>>

SaveUser ==
  /\ copy # NoCopy
  /\ row' = [row EXCEPT ![copy.user] = copy.as]
  /\ upset' = [upset EXCEPT ![copy.user] =
                 IF row[copy.user] = copy.as THEN @ ELSE @ \cup {"overwritten"}]
  /\ copy' = NoCopy
  /\ UNCHANGED <<request, queue, faults, mails, texts, lost, refused>>

-----------------------------------------------------------------------------
(* BullMQ *)

\* Faulty: the stored progress of the job is not looked at.
FirstStepAlways(u) == "mail"

\* executeHandlers leaves out a handler the stored progress names.
FirstStep(u) == IF job[u].done THEN "end" ELSE "mail"

Take(w, u) ==
  /\ run[w] = Idle /\ job[u].state = "ready"
  /\ job' = [job EXCEPT ![u].state = "active"]
  /\ holder' = [holder EXCEPT ![u] = {w}]
  /\ run' = [run EXCEPT ![w] = [user |-> u, at |-> FirstStep(u)]]
  /\ UNCHANGED <<request, row, copy, faults, history>>

\* The run of w ends; BullMQ takes its result only from the holder of the lock.
Leave(w, u, result) ==
  /\ run' = [run EXCEPT ![w] = Idle]
  /\ IF w \in holder[u]
     THEN /\ job' = [job EXCEPT ![u] = result]
          /\ holder' = [holder EXCEPT ![u] = {}]
     ELSE UNCHANGED <<job, holder>>

\* One more run of u ended badly.
Lose(u) == lost' = [lost EXCEPT ![u] = IF job[u].done THEN @ ELSE @ + 1]

Complete(w) ==
  LET u == run[w].user
  IN /\ run[w].at = "end"
     /\ Leave(w, u, [job[u] EXCEPT !.state = "completed"])
     /\ UNCHANGED <<request, row, copy, faults, history>>

\* handleJobError discards the job when its retry window is over, at any time
\* here, except after a timeout of Redis; BullMQ tries again while attempts are
\* left.
Fail(w) ==
  LET u == run[w].user
      made == job[u].made + 1
      Ends(state) == Leave(w, u, [job[u] EXCEPT !.made = made, !.state = state])
  IN /\ \/ run[w].at \in {"error", "timeout"}
           /\ Ends(IF made = Attempts THEN "failed" ELSE "ready")
        \/ run[w].at = "error" /\ Ends("failed")
     /\ Lose(u)
     /\ UNCHANGED <<request, row, copy, faults, mails, texts, refused, upset>>

\* The process of w dies.
Crash(w) ==
  /\ run[w] # Idle /\ Fault
  /\ run' = [run EXCEPT ![w] = Idle]
  /\ UNCHANGED <<request, row, job, holder, copy, history>>

\* Faulty: jobs of dead workers are not looked for.
StallOfLiving(u) ==
  /\ job[u].state = "active" /\ Fault
  /\ \E w \in holder[u] : run[w].user = u
  /\ job' = [job EXCEPT ![u].stalls = @ + 1,
                        ![u].state = IF job[u].stalls = MaxStalled THEN "failed" ELSE "ready"]
  /\ holder' = [holder EXCEPT ![u] = {}]
  /\ upset' = [upset EXCEPT ![u] = @ \cup {"stall"}]
  /\ Lose(u)
  /\ UNCHANGED <<request, row, run, copy, mails, texts, refused>>

\* The stalled check finds the lock of an active job expired, because its
\* worker died or because it could not renew the lock in time.
Stall(u) ==
  LET alive == \E w \in holder[u] : run[w].user = u
      stalls == job[u].stalls + 1
  IN /\ job[u].state = "active"
     /\ IF alive THEN Fault ELSE UNCHANGED faults
     /\ job' = [job EXCEPT ![u].stalls = stalls,
                           ![u].state = IF stalls > MaxStalled THEN "failed" ELSE "ready"]
     /\ holder' = [holder EXCEPT ![u] = {}]
     /\ upset' = [upset EXCEPT ![u] = @ \cup {"stall"}]
     /\ Lose(u)
     /\ UNCHANGED <<request, row, run, copy, mails, texts, refused>>

-----------------------------------------------------------------------------
(* AuthEmailUserCreatedHandler.handle *)

Moves(w, from, to) == run[w].at = from /\ run' = [run EXCEPT ![w].at = to]

\* sendWelcomeEmailWithPassword: sendEmail answers false when the provider
\* fails, which nobody reads, and throws only without a supported provider.
SendMail(w) ==
  LET u == run[w].user
  IN /\ run[w].at = "mail"
     /\ \/ /\ Moves(w, "mail", "mailed")
           /\ mails' = [mails EXCEPT ![u] = @ + 1]
           /\ UNCHANGED <<refused, faults>>
        \/ /\ Moves(w, "mail", "mailed") /\ Fault
           /\ refused' = [refused EXCEPT ![u] = @ \cup {"email"}]
           /\ UNCHANGED mails
        \/ /\ Moves(w, "mail", "mailError") /\ Fault
           /\ UNCHANGED <<mails, refused>>
     /\ UNCHANGED <<request, row, job, holder, copy, texts, lost, upset>>

\* sendWelcomeSms: sendSms answers false on every failure; a user without a
\* telephone is skipped.
SendText(w) ==
  LET u == run[w].user
  IN /\ Moves(w, "text", "texted")
     /\ \/ u \notin HasPhone /\ UNCHANGED <<texts, refused, faults>>
        \/ /\ u \in HasPhone /\ texts' = [texts EXCEPT ![u] = @ + 1]
           /\ UNCHANGED <<refused, faults>>
        \/ /\ u \in HasPhone /\ Fault
           /\ refused' = [refused EXCEPT ![u] = @ \cup {"sms"}]
           /\ UNCHANGED texts
     /\ UNCHANGED <<request, row, job, holder, copy, mails, lost, upset>>

\* prisma.user.update of one column: it throws without the row, or by a fault.
Note(w, from, ok, failed, column, status) ==
  LET u == run[w].user
  IN /\ run[w].at = from
     /\ \/ /\ row[u] # NoRow /\ Moves(w, from, ok)
           /\ row' = [row EXCEPT ![u][column] = status]
           /\ UNCHANGED faults
        \/ /\ row[u] # NoRow /\ Fault
           /\ Moves(w, from, failed) /\ UNCHANGED row
        \/ /\ row[u] = NoRow
           /\ Moves(w, from, failed) /\ UNCHANGED <<row, faults>>
     /\ UNCHANGED <<request, job, holder, copy, mails, texts, lost, refused>>

NoteMailed(w) ==
  /\ Note(w, "mailed", "text", "mailError", "email", "SENT")
  /\ UNCHANGED upset

NoteTexted(w) ==
  /\ Note(w, "texted", "progress", "textError", "sms",
          IF run[w].user \in HasPhone THEN "SENT" ELSE "NOT_PROVIDED")
  /\ UNCHANGED upset

\* A catch block that cannot write leaves the row as it is.
Unmarked(u, column) ==
  upset' = [upset EXCEPT ![u] =
              IF row'[u] # NoRow /\ row'[u][column] = "SEND_ERROR" THEN @ ELSE @ \cup {"unmarked"}]

\* Faulty: the handler goes on after an e-mail that failed.
SwallowMailError(w) ==
  /\ Note(w, "mailError", "text", "text", "email", "SEND_ERROR")
  /\ Unmarked(run[w].user, "email")

\* The catch blocks of the handler throw again: the run ends badly.
NoteMailError(w) ==
  /\ Note(w, "mailError", "error", "error", "email", "SEND_ERROR")
  /\ Unmarked(run[w].user, "email")

NoteTextError(w) ==
  /\ Note(w, "textError", "error", "error", "sms", "SEND_ERROR")
  /\ Unmarked(run[w].user, "sms")

\* job.updateProgress, which needs no lock of the job.
StoreProgress(w) ==
  LET u == run[w].user
  IN /\ run[w].at = "progress"
     /\ \/ /\ Moves(w, "progress", "end")
           /\ job' = [job EXCEPT ![u].done = TRUE] /\ UNCHANGED <<faults, upset>>
        \/ /\ Moves(w, "progress", "error") \/ Moves(w, "progress", "timeout")
           /\ Fault /\ upset' = [upset EXCEPT ![u] = @ \cup {"unmarked"}]
           /\ UNCHANGED job
     /\ UNCHANGED <<request, row, holder, copy, mails, texts, lost, refused>>

-----------------------------------------------------------------------------
Handle(w) ==
  \/ SendMail(w) \/ NoteMailed(w) \/ NoteMailError(w)
  \/ SendText(w) \/ NoteTexted(w) \/ NoteTextError(w)
  \/ StoreProgress(w) \/ Complete(w) \/ Fail(w)

Finish(u) == Commit(u) \/ Abort(u)

Next ==
  \/ \E u \in Users :
       \/ Create(u) \/ AddressTaken(u) \/ Publish(u) \/ NotPublished(u) \/ Finish(u)
       \/ ReadUser(u) \/ Stall(u)
       \/ \E w \in Worker : Take(w, u)
  \/ \E w \in Worker : Handle(w) \/ Crash(w)
  \/ SaveUser

\* A request ends, workers take and run jobs, and BullMQ finds the stalled
\* jobs of dead workers at every stalledInterval.
Fairness ==
  /\ \A u \in Users :
       /\ WF_vars(Finish(u)) /\ WF_vars(\E w \in Worker : Take(w, u)) /\ WF_vars(Stall(u))
  /\ \A w \in Worker : WF_vars(Handle(w))

Spec == Init /\ [][Next]_vars /\ Fairness

-----------------------------------------------------------------------------
(* Properties *)

\* The progress stored after the handler keeps a retry from sending again: a
\* second e-mail needs a run that ended badly before the progress was stored.
DuplicatesArePaidFor ==
  \A u \in Users : mails[u] <= lost[u] + 1 /\ texts[u] <= lost[u] + 1

\* The row tells the administrator how the job ended.  Completed: both statuses
\* say so and every message was delivered, or refused by a provider, which the
\* services turn into an answer the handler does not read; unless another run of
\* the job or a request with an older copy has written since.  Given up: one
\* shows an error, unless the catch block could not write it or the row was
\* disturbed.
OutcomeIsVisible ==
  \A u \in Users :
    row[u] # NoRow =>
      /\ job[u].state = "completed" /\ upset[u] \cap {"stall", "overwritten"} = {} =>
           /\ row[u].email = "SENT" /\ (mails[u] > 0 \/ "email" \in refused[u])
           /\ IF u \in HasPhone
              THEN row[u].sms = "SENT" /\ (texts[u] > 0 \/ "sms" \in refused[u])
              ELSE row[u].sms = "NOT_PROVIDED"
      /\ job[u].state = "failed" /\ upset[u] = {} =>
           "SEND_ERROR" \in {row[u].email, row[u].sms}

\* What user.service.ts says: "Send welcome email with password - only if user
\* was created successfully".
MailOnlyIfCreated == \A u \in Users : mails[u] > 0 => request[u] # "failed"

\* A user who was created has a job, published before the commit, and whatever
\* fails, stalls or dies the job is settled: attempts and stalls end.
RegisteredIsSettled ==
  \A u \in Users : request[u] = "committed" ~> job[u].state \in {"completed", "failed"}
=============================================================================
