------------------------------- MODULE Accounts -------------------------------
(***************************************************************************)
(* The account of one user: its row, sessions, refresh tokens, e-mail      *)
(* verification and password resets, under concurrent requests of the user *)
(* and of administrators (auth and user commands, AuthService,             *)
(* SessionService, UserService, the User entity).                          *)
(*                                                                         *)
(* Every request runs in one transaction of its controller, PostgreSQL at  *)
(* READ COMMITTED: a statement sees committed rows and the transaction's   *)
(* own.  A write waits for the transactions that have written its rows,    *)
(* then leaves out those that are gone, and does not see new ones.  Rows   *)
(* written are collected in draft, ins and del until the commit.           *)
(* UserRepository.update writes every column of the entity that was read,  *)
(* and deletes and inserts the rows of its roles.                          *)
(*                                                                         *)
(* Program gives every command its statements; the actions are what a      *)
(* statement does.  Who may call a command, names, profiles and codes as   *)
(* text are left out.                                                      *)
(***************************************************************************)
EXTENDS Integers, Sequences, FiniteSets

CONSTANTS
  Request,       \* request slots of the server
  None,          \* no value
  Gone,          \* no row
  Mail,          \* e-mail addresses
  Op,            \* the commands that are sent
  MaxSessions,   \* business rule: active sessions of a user
  MaxRequests    \* bound of the model: requests in a behaviour

VARIABLES
  user,      \* the committed row of the user, or Gone
  rows,      \* committed rows of the other tables
  late,      \* the date of the first temporary bans has passed
  issued,    \* numbers given to sessions, with their refresh token, and to reset links
  asked,     \* requests so far
  job,       \* what a request is about
  pc,        \* position in its program, 0 when the slot is free
  seen,      \* the user entity it has read
  pick,      \* the session it will evict
  new,       \* the number of the session or link it creates
  aim,       \* the rows its statement waits for, None if it does not wait
  draft,     \* the user row it has written, or Gone; None if it has not
  ins, del,  \* other rows it has inserted and deleted
  heirs,     \* history: which session was born from which refresh token
  cause      \* history: the races that have happened

tx == <<job, pc, seen, pick, new, aim, draft, ins, del>>
vars == <<user, rows, late, issued, asked, tx, heirs, cause>>

Command ==
  {"login", "askCode", "verify", "refresh", "logout", "logoutAll", "password", "adminPassword",
   "mail", "adminMail", "askReset", "reset", "activate", "deactivate", "ban", "banUntil", "unban",
   "addRole", "removeRole", "delete",
   "editActive", "editInactive", "editVerified", "editBan", "editUnban"}
User == [active : BOOLEAN, reactivable : BOOLEAN, ban : {"none", "early", "later"},
         mail : Mail, flag : BOOLEAN, secret : 0..MaxRequests, role : BOOLEAN]
Item == [kind : {"session", "token", "reset", "used", "roles"}, of : Nat]
          \cup [kind : {"code", "verified"}, of : Nat, mail : Mail]
Job == [op : Op \cup {"loginCode"}, n : Nat, mail : Mail,
        given : 0..MaxRequests, secret : 0..MaxRequests]

ASSUME AccountsAssumption ==
  /\ Op \subseteq Command
  /\ Mail # {}
  /\ None # Gone /\ {None, Gone} \cap User = {}
  /\ MaxSessions \in Nat \ {0}
  /\ MaxRequests \in Nat

NoJob == [op |-> "loginCode", n |-> 0, mail |-> CHOOSE m \in Mail : TRUE, given |-> 0, secret |-> 0]

Session(n) == [kind |-> "session", of |-> n]
Token(n) == [kind |-> "token", of |-> n]
Reset(n) == [kind |-> "reset", of |-> n]
Used(n) == [kind |-> "used", of |-> n]
Code(n, m) == [kind |-> "code", of |-> n, mail |-> m]
Verified(n, m) == [kind |-> "verified", of |-> n, mail |-> m]
Codes(S, m) == {r \in S : r.kind \in {"code", "verified"} /\ r.mail = m}
\* The rows of the user's roles, as request v has written them.
Roles(v) == [kind |-> "roles", of |-> v]
Kind(S, k) == {r \in S : r.kind = k}

-----------------------------------------------------------------------------
(* The User entity.  A method that throws has the value None. *)

\* isBanned
Banned(u) == IF u.ban = "none" THEN ~u.reactivable /\ ~u.active
             ELSE u.ban = "later" \/ ~late

\* Faulty: a banned user is activated.
ActivateAnyone(u) == [u EXCEPT !.active = TRUE]

Activate(u) == IF u.active THEN u
               ELSE IF u.reactivable THEN [u EXCEPT !.active = TRUE] ELSE None

Deactivate(u) == [u EXCEPT !.active = FALSE]

BanUser(u) == [u EXCEPT !.ban = IF late THEN "later" ELSE "early",
                        !.reactivable = FALSE, !.active = FALSE]

PermanentlyBanUser(u) == [u EXCEPT !.ban = "none", !.reactivable = FALSE, !.active = FALSE]

UnbanUser(u) == [u EXCEPT !.ban = "none", !.reactivable = TRUE]

\* Faulty: the hash is stored before it is computed.
ChangePasswordUnhashed(u, v) == IF u.active THEN [u EXCEPT !.secret = None] ELSE None

ChangePassword(u, v) == IF u.active THEN [u EXCEPT !.secret = v] ELSE None

\* The flag of the old address stays.
ChangeEmail(u, m) == IF u.active THEN [u EXCEPT !.mail = m] ELSE None

MarkEmailAsVerified(u) == [u EXCEPT !.flag = TRUE]

AddRole(u) == IF u.active \/ u.role THEN [u EXCEPT !.role = TRUE] ELSE None

RemoveRole(u) == IF u.active THEN [u EXCEPT !.role = FALSE] ELSE None

\* updateUserProfile: activation, verification and ban are columns like others.
\* It leaves the sessions alone.
UpdateUserProfile(op, u) ==
  CASE op = "editActive" -> Activate(u)
    [] op = "editInactive" -> Deactivate(u)
    [] op = "editVerified" -> MarkEmailAsVerified(u)
    [] op = "editBan" -> BanUser(u)
    [] op = "editUnban" -> UnbanUser(u)

\* What the command makes of the entity.
Change(j, u) ==
  CASE j.op \in {"password", "adminPassword", "reset"} -> ChangePassword(u, j.secret)
    [] j.op \in {"mail", "adminMail"} -> ChangeEmail(u, j.mail)
    [] j.op = "verify" -> MarkEmailAsVerified(u)
    [] j.op = "activate" -> Activate(u)
    [] j.op = "deactivate" -> Deactivate(u)
    [] j.op = "ban" -> PermanentlyBanUser(u)
    [] j.op = "banUntil" -> BanUser(u)
    [] j.op = "unban" -> UnbanUser(u)
    [] j.op = "addRole" -> AddRole(u)
    [] j.op = "removeRole" -> RemoveRole(u)
    [] OTHER -> UpdateUserProfile(j.op, u)

-----------------------------------------------------------------------------
(* The commands: their statements in order. *)

RevokeSessionsThenTokens == <<"dropSessions", "dropTokens">>
\* generateTokens and createSession
IssueSession == <<"dropTokens", "addToken", "room", "evict", "addSession">>
UpdateLastLogin == <<"read", "touch">>

Login == <<"authenticate">> \o UpdateLastLogin \o <<"isVerified">> \o IssueSession
SendVerificationEmail == <<"isFlagged", "dropCodes", "addCode">>
VerifyEmail == <<"findCode", "markCode", "write">> \o UpdateLastLogin \o IssueSession
\* Faulty: several devices keep their tokens.
RefreshTokenKeeping ==
  <<"findToken", "notBanned", "findSession", "addToken",
    "findSession", "dropOwn", "room", "evict", "addSession">>
RefreshToken ==
  <<"findToken", "notBanned", "findSession", "claim", "dropTokens", "addToken",
    "findSession", "dropOwn", "room", "evict", "addSession">>
LogoutLocal == <<"dropOwn">>
LogoutGlobal == RevokeSessionsThenTokens
ChangeOwnPassword == <<"checkSecret", "write", "dropOthers">>
AdminChangePassword == <<"read", "write">>
ChangeOwnEmail == <<"checkSecret", "read", "write", "dropOthers">>
AdminChangeEmail == <<"checkSecret", "read", "write", "dropSessions">>
RequestPasswordReset == <<"dropResets", "addReset">>
\* Faulty: in the order of the other commands that revoke.
ResetPasswordSessionsFirst == <<"findReset", "write", "useReset", "dropSessions", "dropTokens">>
ResetPassword == <<"findReset", "write", "useReset", "dropTokens", "dropSessions">>
ActivateUser == <<"read", "write">> \o RevokeSessionsThenTokens
BanUserCommand == <<"unlessBanned", "read", "write">> \o RevokeSessionsThenTokens
UnbanUserCommand == <<"onlyBanned", "read", "write">>
AssignRole == <<"read", "write">> \o RevokeSessionsThenTokens
EditProfile == <<"read", "write">>
DeleteUser == <<"erase">>

Program == [op \in Op \cup {"loginCode"} |->
  CASE op = "login" -> Login
    [] op \in {"askCode", "loginCode"} -> SendVerificationEmail
    [] op = "verify" -> VerifyEmail
    [] op = "refresh" -> RefreshToken
    [] op = "logout" -> LogoutLocal
    [] op = "logoutAll" -> LogoutGlobal
    [] op = "password" -> ChangeOwnPassword
    [] op = "adminPassword" -> AdminChangePassword
    [] op = "mail" -> ChangeOwnEmail
    [] op = "adminMail" -> AdminChangeEmail
    [] op = "askReset" -> RequestPasswordReset
    [] op = "reset" -> ResetPassword
    [] op \in {"activate", "deactivate"} -> ActivateUser
    [] op \in {"ban", "banUntil"} -> BanUserCommand
    [] op = "unban" -> UnbanUserCommand
    [] op \in {"addRole", "removeRole"} -> AssignRole
    [] op = "delete" -> DeleteUser
    [] OTHER -> EditProfile]

\* Commands of a signed-in user; the guard has let its session pass.
OfSession == {"logout", "logoutAll", "password", "mail"}


-----------------------------------------------------------------------------
(* The database. *)

Label(p) == IF pc[p] = 0 THEN "free"
            ELSE IF pc[p] > Len(Program[job[p].op]) THEN "commit" ELSE Program[job[p].op][pc[p]]

Others(p) == Request \ {p}
Visible(p) == (rows \ del[p]) \cup ins[p]
VisibleUser(p) == IF draft[p] = None THEN user ELSE draft[p]

\* Rows with what an update can have made of them.
Versions(S) ==
  S \cup {Used(r.of) : r \in Kind(S, "reset")} \cup {Verified(r.of, r.mail) : r \in Kind(S, "code")}

\* The rows that a statement deletes or updates.
Aim(p) ==
  LET l == Label(p)  V == Visible(p) IN
  CASE l = "dropTokens" -> Kind(V, "token")
    [] l = "dropSessions" -> Kind(V, "session")
    [] l = "dropOthers" -> Kind(V, "session") \ {Session(job[p].n)}
    [] l = "dropOwn" -> V \cap {Session(job[p].n)}
    [] l = "evict" -> V \cap {Session(pick[p])}
    [] l = "dropResets" -> Versions(Kind(V, "reset") \cup Kind(V, "used"))
    [] l = "dropCodes" -> Versions(Codes(V, job[p].mail))
    [] l = "claim" -> {Token(job[p].n)}
    [] l = "useReset" -> Versions({Reset(job[p].n)})
    [] l = "markCode" -> Versions({Code(job[p].n, job[p].mail)})
    [] l \in {"write", "touch"} -> Kind(V, "roles")
    [] l = "erase" -> {r \in V : r.kind \notin {"code", "verified"}}
    [] OTHER -> {}

\* The rows it aimed at when it began to wait.  A delete that cascades finds the rows
\* when it has the user.
Aimed(p) == IF aim[p] = None \/ Label(p) = "erase" THEN Aim(p) ELSE aim[p]

\* A row that refers to the user cannot be inserted beside a change of its key.
Refers == {"addToken", "addSession", "addReset"}
ChangesKey(q) == draft[q] # None /\ (draft[q] = Gone \/ user = Gone \/ draft[q].mail # user.mail)
HasReferring(q) == \E r \in ins[q] : r.kind \in {"session", "token", "reset"}
WillChangeKey(p) == \/ Label(p) = "erase"
                    \/ Label(p) = "write" /\ job[p].op \in {"mail", "adminMail"}

\* The transactions a statement waits for.
Blockers(p) ==
  {q \in Others(p) :
     \/ del[q] \cap Aimed(p) # {}
     \/ Label(p) \in {"write", "touch", "erase"} /\ draft[q] # None
     \/ Label(p) \in Refers /\ ChangesKey(q)
     \/ WillChangeKey(p) /\ HasReferring(q)}

Pass(p) == pc' = [pc EXCEPT ![p] = @ + 1]
Finish(p) == pc' = [pc EXCEPT ![p] = Len(Program[job[p].op]) + 1]
Shared == <<user, rows, late, asked, heirs>>

\* The transaction ends and what it has written is no longer its own.
Release(p) ==
  /\ job' = [job EXCEPT ![p] = NoJob]
  /\ pc' = [pc EXCEPT ![p] = 0]
  /\ seen' = [seen EXCEPT ![p] = None]
  /\ pick' = [pick EXCEPT ![p] = 0]
  /\ new' = [new EXCEPT ![p] = 0]
  /\ aim' = [aim EXCEPT ![p] = None]
  /\ draft' = [draft EXCEPT ![p] = None]
  /\ ins' = [ins EXCEPT ![p] = {}]
  /\ del' = [del EXCEPT ![p] = {}]

\* An exception: the controller's transaction is rolled back.
Fail(p) == Release(p) /\ UNCHANGED <<Shared, issued, cause>>

-----------------------------------------------------------------------------
(* Requests. *)

\* What a request may name: the account's address, or another one to change to;
\* a session the guard has let pass; any refresh token or link that was sent.
Numbers(op) == IF op \in OfSession THEN {r.of : r \in Kind(rows, "session")}
               ELSE IF op \in {"refresh", "reset", "verify"} THEN 0..issued ELSE {0}
Mails(op) == IF op \in {"mail", "adminMail"} THEN Mail \ {user.mail} ELSE {user.mail}

Begin(p, op) ==
  /\ pc[p] = 0 /\ asked < MaxRequests
  /\ user # Gone
  /\ asked' = asked + 1
  /\ \E n \in Numbers(op), m \in Mails(op) :
       job' = [job EXCEPT ![p] = [op |-> op, n |-> n, mail |-> m,
                                  given |-> user.secret, secret |-> asked + 1]]
  /\ pc' = [pc EXCEPT ![p] = 1]
  /\ UNCHANGED <<user, rows, late, issued, heirs, cause, seen, pick, new, aim, draft, ins, del>>

\* A statement that only reads: the request goes on or fails.
Require(p, b) ==
  IF b THEN Pass(p) /\ UNCHANGED <<job, seen, pick, new, aim, draft, ins, del, Shared, issued, cause>>
       ELSE Fail(p)

\* validateLoginFlow: credentials, ban.
Authenticate(p) ==
  LET u == VisibleUser(p) IN
  /\ Label(p) = "authenticate"
  /\ Require(p, u # Gone /\ u.mail = job[p].mail /\ u.active /\ ~Banned(u) /\ u.secret = job[p].given)

\* findById; the cache of the command may still have what it read before.
CachedById == {"ban", "banUntil", "unban", "mail", "adminMail"}

Read(p) ==
  /\ Label(p) = "read"
  /\ \E u \in {VisibleUser(p)} \cup (IF job[p].op \in CachedById THEN {seen[p]} ELSE {}) :
       IF u = Gone THEN Fail(p)
       ELSE /\ seen' = [seen EXCEPT ![p] = u]
            /\ Pass(p)
            /\ UNCHANGED <<job, pick, new, aim, draft, ins, del, Shared, issued, cause>>

\* verifyCurrentPassword, or the check in changePassword.
CheckSecret(p) ==
  LET u == VisibleUser(p) IN
  /\ Label(p) = "checkSecret"
  /\ IF u = Gone \/ u.secret # job[p].given THEN Fail(p)
     ELSE /\ seen' = [seen EXCEPT ![p] = u]
          /\ Pass(p)
          /\ UNCHANGED <<job, pick, new, aim, draft, ins, del, Shared, issued, cause>>

\* ban-user and unban-user return early when there is nothing to do.
CheckBan(p) ==
  LET u == VisibleUser(p) IN
  /\ Label(p) \in {"unlessBanned", "onlyBanned"}
  /\ IF u = Gone THEN Fail(p)
     ELSE /\ seen' = [seen EXCEPT ![p] = u]
          /\ IF Banned(u) = (Label(p) = "onlyBanned") THEN Pass(p) ELSE Finish(p)
          /\ UNCHANGED <<job, pick, new, aim, draft, ins, del, Shared, issued, cause>>

NotBanned(p) ==
  /\ Label(p) = "notBanned"
  /\ Require(p, VisibleUser(p) # Gone /\ ~Banned(VisibleUser(p)))

FindToken(p) ==
  /\ Label(p) = "findToken"
  /\ Require(p, Token(job[p].n) \in Visible(p))

FindSession(p) ==
  /\ Label(p) = "findSession"
  /\ Require(p, Session(job[p].n) \in Visible(p))

\* validatePasswordResetToken: the link is there and unused.
FindReset(p) ==
  /\ Label(p) = "findReset"
  /\ IF Reset(job[p].n) \notin Visible(p) \/ VisibleUser(p) = Gone THEN Fail(p)
     ELSE /\ seen' = [seen EXCEPT ![p] = VisibleUser(p)]
          /\ Pass(p)
          /\ UNCHANGED <<job, pick, new, aim, draft, ins, del, Shared, issued, cause>>

\* verifyEmailCode finds a code again that was verified before.
FindCode(p) ==
  LET u == VisibleUser(p)  m == job[p].mail IN
  /\ Label(p) = "findCode"
  /\ IF u = Gone \/ Versions({Code(job[p].n, m)}) \cap Visible(p) = {} THEN Fail(p)
     ELSE /\ seen' = [seen EXCEPT ![p] = u]
          /\ Pass(p)
          /\ UNCHANGED <<job, pick, new, aim, draft, ins, del, Shared, issued, cause>>

\* Without a verified address the login sends a code instead.
IsVerified(p) ==
  /\ Label(p) = "isVerified"
  /\ IF \E r \in Kind(Visible(p), "verified") : \A o \in Codes(Visible(p), job[p].mail) : o.of <= r.of
     THEN Pass(p) /\ UNCHANGED job
     ELSE /\ job' = [job EXCEPT ![p].op = "loginCode"]
          /\ pc' = [pc EXCEPT ![p] = 1]
  /\ UNCHANGED <<seen, pick, new, aim, draft, ins, del, Shared, issued, cause>>

\* An account whose flag is set gets no code; inside a login the refusal is logged.
IsFlagged(p) ==
  LET u == VisibleUser(p) IN
  /\ Label(p) = "isFlagged"
  /\ IF u # Gone /\ u.flag /\ job[p].op = "loginCode"
     THEN Finish(p) /\ UNCHANGED <<job, seen, pick, new, aim, draft, ins, del, Shared, issued, cause>>
     ELSE Require(p, u # Gone /\ ~u.flag /\ u.mail = job[p].mail)

\* Faulty: a session at the limit still finds room.
RoomForOneMore(p) ==
  LET S == {r.of : r \in Kind(Visible(p), "session")} IN
  /\ Label(p) = "room"
  /\ IF Cardinality(S) > MaxSessions
     THEN pick' = [pick EXCEPT ![p] = CHOOSE n \in S : \A k \in S : n <= k]
     ELSE UNCHANGED pick
  /\ Pass(p)
  /\ UNCHANGED <<job, seen, new, aim, draft, ins, del, Shared, issued, cause>>

\* enforceMaxActiveSessions: full, so the oldest session has to go.
Room(p) ==
  LET S == {r.of : r \in Kind(Visible(p), "session")} IN
  /\ Label(p) = "room"
  /\ IF Cardinality(S) >= MaxSessions
     THEN pick' = [pick EXCEPT ![p] = CHOOSE n \in S : \A k \in S : n <= k]
     ELSE UNCHANGED pick
  /\ Pass(p)
  /\ UNCHANGED <<job, seen, new, aim, draft, ins, del, Shared, issued, cause>>

-----------------------------------------------------------------------------
(* Statements that write. *)

\* A statement that has to wait remembers the rows it has found.
Wait(p) ==
  /\ pc[p] # 0 /\ aim[p] = None /\ Blockers(p) # {}
  /\ aim' = [aim EXCEPT ![p] = Aim(p)]
  /\ UNCHANGED <<job, pc, seen, pick, new, draft, ins, del, Shared, issued, cause>>

Writing(p, L) == Label(p) \in L /\ Blockers(p) = {}

\* The transaction deletes and inserts rows.
Put(p, D, I) ==
  /\ del' = [del EXCEPT ![p] = @ \cup (D \cap rows)]
  /\ ins' = [ins EXCEPT ![p] = (@ \ D) \cup I]
  /\ aim' = [aim EXCEPT ![p] = None]

\* The commands that issue a session.
Issuing == {"login", "verify", "refresh"}

\* deleteMany.  Refresh tokens that were committed while it waited are missed.
Drop(p) ==
  /\ Writing(p, {"dropTokens", "dropSessions", "dropOthers", "dropOwn", "evict", "dropResets", "dropCodes"})
  /\ Put(p, Aimed(p), {})
  /\ cause' = IF Label(p) = "dropTokens" /\ job[p].op \in Issuing /\ ~(Aim(p) \subseteq Aimed(p))
              THEN cause \cup {"missed"} ELSE cause
  /\ Pass(p)
  /\ UNCHANGED <<job, seen, pick, new, draft, Shared, issued>>

\* revokeRefreshToken updates the row by its id.  The row is deleted by the next
\* statement of the transaction, so it is deleted here.
Claim(p) ==
  /\ Writing(p, {"claim"})
  /\ IF Token(job[p].n) \notin Visible(p) THEN Fail(p)
     ELSE /\ Put(p, {Token(job[p].n)}, {})
          /\ Pass(p)
          /\ UNCHANGED <<job, seen, pick, new, draft, Shared, issued, cause>>

\* UserRepository.update deletes the rows of the roles, updates the user and inserts
\* the roles: those another transaction inserted while it waited are duplicates.
UpdateUser(p, u) ==
  IF u = None \/ VisibleUser(p) = Gone \/ ~(Aim(p) \subseteq Aimed(p)) THEN Fail(p)
  ELSE /\ draft' = [draft EXCEPT ![p] = u]
       /\ Put(p, Aimed(p), {Roles(job[p].secret)})
       /\ seen' = [seen EXCEPT ![p] = u]
       /\ cause' = IF VisibleUser(p) # seen[p] THEN cause \cup {"stale"} ELSE cause
       /\ Pass(p)
       /\ UNCHANGED <<job, pick, new, Shared, issued>>

WriteUser(p) == Writing(p, {"write"}) /\ UpdateUser(p, Change(job[p], seen[p]))
Touch(p) == Writing(p, {"touch"}) /\ UpdateUser(p, seen[p])

\* Faulty: the link stays as it was.
UseResetUnmarked(p) ==
  /\ Writing(p, {"useReset"})
  /\ Pass(p)
  /\ UNCHANGED <<job, seen, pick, new, aim, draft, ins, del, Shared, issued, cause>>

\* passwordReset.markAsUsed, by id: the link may have been used since it was read.
UseReset(p) ==
  /\ Writing(p, {"useReset"})
  /\ IF Aim(p) \cap Visible(p) = {} THEN Fail(p)
     ELSE /\ Put(p, Aim(p), {Used(job[p].n)})
          /\ Pass(p)
          /\ UNCHANGED <<job, seen, pick, new, draft, Shared, issued, cause>>

MarkCode(p) ==
  /\ Writing(p, {"markCode"})
  /\ IF Aim(p) \cap Visible(p) = {} THEN Fail(p)
     ELSE /\ Put(p, Aim(p), {Verified(job[p].n, job[p].mail)})
          /\ Pass(p)
          /\ UNCHANGED <<job, seen, pick, new, draft, Shared, issued, cause>>

\* Rows of the user are refused without the user.
Insert(p, r) ==
  IF VisibleUser(p) = Gone THEN Fail(p)
  ELSE /\ Put(p, {}, {r})
       /\ issued' = IF r.of > issued THEN r.of ELSE issued
       /\ new' = [new EXCEPT ![p] = r.of]
       /\ Pass(p)
       /\ UNCHANGED <<job, seen, pick, draft, Shared, cause>>

AddToken(p) == Writing(p, {"addToken"}) /\ Insert(p, Token(issued + 1))
AddSession(p) == Writing(p, {"addSession"}) /\ Insert(p, Session(new[p]))
AddReset(p) == Writing(p, {"addReset"}) /\ Insert(p, Reset(issued + 1))
AddCode(p) == Writing(p, {"addCode"}) /\ Insert(p, Code(issued + 1, job[p].mail))

\* The rows that refer to the user go with it.
Erase(p) ==
  /\ Writing(p, {"erase"})
  /\ IF VisibleUser(p) = Gone THEN Fail(p)
     ELSE /\ draft' = [draft EXCEPT ![p] = Gone]
          /\ Put(p, Aimed(p), {})
          /\ Pass(p)
          /\ UNCHANGED <<job, seen, pick, new, Shared, issued, cause>>

-----------------------------------------------------------------------------
(* The end of a request. *)

Commit(p) ==
  /\ Label(p) = "commit"
  /\ user' = VisibleUser(p)
  /\ rows' = Visible(p)
  /\ heirs' = IF job[p].op = "refresh" THEN heirs \cup {<<"token", job[p].n, new[p]>>}
              ELSE IF job[p].op = "reset" THEN heirs \cup {<<"link", job[p].n, job[p].secret>>}
              ELSE heirs
  /\ Release(p)
  /\ UNCHANGED <<late, issued, asked, cause>>

\* PostgreSQL ends a circle of waiting transactions by failing one of them.
InCircle(p) == \E S \in SUBSET Request : p \in S /\ \A q \in S : Blockers(q) \cap S # {}

FailVictim(p) == InCircle(p) /\ Fail(p)

BanRunsOut ==
  /\ ~late
  /\ user # Gone /\ user.ban = "early"
  /\ late' = TRUE
  /\ UNCHANGED <<user, rows, issued, asked, tx, heirs, cause>>

Statement(p) ==
  \/ Authenticate(p) \/ Read(p) \/ CheckSecret(p) \/ CheckBan(p) \/ NotBanned(p)
  \/ FindToken(p) \/ FindSession(p) \/ FindReset(p) \/ FindCode(p)
  \/ IsVerified(p) \/ IsFlagged(p) \/ Room(p) \/ Wait(p)
  \/ Drop(p) \/ Claim(p) \/ WriteUser(p) \/ Touch(p) \/ UseReset(p) \/ MarkCode(p)
  \/ AddToken(p) \/ AddSession(p) \/ AddReset(p) \/ AddCode(p) \/ Erase(p)
  \/ Commit(p)

\* A signed-in user with as many devices as allowed, the last with the refresh token,
\* and a link to reset the password; or a new one with a code for the address.
Init ==
  /\ \E m \in Mail, verified \in BOOLEAN :
       /\ user = [active |-> TRUE, reactivable |-> TRUE, ban |-> "none", mail |-> m,
                  flag |-> verified, secret |-> 0, role |-> TRUE]
       /\ rows = IF verified
                 THEN {Session(n) : n \in 1..MaxSessions}
                        \cup {Token(MaxSessions), Reset(0), Verified(0, m), Roles(0)}
                 ELSE {Code(0, m), Roles(0)}
       /\ issued = IF verified THEN MaxSessions ELSE 0
  /\ late = FALSE
  /\ asked = 0
  /\ job = [p \in Request |-> NoJob]
  /\ pc = [p \in Request |-> 0]
  /\ seen = [p \in Request |-> None]
  /\ pick = [p \in Request |-> 0]
  /\ new = [p \in Request |-> 0]
  /\ aim = [p \in Request |-> None]
  /\ draft = [p \in Request |-> None]
  /\ ins = [p \in Request |-> {}]
  /\ del = [p \in Request |-> {}]
  /\ heirs = {}
  /\ cause = {}

Next ==
  \/ BanRunsOut
  \/ \E p \in Request : \/ \E op \in Op : Begin(p, op)
                       \/ Statement(p) \/ FailVictim(p)

Spec == Init /\ [][Next]_vars

-----------------------------------------------------------------------------
(* Properties. *)

TypeOK ==
  /\ user \in User \cup {Gone}
  /\ rows \subseteq Item
  /\ late \in BOOLEAN
  /\ issued \in Nat
  /\ asked \in 0..MaxRequests
  /\ job \in [Request -> Job]
  /\ pc \in [Request -> 0..12]
  /\ seen \in [Request -> User \cup {None}]
  /\ pick \in [Request -> Nat]
  /\ new \in [Request -> Nat]
  /\ aim \in [Request -> {None} \cup SUBSET Item]
  /\ draft \in [Request -> User \cup {Gone, None}]
  /\ ins \in [Request -> SUBSET Item]
  /\ del \in [Request -> SUBSET Item]
  /\ cause \subseteq {"stale", "missed"}

\* A refresh token gives one new session, however often and however close together it
\* is presented (RefreshTokenCommandHandler: the token is found, the session checked, the
\* token revoked and the session replaced in separate statements).
RefreshOnce ==
  \A h, k \in heirs : h[1] = "token" /\ k[1] = "token" /\ h[2] = k[2] => h = k

\* A link resets the password once, unless a request wrote the user as it was before
\* another one's change: then two uses of one link overlapped (resetPassword reads the
\* link before it writes the password and marks the link after).
ResetOnce ==
  "stale" \notin cause =>
    \A h, k \in heirs : h[1] = "link" /\ k[1] = "link" /\ h[2] = k[2] => h = k

\* The limit of sessions is kept although they are counted before they are added
\* (enforceMaxActiveSessions): updateLastLogin and the refresh tokens keep logins and
\* refreshes apart, unless one of them has let a refresh token through, which was
\* committed while its deleteMany waited.
SessionLimit == Cardinality(Kind(rows, "session")) <= MaxSessions \/ "missed" \in cause

\* A ban ends by its date, by an unban or with the account, and otherwise only when a
\* request writes back the user it read before the ban.
Unbanning == {"unban", "editUnban"}
BanStands ==
  [][user # Gone /\ Banned(user) /\ late' = late
       => \/ user' = Gone \/ Banned(user')
          \/ "stale" \in cause
          \/ \E p \in Request : Label(p) = "commit" /\ job[p].op \in Unbanning]_vars

\* Transactions wait for each other in a circle only when one of them takes its rows
\* against the common order (user, refresh tokens, sessions): the commands that revoke
\* sessions before refresh tokens, and an unverified login, which writes the user
\* before the codes while a verification writes the code before the user.  A stale user
\* written back may change the address, which locks out the rows that refer to it;
\* and of two refresh tokens that are valid together each waits for the other.
AgainstOrder == {"logoutAll", "activate", "deactivate", "ban", "banUntil", "addRole", "removeRole", "loginCode"}
CirclesNeedDisorder ==
  \A p \in Request :
    InCircle(p) => \/ cause # {}
                   \/ \E q \in Request : InCircle(q) /\ job[q].op \in AgainstOrder
=============================================================================
