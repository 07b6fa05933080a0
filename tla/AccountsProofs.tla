--------------------------- MODULE AccountsProofs ---------------------------
(***************************************************************************)
(* Proofs about the account of one user under concurrent requests.         *)
(*                                                                         *)
(* Steps and effects: a table reads the programs of the commands, and      *)
(* every action is shown to be one of a few kinds of steps that change one *)
(* request and, if it commits, the tables.                                 *)
(* Base: row locks and keys keep the transactions apart; a transaction     *)
(* holds what the statements behind it have deleted and inserted.          *)
(* Tokens: a refresh holds its token from the claim on, and a token that   *)
(* has given a session is gone.                                            *)
(* Links: every change of the password has a hash of its own, so a reset   *)
(* that overtakes another one on the same link has read a stale user.      *)
(* Bans: a user that is not stale is written back with its ban.            *)
(* Sessions: whoever has deleted the refresh tokens is alone in counting   *)
(* and adding sessions.                                                    *)
(* Circles: a transaction that waits in the common order waits for one at  *)
(* a later statement.                                                      *)
(***************************************************************************)
EXTENDS Accounts, FiniteSetTheorems, WellFoundedInduction, TLAPS

-----------------------------------------------------------------------------
(* Where a statement stands. *)

Edits == {"editActive", "editInactive", "editVerified", "editBan", "editUnban"}

\* Statement k of command op.
Line(op, k) ==
  IF k = 0 THEN "free" ELSE IF k > Len(Program[op]) THEN "commit" ELSE Program[op][k]

\* The statements of each command.
\* LoginCommandHandler: credentials, last login, verified address, session.
LEMMA LoginLines ==
  ASSUME NEW op \in Op \cup {"loginCode"}, op \in {"login"}
  PROVE  /\ Len(Program[op]) = 9
         /\ Program[op][1] = "authenticate" /\ Program[op][2] = "read"
         /\ Program[op][3] = "touch" /\ Program[op][4] = "isVerified"
         /\ Program[op][5] = "dropTokens" /\ Program[op][6] = "addToken"
         /\ Program[op][7] = "room" /\ Program[op][8] = "evict"
         /\ Program[op][9] = "addSession"
<1>1. Program[op] = Login
  BY DEF Program
<1>2. Len(Login) = 9
  BY DEF Login, UpdateLastLogin, IssueSession
<1>3. Login[1] = "authenticate" /\ Login[2] = "read"
  BY DEF Login, UpdateLastLogin, IssueSession
<1>4. Login[3] = "touch" /\ Login[4] = "isVerified"
  BY DEF Login, UpdateLastLogin, IssueSession
<1>5. Login[5] = "dropTokens" /\ Login[6] = "addToken"
  BY DEF Login, UpdateLastLogin, IssueSession
<1>6. Login[7] = "room" /\ Login[8] = "evict"
  BY DEF Login, UpdateLastLogin, IssueSession
<1>7. Login[9] = "addSession"
  BY DEF Login, UpdateLastLogin, IssueSession
<1> QED
  BY <1>1, <1>2, <1>3, <1>4, <1>5, <1>6, <1>7

\* SendVerificationEmailCommandHandler.
LEMMA AskCodeLines ==
  ASSUME NEW op \in Op \cup {"loginCode"}, op \in {"askCode", "loginCode"}
  PROVE  /\ Len(Program[op]) = 3
         /\ Program[op][1] = "isFlagged" /\ Program[op][2] = "dropCodes"
         /\ Program[op][3] = "addCode"
BY DEF Program, SendVerificationEmail

\* VerifyEmailCommandHandler marks the code and the user, then logs in.
LEMMA VerifyLines ==
  ASSUME NEW op \in Op \cup {"loginCode"}, op \in {"verify"}
  PROVE  /\ Len(Program[op]) = 10
         /\ Program[op][1] = "findCode" /\ Program[op][2] = "markCode"
         /\ Program[op][3] = "write" /\ Program[op][4] = "read"
         /\ Program[op][5] = "touch" /\ Program[op][6] = "dropTokens"
         /\ Program[op][7] = "addToken" /\ Program[op][8] = "room"
         /\ Program[op][9] = "evict" /\ Program[op][10] = "addSession"
<1>1. Program[op] = VerifyEmail
  BY DEF Program
<1>2. Len(VerifyEmail) = 10
  BY DEF VerifyEmail, UpdateLastLogin, IssueSession
<1>3. VerifyEmail[1] = "findCode" /\ VerifyEmail[2] = "markCode"
  BY DEF VerifyEmail, UpdateLastLogin, IssueSession
<1>4. VerifyEmail[3] = "write" /\ VerifyEmail[4] = "read"
  BY DEF VerifyEmail, UpdateLastLogin, IssueSession
<1>5. VerifyEmail[5] = "touch" /\ VerifyEmail[6] = "dropTokens"
  BY DEF VerifyEmail, UpdateLastLogin, IssueSession
<1>6. VerifyEmail[7] = "addToken" /\ VerifyEmail[8] = "room"
  BY DEF VerifyEmail, UpdateLastLogin, IssueSession
<1>7. VerifyEmail[9] = "evict" /\ VerifyEmail[10] = "addSession"
  BY DEF VerifyEmail, UpdateLastLogin, IssueSession
<1> QED
  BY <1>1, <1>2, <1>3, <1>4, <1>5, <1>6, <1>7

\* RefreshTokenCommandHandler claims its token before it issues the next session.
LEMMA RefreshLines ==
  ASSUME NEW op \in Op \cup {"loginCode"}, op \in {"refresh"}
  PROVE  /\ Len(Program[op]) = 11
         /\ Program[op][1] = "findToken" /\ Program[op][2] = "notBanned"
         /\ Program[op][3] = "findSession" /\ Program[op][4] = "claim"
         /\ Program[op][5] = "dropTokens" /\ Program[op][6] = "addToken"
         /\ Program[op][7] = "findSession" /\ Program[op][8] = "dropOwn"
         /\ Program[op][9] = "room" /\ Program[op][10] = "evict"
         /\ Program[op][11] = "addSession"
BY DEF Program, RefreshToken

\* LogoutCommandHandler on one device.
LEMMA LogoutLines ==
  ASSUME NEW op \in Op \cup {"loginCode"}, op \in {"logout"}
  PROVE  /\ Len(Program[op]) = 1
         /\ Program[op][1] = "dropOwn"
BY DEF Program, LogoutLocal

\* LogoutCommandHandler on all devices.
LEMMA LogoutAllLines ==
  ASSUME NEW op \in Op \cup {"loginCode"}, op \in {"logoutAll"}
  PROVE  /\ Len(Program[op]) = 2
         /\ Program[op][1] = "dropSessions" /\ Program[op][2] = "dropTokens"
BY DEF Program, LogoutGlobal, RevokeSessionsThenTokens

\* The change of one's own password.
LEMMA PasswordLines ==
  ASSUME NEW op \in Op \cup {"loginCode"}, op \in {"password"}
  PROVE  /\ Len(Program[op]) = 3
         /\ Program[op][1] = "checkSecret" /\ Program[op][2] = "write"
         /\ Program[op][3] = "dropOthers"
BY DEF Program, ChangeOwnPassword

\* The change of one's own address.
LEMMA MailLines ==
  ASSUME NEW op \in Op \cup {"loginCode"}, op \in {"mail"}
  PROVE  /\ Len(Program[op]) = 4
         /\ Program[op][1] = "checkSecret" /\ Program[op][2] = "read"
         /\ Program[op][3] = "write" /\ Program[op][4] = "dropOthers"
BY DEF Program, ChangeOwnEmail

\* The change of an address by an administrator.
LEMMA AdminMailLines ==
  ASSUME NEW op \in Op \cup {"loginCode"}, op \in {"adminMail"}
  PROVE  /\ Len(Program[op]) = 4
         /\ Program[op][1] = "checkSecret" /\ Program[op][2] = "read"
         /\ Program[op][3] = "write" /\ Program[op][4] = "dropSessions"
BY DEF Program, AdminChangeEmail

\* RequestPasswordResetCommandHandler replaces the links sent before.
LEMMA AskResetLines ==
  ASSUME NEW op \in Op \cup {"loginCode"}, op \in {"askReset"}
  PROVE  /\ Len(Program[op]) = 2
         /\ Program[op][1] = "dropResets" /\ Program[op][2] = "addReset"
BY DEF Program, RequestPasswordReset

\* ResetPasswordCommandHandler reads the link, writes the password and marks the link afterwards.
LEMMA ResetLines ==
  ASSUME NEW op \in Op \cup {"loginCode"}, op \in {"reset"}
  PROVE  /\ Len(Program[op]) = 5
         /\ Program[op][1] = "findReset" /\ Program[op][2] = "write"
         /\ Program[op][3] = "useReset" /\ Program[op][4] = "dropTokens"
         /\ Program[op][5] = "dropSessions"
BY DEF Program, ResetPassword

\* ActivateUserCommandHandler, which revokes after either change.
LEMMA ActivateLines ==
  ASSUME NEW op \in Op \cup {"loginCode"}, op \in {"activate", "deactivate"}
  PROVE  /\ Len(Program[op]) = 4
         /\ Program[op][1] = "read" /\ Program[op][2] = "write"
         /\ Program[op][3] = "dropSessions" /\ Program[op][4] = "dropTokens"
BY DEF Program, ActivateUser, RevokeSessionsThenTokens

\* AssignRoleCommandHandler and RemoveRoleCommandHandler.
LEMMA AddRoleLines ==
  ASSUME NEW op \in Op \cup {"loginCode"}, op \in {"addRole", "removeRole"}
  PROVE  /\ Len(Program[op]) = 4
         /\ Program[op][1] = "read" /\ Program[op][2] = "write"
         /\ Program[op][3] = "dropSessions" /\ Program[op][4] = "dropTokens"
BY DEF Program, AssignRole, RevokeSessionsThenTokens

\* BanUserCommandHandler, with and without a date.
LEMMA BanLines ==
  ASSUME NEW op \in Op \cup {"loginCode"}, op \in {"ban", "banUntil"}
  PROVE  /\ Len(Program[op]) = 5
         /\ Program[op][1] = "unlessBanned" /\ Program[op][2] = "read"
         /\ Program[op][3] = "write" /\ Program[op][4] = "dropSessions"
         /\ Program[op][5] = "dropTokens"
BY DEF Program, BanUserCommand, RevokeSessionsThenTokens

\* UnbanUserCommandHandler.
LEMMA UnbanLines ==
  ASSUME NEW op \in Op \cup {"loginCode"}, op \in {"unban"}
  PROVE  /\ Len(Program[op]) = 3
         /\ Program[op][1] = "onlyBanned" /\ Program[op][2] = "read"
         /\ Program[op][3] = "write"
BY DEF Program, UnbanUserCommand

\* DeleteUserCommandHandler.
LEMMA DeleteLines ==
  ASSUME NEW op \in Op \cup {"loginCode"}, op \in {"delete"}
  PROVE  /\ Len(Program[op]) = 1
         /\ Program[op][1] = "erase"
BY DEF Program, DeleteUser

\* AdminChangePasswordCommandHandler.
LEMMA AdminPasswordLines ==
  ASSUME NEW op \in Op \cup {"loginCode"}, op \in {"adminPassword"}
  PROVE  /\ Len(Program[op]) = 2
         /\ Program[op][1] = "read" /\ Program[op][2] = "write"
BY DEF Program, AdminChangePassword

\* updateUserProfile with each of its columns.
LEMMA EditsLines ==
  ASSUME NEW op \in Op \cup {"loginCode"}, op \in Edits
  PROVE  /\ Len(Program[op]) = 2
         /\ Program[op][1] = "read" /\ Program[op][2] = "write"
BY DEF Program, EditProfile, Edits

\* Which commands are at a statement, and where in their program.
Standing(op, k) ==
  LET l == Line(op, k) IN
  /\ l = "authenticate" => op \in {"login"} /\ k = 1
  /\ l = "read" =>
       \/ op \in {"login", "mail", "adminMail", "ban", "banUntil", "unban"} /\ k = 2
       \/ op \in {"verify"} /\ k = 4
       \/ op \in {"activate", "deactivate", "addRole", "removeRole", "adminPassword"} \cup Edits /\ k = 1
  /\ l = "touch" =>
       \/ op \in {"login"} /\ k = 3
       \/ op \in {"verify"} /\ k = 5
  /\ l = "isVerified" => op \in {"login"} /\ k = 4
  /\ l = "dropTokens" =>
       \/ op \in {"login", "refresh", "ban", "banUntil"} /\ k = 5
       \/ op \in {"verify"} /\ k = 6
       \/ op \in {"logoutAll"} /\ k = 2
       \/ op \in {"reset", "activate", "deactivate", "addRole", "removeRole"} /\ k = 4
  /\ l = "addToken" =>
       \/ op \in {"login", "refresh"} /\ k = 6
       \/ op \in {"verify"} /\ k = 7
  /\ l = "room" =>
       \/ op \in {"login"} /\ k = 7
       \/ op \in {"verify"} /\ k = 8
       \/ op \in {"refresh"} /\ k = 9
  /\ l = "evict" =>
       \/ op \in {"login"} /\ k = 8
       \/ op \in {"verify"} /\ k = 9
       \/ op \in {"refresh"} /\ k = 10
  /\ l = "addSession" =>
       \/ op \in {"login"} /\ k = 9
       \/ op \in {"verify"} /\ k = 10
       \/ op \in {"refresh"} /\ k = 11
  /\ l = "isFlagged" => op \in {"askCode", "loginCode"} /\ k = 1
  /\ l = "dropCodes" => op \in {"askCode", "loginCode"} /\ k = 2
  /\ l = "addCode" => op \in {"askCode", "loginCode"} /\ k = 3
  /\ l = "findCode" => op \in {"verify"} /\ k = 1
  /\ l = "markCode" => op \in {"verify"} /\ k = 2
  /\ l = "write" =>
       \/ op \in {"verify", "mail", "adminMail", "ban", "banUntil", "unban"} /\ k = 3
       \/ op \in {"password", "reset", "activate", "deactivate", "addRole", "removeRole", "adminPassword"} \cup Edits /\ k = 2
  /\ l = "findToken" => op \in {"refresh"} /\ k = 1
  /\ l = "notBanned" => op \in {"refresh"} /\ k = 2
  /\ l = "findSession" =>
       \/ op \in {"refresh"} /\ k = 3
       \/ op \in {"refresh"} /\ k = 7
  /\ l = "claim" => op \in {"refresh"} /\ k = 4
  /\ l = "dropOwn" =>
       \/ op \in {"refresh"} /\ k = 8
       \/ op \in {"logout"} /\ k = 1
  /\ l = "dropSessions" =>
       \/ op \in {"logoutAll"} /\ k = 1
       \/ op \in {"adminMail", "ban", "banUntil"} /\ k = 4
       \/ op \in {"reset"} /\ k = 5
       \/ op \in {"activate", "deactivate", "addRole", "removeRole"} /\ k = 3
  /\ l = "checkSecret" => op \in {"password", "mail", "adminMail"} /\ k = 1
  /\ l = "dropOthers" =>
       \/ op \in {"password"} /\ k = 3
       \/ op \in {"mail"} /\ k = 4
  /\ l = "dropResets" => op \in {"askReset"} /\ k = 1
  /\ l = "addReset" => op \in {"askReset"} /\ k = 2
  /\ l = "findReset" => op \in {"reset"} /\ k = 1
  /\ l = "useReset" => op \in {"reset"} /\ k = 3
  /\ l = "unlessBanned" => op \in {"ban", "banUntil"} /\ k = 1
  /\ l = "onlyBanned" => op \in {"unban"} /\ k = 1
  /\ l = "erase" => op \in {"delete"} /\ k = 1
  /\ l = "free" <=> k = 0
  /\ l \notin {"free", "commit"} => k \in 1..11 /\ k <= Len(Program[op])
  /\ l = "commit" =>
       /\ op \in {"login"} => k >= 10
       /\ op \in {"askCode", "loginCode"} => k >= 4
       /\ op \in {"verify"} => k >= 11
       /\ op \in {"refresh"} => k >= 12
       /\ op \in {"logout"} => k >= 2
       /\ op \in {"logoutAll"} => k >= 3
       /\ op \in {"password"} => k >= 4
       /\ op \in {"mail"} => k >= 5
       /\ op \in {"adminMail"} => k >= 5
       /\ op \in {"askReset"} => k >= 3
       /\ op \in {"reset"} => k >= 6
       /\ op \in {"activate", "deactivate"} => k >= 5
       /\ op \in {"addRole", "removeRole"} => k >= 5
       /\ op \in {"ban", "banUntil"} => k >= 6
       /\ op \in {"unban"} => k >= 4
       /\ op \in {"delete"} => k >= 2
       /\ op \in {"adminPassword"} => k >= 3
       /\ op \in Edits => k >= 3
  /\ Len(Program[op]) \in 1..11

\* The table of statements, read backwards: where a statement stands tells the command.
LEMMA Lines ==
  ASSUME NEW op \in Op \cup {"loginCode"}, NEW k \in Nat
  PROVE  Standing(op, k)
<1>1. CASE op \in {"login"}
  <2>1. Len(Program[op]) = 9
    BY <1>1, LoginLines
  <2>2. k = 0 \/ k > 9 \/ k \in 1..9
    OBVIOUS
  <2>3. /\ k = 0 => Line(op, k) = "free"
        /\ k > 9 => Line(op, k) = "commit"
        /\ k \in 1..9 => Line(op, k) = Program[op][k]
    BY <2>1 DEF Line
  <2>4. /\ (k = 1 => Line(op, k) = "authenticate")
        /\ (k = 2 => Line(op, k) = "read")
        /\ (k = 3 => Line(op, k) = "touch")
        /\ (k = 4 => Line(op, k) = "isVerified")
    BY <1>1, <2>3, LoginLines
  <2>5. /\ (k = 5 => Line(op, k) = "dropTokens")
        /\ (k = 6 => Line(op, k) = "addToken")
        /\ (k = 7 => Line(op, k) = "room")
        /\ (k = 8 => Line(op, k) = "evict")
    BY <1>1, <2>3, LoginLines
  <2>6. /\ (k = 9 => Line(op, k) = "addSession")
    BY <1>1, <2>3, LoginLines
  <2> QED
    BY <1>1, <2>1, <2>2, <2>3, <2>4, <2>5, <2>6 DEF Standing, Edits
<1>2. CASE op \in {"askCode", "loginCode"}
  <2>1. Len(Program[op]) = 3
    BY <1>2, AskCodeLines
  <2>2. k = 0 \/ k > 3 \/ k \in 1..3
    OBVIOUS
  <2>3. /\ k = 0 => Line(op, k) = "free"
        /\ k > 3 => Line(op, k) = "commit"
        /\ k \in 1..3 => Line(op, k) = Program[op][k]
    BY <2>1 DEF Line
  <2>4. /\ (k = 1 => Line(op, k) = "isFlagged")
        /\ (k = 2 => Line(op, k) = "dropCodes")
        /\ (k = 3 => Line(op, k) = "addCode")
    BY <1>2, <2>3, AskCodeLines
  <2> QED
    BY <1>2, <2>1, <2>2, <2>3, <2>4 DEF Standing, Edits
<1>3. CASE op \in {"verify"}
  <2>1. Len(Program[op]) = 10
    BY <1>3, VerifyLines
  <2>2. k = 0 \/ k > 10 \/ k \in 1..10
    OBVIOUS
  <2>3. /\ k = 0 => Line(op, k) = "free"
        /\ k > 10 => Line(op, k) = "commit"
        /\ k \in 1..10 => Line(op, k) = Program[op][k]
    BY <2>1 DEF Line
  <2>4. /\ (k = 1 => Line(op, k) = "findCode")
        /\ (k = 2 => Line(op, k) = "markCode")
        /\ (k = 3 => Line(op, k) = "write")
        /\ (k = 4 => Line(op, k) = "read")
    BY <1>3, <2>3, VerifyLines
  <2>5. /\ (k = 5 => Line(op, k) = "touch")
        /\ (k = 6 => Line(op, k) = "dropTokens")
        /\ (k = 7 => Line(op, k) = "addToken")
        /\ (k = 8 => Line(op, k) = "room")
    BY <1>3, <2>3, VerifyLines
  <2>6. /\ (k = 9 => Line(op, k) = "evict")
        /\ (k = 10 => Line(op, k) = "addSession")
    BY <1>3, <2>3, VerifyLines
  <2> QED
    BY <1>3, <2>1, <2>2, <2>3, <2>4, <2>5, <2>6 DEF Standing, Edits
<1>4. CASE op \in {"refresh"}
  <2>1. Len(Program[op]) = 11
    BY <1>4, RefreshLines
  <2>2. k = 0 \/ k > 11 \/ k \in 1..11
    OBVIOUS
  <2>3. /\ k = 0 => Line(op, k) = "free"
        /\ k > 11 => Line(op, k) = "commit"
        /\ k \in 1..11 => Line(op, k) = Program[op][k]
    BY <2>1 DEF Line
  <2>4. /\ (k = 1 => Line(op, k) = "findToken")
        /\ (k = 2 => Line(op, k) = "notBanned")
        /\ (k = 3 => Line(op, k) = "findSession")
        /\ (k = 4 => Line(op, k) = "claim")
    BY <1>4, <2>3, RefreshLines
  <2>5. /\ (k = 5 => Line(op, k) = "dropTokens")
        /\ (k = 6 => Line(op, k) = "addToken")
        /\ (k = 7 => Line(op, k) = "findSession")
        /\ (k = 8 => Line(op, k) = "dropOwn")
    BY <1>4, <2>3, RefreshLines
  <2>6. /\ (k = 9 => Line(op, k) = "room")
        /\ (k = 10 => Line(op, k) = "evict")
        /\ (k = 11 => Line(op, k) = "addSession")
    BY <1>4, <2>3, RefreshLines
  <2> QED
    BY <1>4, <2>1, <2>2, <2>3, <2>4, <2>5, <2>6 DEF Standing, Edits
<1>5. CASE op \in {"logout"}
  <2>1. Len(Program[op]) = 1
    BY <1>5, LogoutLines
  <2>2. k = 0 \/ k > 1 \/ k \in 1..1
    OBVIOUS
  <2>3. /\ k = 0 => Line(op, k) = "free"
        /\ k > 1 => Line(op, k) = "commit"
        /\ k \in 1..1 => Line(op, k) = Program[op][k]
    BY <2>1 DEF Line
  <2>4. /\ (k = 1 => Line(op, k) = "dropOwn")
    BY <1>5, <2>3, LogoutLines
  <2> QED
    BY <1>5, <2>1, <2>2, <2>3, <2>4 DEF Standing, Edits
<1>6. CASE op \in {"logoutAll"}
  <2>1. Len(Program[op]) = 2
    BY <1>6, LogoutAllLines
  <2>2. k = 0 \/ k > 2 \/ k \in 1..2
    OBVIOUS
  <2>3. /\ k = 0 => Line(op, k) = "free"
        /\ k > 2 => Line(op, k) = "commit"
        /\ k \in 1..2 => Line(op, k) = Program[op][k]
    BY <2>1 DEF Line
  <2>4. /\ (k = 1 => Line(op, k) = "dropSessions")
        /\ (k = 2 => Line(op, k) = "dropTokens")
    BY <1>6, <2>3, LogoutAllLines
  <2> QED
    BY <1>6, <2>1, <2>2, <2>3, <2>4 DEF Standing, Edits
<1>7. CASE op \in {"password"}
  <2>1. Len(Program[op]) = 3
    BY <1>7, PasswordLines
  <2>2. k = 0 \/ k > 3 \/ k \in 1..3
    OBVIOUS
  <2>3. /\ k = 0 => Line(op, k) = "free"
        /\ k > 3 => Line(op, k) = "commit"
        /\ k \in 1..3 => Line(op, k) = Program[op][k]
    BY <2>1 DEF Line
  <2>4. /\ (k = 1 => Line(op, k) = "checkSecret")
        /\ (k = 2 => Line(op, k) = "write")
        /\ (k = 3 => Line(op, k) = "dropOthers")
    BY <1>7, <2>3, PasswordLines
  <2> QED
    BY <1>7, <2>1, <2>2, <2>3, <2>4 DEF Standing, Edits
<1>8. CASE op \in {"mail"}
  <2>1. Len(Program[op]) = 4
    BY <1>8, MailLines
  <2>2. k = 0 \/ k > 4 \/ k \in 1..4
    OBVIOUS
  <2>3. /\ k = 0 => Line(op, k) = "free"
        /\ k > 4 => Line(op, k) = "commit"
        /\ k \in 1..4 => Line(op, k) = Program[op][k]
    BY <2>1 DEF Line
  <2>4. /\ (k = 1 => Line(op, k) = "checkSecret")
        /\ (k = 2 => Line(op, k) = "read")
        /\ (k = 3 => Line(op, k) = "write")
        /\ (k = 4 => Line(op, k) = "dropOthers")
    BY <1>8, <2>3, MailLines
  <2> QED
    BY <1>8, <2>1, <2>2, <2>3, <2>4 DEF Standing, Edits
<1>9. CASE op \in {"adminMail"}
  <2>1. Len(Program[op]) = 4
    BY <1>9, AdminMailLines
  <2>2. k = 0 \/ k > 4 \/ k \in 1..4
    OBVIOUS
  <2>3. /\ k = 0 => Line(op, k) = "free"
        /\ k > 4 => Line(op, k) = "commit"
        /\ k \in 1..4 => Line(op, k) = Program[op][k]
    BY <2>1 DEF Line
  <2>4. /\ (k = 1 => Line(op, k) = "checkSecret")
        /\ (k = 2 => Line(op, k) = "read")
        /\ (k = 3 => Line(op, k) = "write")
        /\ (k = 4 => Line(op, k) = "dropSessions")
    BY <1>9, <2>3, AdminMailLines
  <2> QED
    BY <1>9, <2>1, <2>2, <2>3, <2>4 DEF Standing, Edits
<1>10. CASE op \in {"askReset"}
  <2>1. Len(Program[op]) = 2
    BY <1>10, AskResetLines
  <2>2. k = 0 \/ k > 2 \/ k \in 1..2
    OBVIOUS
  <2>3. /\ k = 0 => Line(op, k) = "free"
        /\ k > 2 => Line(op, k) = "commit"
        /\ k \in 1..2 => Line(op, k) = Program[op][k]
    BY <2>1 DEF Line
  <2>4. /\ (k = 1 => Line(op, k) = "dropResets")
        /\ (k = 2 => Line(op, k) = "addReset")
    BY <1>10, <2>3, AskResetLines
  <2> QED
    BY <1>10, <2>1, <2>2, <2>3, <2>4 DEF Standing, Edits
<1>11. CASE op \in {"reset"}
  <2>1. Len(Program[op]) = 5
    BY <1>11, ResetLines
  <2>2. k = 0 \/ k > 5 \/ k \in 1..5
    OBVIOUS
  <2>3. /\ k = 0 => Line(op, k) = "free"
        /\ k > 5 => Line(op, k) = "commit"
        /\ k \in 1..5 => Line(op, k) = Program[op][k]
    BY <2>1 DEF Line
  <2>4. /\ (k = 1 => Line(op, k) = "findReset")
        /\ (k = 2 => Line(op, k) = "write")
        /\ (k = 3 => Line(op, k) = "useReset")
        /\ (k = 4 => Line(op, k) = "dropTokens")
    BY <1>11, <2>3, ResetLines
  <2>5. /\ (k = 5 => Line(op, k) = "dropSessions")
    BY <1>11, <2>3, ResetLines
  <2> QED
    BY <1>11, <2>1, <2>2, <2>3, <2>4, <2>5 DEF Standing, Edits
<1>12. CASE op \in {"activate", "deactivate"}
  <2>1. Len(Program[op]) = 4
    BY <1>12, ActivateLines
  <2>2. k = 0 \/ k > 4 \/ k \in 1..4
    OBVIOUS
  <2>3. /\ k = 0 => Line(op, k) = "free"
        /\ k > 4 => Line(op, k) = "commit"
        /\ k \in 1..4 => Line(op, k) = Program[op][k]
    BY <2>1 DEF Line
  <2>4. /\ (k = 1 => Line(op, k) = "read")
        /\ (k = 2 => Line(op, k) = "write")
        /\ (k = 3 => Line(op, k) = "dropSessions")
        /\ (k = 4 => Line(op, k) = "dropTokens")
    BY <1>12, <2>3, ActivateLines
  <2> QED
    BY <1>12, <2>1, <2>2, <2>3, <2>4 DEF Standing, Edits
<1>13. CASE op \in {"addRole", "removeRole"}
  <2>1. Len(Program[op]) = 4
    BY <1>13, AddRoleLines
  <2>2. k = 0 \/ k > 4 \/ k \in 1..4
    OBVIOUS
  <2>3. /\ k = 0 => Line(op, k) = "free"
        /\ k > 4 => Line(op, k) = "commit"
        /\ k \in 1..4 => Line(op, k) = Program[op][k]
    BY <2>1 DEF Line
  <2>4. /\ (k = 1 => Line(op, k) = "read")
        /\ (k = 2 => Line(op, k) = "write")
        /\ (k = 3 => Line(op, k) = "dropSessions")
        /\ (k = 4 => Line(op, k) = "dropTokens")
    BY <1>13, <2>3, AddRoleLines
  <2> QED
    BY <1>13, <2>1, <2>2, <2>3, <2>4 DEF Standing, Edits
<1>14. CASE op \in {"ban", "banUntil"}
  <2>1. Len(Program[op]) = 5
    BY <1>14, BanLines
  <2>2. k = 0 \/ k > 5 \/ k \in 1..5
    OBVIOUS
  <2>3. /\ k = 0 => Line(op, k) = "free"
        /\ k > 5 => Line(op, k) = "commit"
        /\ k \in 1..5 => Line(op, k) = Program[op][k]
    BY <2>1 DEF Line
  <2>4. /\ (k = 1 => Line(op, k) = "unlessBanned")
        /\ (k = 2 => Line(op, k) = "read")
        /\ (k = 3 => Line(op, k) = "write")
        /\ (k = 4 => Line(op, k) = "dropSessions")
    BY <1>14, <2>3, BanLines
  <2>5. /\ (k = 5 => Line(op, k) = "dropTokens")
    BY <1>14, <2>3, BanLines
  <2> QED
    BY <1>14, <2>1, <2>2, <2>3, <2>4, <2>5 DEF Standing, Edits
<1>15. CASE op \in {"unban"}
  <2>1. Len(Program[op]) = 3
    BY <1>15, UnbanLines
  <2>2. k = 0 \/ k > 3 \/ k \in 1..3
    OBVIOUS
  <2>3. /\ k = 0 => Line(op, k) = "free"
        /\ k > 3 => Line(op, k) = "commit"
        /\ k \in 1..3 => Line(op, k) = Program[op][k]
    BY <2>1 DEF Line
  <2>4. /\ (k = 1 => Line(op, k) = "onlyBanned")
        /\ (k = 2 => Line(op, k) = "read")
        /\ (k = 3 => Line(op, k) = "write")
    BY <1>15, <2>3, UnbanLines
  <2> QED
    BY <1>15, <2>1, <2>2, <2>3, <2>4 DEF Standing, Edits
<1>16. CASE op \in {"delete"}
  <2>1. Len(Program[op]) = 1
    BY <1>16, DeleteLines
  <2>2. k = 0 \/ k > 1 \/ k \in 1..1
    OBVIOUS
  <2>3. /\ k = 0 => Line(op, k) = "free"
        /\ k > 1 => Line(op, k) = "commit"
        /\ k \in 1..1 => Line(op, k) = Program[op][k]
    BY <2>1 DEF Line
  <2>4. /\ (k = 1 => Line(op, k) = "erase")
    BY <1>16, <2>3, DeleteLines
  <2> QED
    BY <1>16, <2>1, <2>2, <2>3, <2>4 DEF Standing, Edits
<1>17. CASE op \in {"adminPassword"}
  <2>1. Len(Program[op]) = 2
    BY <1>17, AdminPasswordLines
  <2>2. k = 0 \/ k > 2 \/ k \in 1..2
    OBVIOUS
  <2>3. /\ k = 0 => Line(op, k) = "free"
        /\ k > 2 => Line(op, k) = "commit"
        /\ k \in 1..2 => Line(op, k) = Program[op][k]
    BY <2>1 DEF Line
  <2>4. /\ (k = 1 => Line(op, k) = "read")
        /\ (k = 2 => Line(op, k) = "write")
    BY <1>17, <2>3, AdminPasswordLines
  <2> QED
    BY <1>17, <2>1, <2>2, <2>3, <2>4 DEF Standing, Edits
<1>18. CASE op \in Edits
  <2>1. Len(Program[op]) = 2
    BY <1>18, EditsLines
  <2>2. k = 0 \/ k > 2 \/ k \in 1..2
    OBVIOUS
  <2>3. /\ k = 0 => Line(op, k) = "free"
        /\ k > 2 => Line(op, k) = "commit"
        /\ k \in 1..2 => Line(op, k) = Program[op][k]
    BY <2>1 DEF Line
  <2>4. /\ (k = 1 => Line(op, k) = "read")
        /\ (k = 2 => Line(op, k) = "write")
    BY <1>18, <2>3, EditsLines
  <2> QED
    BY <1>18, <2>1, <2>2, <2>3, <2>4 DEF Standing, Edits
<1> QED
  BY AccountsAssumption, <1>1, <1>2, <1>3, <1>4, <1>5, <1>6, <1>7, <1>8, <1>9, <1>10, <1>11, <1>12, <1>13, <1>14, <1>15, <1>16, <1>17, <1>18 DEF Command, Edits

-----------------------------------------------------------------------------
(* What the statements do. *)

\* The label of a request is the line of its program.
LEMMA LabelIs ==
  ASSUME NEW p \in Request
  PROVE  Label(p) = Line(job[p].op, pc[p])
BY DEF Label, Line

\* A request stands where the table says.
LEMMA StandingAt ==
  ASSUME TypeOK, NEW p \in Request
  PROVE  Standing(job[p].op, pc[p])
<1>1. job[p].op \in Op \cup {"loginCode"} /\ pc[p] \in Nat
  BY DEF TypeOK, Job
<1> QED
  BY <1>1, Lines

ReadLabels ==
  {"authenticate", "read", "checkSecret", "unlessBanned", "onlyBanned", "notBanned", "findToken",
   "findSession", "findReset", "findCode", "isVerified", "isFlagged", "room"}
SeeLabels == {"read", "checkSecret", "unlessBanned", "onlyBanned", "findReset", "findCode"}
DropLabels == {"dropTokens", "dropSessions", "dropOthers", "dropOwn", "evict", "dropResets", "dropCodes"}
AddLabels == {"addToken", "addSession", "addReset", "addCode"}
WriteLabels == DropLabels \cup AddLabels \cup {"claim", "write", "touch", "useReset", "markCode", "erase"}

\* A step of p leaves the other requests alone.
OthersSame(p) ==
  /\ job' = [job EXCEPT ![p] = job'[p]] /\ pc' = [pc EXCEPT ![p] = pc'[p]]
  /\ seen' = [seen EXCEPT ![p] = seen'[p]] /\ pick' = [pick EXCEPT ![p] = pick'[p]]
  /\ new' = [new EXCEPT ![p] = new'[p]] /\ aim' = [aim EXCEPT ![p] = aim'[p]]
  /\ draft' = [draft EXCEPT ![p] = draft'[p]]
  /\ ins' = [ins EXCEPT ![p] = ins'[p]] /\ del' = [del EXCEPT ![p] = del'[p]]

Ended(p) ==
  /\ job'[p] = NoJob /\ pc'[p] = 0 /\ seen'[p] = None /\ pick'[p] = 0 /\ new'[p] = 0
  /\ aim'[p] = None /\ draft'[p] = None /\ ins'[p] = {} /\ del'[p] = {}

RollbackStep(p) == Ended(p) /\ UNCHANGED <<user, rows, heirs, issued, cause>>

CommitStep(p) ==
  /\ Label(p) = "commit"
  /\ user' = VisibleUser(p)
  /\ rows' = Visible(p)
  /\ heirs' = IF job[p].op = "refresh" THEN heirs \cup {<<"token", job[p].n, new[p]>>}
              ELSE IF job[p].op = "reset" THEN heirs \cup {<<"link", job[p].n, job[p].secret>>}
              ELSE heirs
  /\ Ended(p)
  /\ issued' = issued /\ cause' = cause

ReadStep(p) ==
  /\ Label(p) \in ReadLabels
  /\ new'[p] = new[p] /\ aim'[p] = aim[p]
  /\ draft'[p] = draft[p] /\ ins'[p] = ins[p] /\ del'[p] = del[p]
  /\ UNCHANGED <<user, rows, heirs, issued, cause>>
  /\ seen'[p] \in {seen[p], VisibleUser(p)} /\ seen'[p] # Gone
  /\ Label(p) \in SeeLabels =>
       seen'[p] = VisibleUser(p) \/ (Label(p) = "read" /\ job[p].op \in CachedById)
  /\ \/ /\ job'[p] = job[p] /\ pc'[p] = pc[p] + 1
        /\ Label(p) = "findToken" => Token(job[p].n) \in Visible(p)
        /\ Label(p) = "findReset" => Reset(job[p].n) \in Visible(p) /\ seen'[p] = VisibleUser(p)
     \/ /\ job'[p] = job[p] /\ pc'[p] = Len(Program[job[p].op]) + 1
        /\ Label(p) \in {"unlessBanned", "onlyBanned"} \/ job[p].op = "loginCode"
     \/ Label(p) = "isVerified" /\ job'[p] = [job[p] EXCEPT !.op = "loginCode"] /\ pc'[p] = 1
  /\ LET S == {r.of : r \in Kind(Visible(p), "session")} IN
     pick'[p] = IF Label(p) = "room" /\ Cardinality(S) >= MaxSessions
                THEN CHOOSE n \in S : \A k \in S : n <= k ELSE pick[p]

WaitStep(p) ==
  /\ pc[p] # 0 /\ aim[p] = None /\ Blockers(p) # {}
  /\ aim'[p] = Aim(p)
  /\ job'[p] = job[p] /\ pc'[p] = pc[p] /\ seen'[p] = seen[p] /\ pick'[p] = pick[p] /\ new'[p] = new[p]
  /\ draft'[p] = draft[p] /\ ins'[p] = ins[p] /\ del'[p] = del[p]
  /\ UNCHANGED <<user, rows, heirs, issued, cause>>

\* What all statements that write have in common.
WriteStep(p, D, I) ==
  /\ Blockers(p) = {}
  /\ del'[p] = del[p] \cup (D \cap rows)
  /\ ins'[p] = (ins[p] \ D) \cup I
  /\ aim'[p] = None
  /\ job'[p] = job[p] /\ pc'[p] = pc[p] + 1 /\ pick'[p] = pick[p]
  /\ UNCHANGED <<user, rows, heirs>>

DropStep(p) ==
  /\ Label(p) \in DropLabels
  /\ WriteStep(p, Aimed(p), {})
  /\ seen'[p] = seen[p] /\ new'[p] = new[p] /\ draft'[p] = draft[p] /\ issued' = issued
  /\ cause' = IF Label(p) = "dropTokens" /\ job[p].op \in Issuing /\ ~(Aim(p) \subseteq Aimed(p))
              THEN cause \cup {"missed"} ELSE cause

\* claim, useReset, markCode
MarkStep(p) ==
  /\ \/ Label(p) = "claim" /\ WriteStep(p, Aim(p), {}) /\ Token(job[p].n) \in Visible(p)
     \/ Label(p) = "useReset" /\ WriteStep(p, Aim(p), {Used(job[p].n)})
     \/ Label(p) = "markCode" /\ WriteStep(p, Aim(p), {Verified(job[p].n, job[p].mail)})
  /\ seen'[p] = seen[p] /\ new'[p] = new[p] /\ draft'[p] = draft[p]
  /\ issued' = issued /\ cause' = cause

\* The user row as p writes it.
Written(p) == IF Label(p) = "write" THEN Change(job[p], seen[p]) ELSE seen[p]

UserStep(p) ==
  /\ Label(p) \in {"write", "touch"}
  /\ WriteStep(p, Aimed(p), {Roles(job[p].secret)})
  /\ Written(p) # None /\ VisibleUser(p) # Gone
  /\ draft'[p] = Written(p) /\ seen'[p] = Written(p)
  /\ new'[p] = new[p] /\ issued' = issued
  /\ cause' = IF VisibleUser(p) # seen[p] THEN cause \cup {"stale"} ELSE cause

\* The row that p inserts.
Row(p) ==
  CASE Label(p) = "addToken" -> Token(issued + 1)
    [] Label(p) = "addSession" -> Session(new[p])
    [] Label(p) = "addReset" -> Reset(issued + 1)
    [] OTHER -> Code(issued + 1, job[p].mail)

InsertStep(p) ==
  /\ Label(p) \in AddLabels
  /\ VisibleUser(p) # Gone
  /\ WriteStep(p, {}, {Row(p)})
  /\ new'[p] = Row(p).of
  /\ issued' = IF Row(p).of > issued THEN Row(p).of ELSE issued
  /\ seen'[p] = seen[p] /\ draft'[p] = draft[p] /\ cause' = cause

EraseStep(p) ==
  /\ Label(p) = "erase"
  /\ VisibleUser(p) # Gone
  /\ WriteStep(p, Aim(p), {})
  /\ draft'[p] = Gone
  /\ seen'[p] = seen[p] /\ new'[p] = new[p] /\ issued' = issued /\ cause' = cause

Effect(p) ==
  /\ OthersSame(p) /\ late' = late /\ asked' = asked
  /\ \/ RollbackStep(p) \/ CommitStep(p) \/ ReadStep(p) \/ WaitStep(p) \/ DropStep(p) \/ MarkStep(p)
     \/ UserStep(p) \/ InsertStep(p) \/ EraseStep(p)

BeginStep(p) ==
  /\ OthersSame(p) /\ UNCHANGED <<user, rows, late, issued, heirs, cause>>
  /\ pc[p] = 0 /\ user # Gone /\ asked' = asked + 1 /\ asked < MaxRequests
  /\ pc'[p] = 1 /\ seen'[p] = seen[p] /\ pick'[p] = pick[p] /\ new'[p] = new[p] /\ aim'[p] = aim[p]
  /\ draft'[p] = draft[p] /\ ins'[p] = ins[p] /\ del'[p] = del[p]
  /\ job'[p] \in Job /\ job'[p].op # "loginCode" /\ job'[p].secret = asked + 1
  /\ job'[p].op \in Op /\ job'[p].n \in Numbers(job'[p].op)

\* An exception, or the victim of a circle, leaves nothing behind.
LEMMA FailEffect ==
  ASSUME TypeOK, NEW p \in Request, Fail(p)
  PROVE  Effect(p)
<1>1. OthersSame(p)
  BY DEF Fail, Release, OthersSame, TypeOK
<1>2. Ended(p)
  BY DEF Fail, Release, Ended, TypeOK
<1> QED
  BY <1>1, <1>2 DEF Fail, Effect, Shared, RollbackStep

\* A check that succeeds only moves the request on.
LEMMA PassEffect ==
  ASSUME TypeOK, NEW p \in Request, Pass(p),
         UNCHANGED <<job, seen, pick, new, aim, draft, ins, del, Shared, issued, cause>>,
         Label(p) \in {"authenticate", "notBanned", "findToken", "findSession", "isFlagged"},
         Label(p) = "findToken" => Token(job[p].n) \in Visible(p)
  PROVE  Effect(p)
<1>1. OthersSame(p) /\ pc'[p] = pc[p] + 1
  BY DEF Pass, OthersSame, TypeOK
<1>2. seen[p] # Gone
  BY AccountsAssumption DEF TypeOK
<1> QED
  BY <1>1, <1>2 DEF Effect, ReadStep, ReadLabels, SeeLabels, Shared

\* A check moves the request on or rolls it back.
LEMMA RequireEffect ==
  ASSUME TypeOK, NEW p \in Request, NEW b \in BOOLEAN, Require(p, b),
         Label(p) \in {"authenticate", "notBanned", "isFlagged"}
  PROVE  Effect(p)
BY PassEffect, FailEffect DEF Require

\* A statement that only reads the user.
LEMMA SeenEffect ==
  ASSUME TypeOK, NEW p \in Request, NEW u \in User \cup {None},
         u = VisibleUser(p) \/ (u = seen[p] /\ Label(p) = "read" /\ job[p].op \in CachedById),
         Label(p) \in {"read", "checkSecret", "unlessBanned", "onlyBanned", "findReset", "findCode"},
         Label(p) = "findReset" => Reset(job[p].n) \in Visible(p) /\ u = VisibleUser(p),
         seen' = [seen EXCEPT ![p] = u],
         Pass(p) \/ (Finish(p) /\ Label(p) \in {"unlessBanned", "onlyBanned"}),
         UNCHANGED <<job, pick, new, aim, draft, ins, del, Shared, issued, cause>>
  PROVE  Effect(p)
<1>1. OthersSame(p) /\ seen'[p] = u
  BY DEF Pass, Finish, OthersSame, TypeOK
<1>2. seen'[p] # Gone
  BY <1>1, AccountsAssumption
<1>3. pc'[p] = pc[p] + 1 \/ (pc'[p] = Len(Program[job[p].op]) + 1 /\ Label(p) \in {"unlessBanned", "onlyBanned"})
  BY DEF Pass, Finish, TypeOK
<1> QED
  BY <1>1, <1>2, <1>3 DEF Effect, ReadStep, ReadLabels, SeeLabels, Shared

\* What a request sees of the user is a row or the lack of one.
LEMMA VisibleUserType ==
  ASSUME TypeOK, NEW p \in Request
  PROVE  VisibleUser(p) \in User \cup {Gone} /\ VisibleUser(p) # None
BY AccountsAssumption DEF TypeOK, VisibleUser

\* The statements that read.
LEMMA ReadsEffect ==
  ASSUME TypeOK, NEW p \in Request,
         \/ Authenticate(p) \/ Read(p) \/ CheckSecret(p) \/ CheckBan(p) \/ NotBanned(p)
         \/ FindToken(p) \/ FindSession(p) \/ FindReset(p) \/ FindCode(p)
  PROVE  Effect(p)
<1> USE VisibleUserType
<1>1. CASE Authenticate(p)
  BY <1>1, RequireEffect DEF Authenticate
<1>2. CASE NotBanned(p)
  BY <1>2, RequireEffect DEF NotBanned
<1>3. CASE FindToken(p)
  <2>1. CASE Token(job[p].n) \in Visible(p)
    BY <1>3, <2>1, PassEffect DEF FindToken, Require
  <2>2. CASE Token(job[p].n) \notin Visible(p)
    BY <1>3, <2>2, FailEffect DEF FindToken, Require
  <2> QED
    BY <2>1, <2>2
<1>4. CASE FindSession(p)
  <2>1. CASE Session(job[p].n) \in Visible(p)
    BY <1>4, <2>1, PassEffect DEF FindSession, Require
  <2>2. CASE Session(job[p].n) \notin Visible(p)
    BY <1>4, <2>2, FailEffect DEF FindSession, Require
  <2> QED
    BY <2>1, <2>2
<1>5. CASE Read(p)
  <2>1. PICK u \in {VisibleUser(p)} \cup (IF job[p].op \in CachedById THEN {seen[p]} ELSE {}) :
          IF u = Gone THEN Fail(p)
          ELSE /\ seen' = [seen EXCEPT ![p] = u]
               /\ Pass(p)
               /\ UNCHANGED <<job, pick, new, aim, draft, ins, del, Shared, issued, cause>>
    BY <1>5 DEF Read
  <2>2. /\ u = VisibleUser(p) \/ (u = seen[p] /\ job[p].op \in CachedById)
        /\ (u # Gone => u \in User \cup {None}) /\ Label(p) = "read"
    BY <1>5, <2>1 DEF TypeOK, Read
  <2> QED
    BY <2>1, <2>2, SeenEffect, FailEffect
<1>6. CASE CheckSecret(p)
  BY <1>6, SeenEffect, FailEffect DEF CheckSecret
<1>7. CASE CheckBan(p)
  BY <1>7, SeenEffect, FailEffect DEF CheckBan
<1>8. CASE FindReset(p)
  BY <1>8, SeenEffect, FailEffect DEF FindReset
<1>9. CASE FindCode(p)
  BY <1>9, SeenEffect, FailEffect DEF FindCode
<1> QED
  BY <1>1, <1>2, <1>3, <1>4, <1>5, <1>6, <1>7, <1>8, <1>9

\* The other steps that write nothing, the commit and the rollback.
LEMMA TurnsEffect ==
  ASSUME TypeOK, NEW p \in Request,
         IsVerified(p) \/ IsFlagged(p) \/ Room(p) \/ Wait(p) \/ Commit(p) \/ FailVictim(p)
  PROVE  Effect(p)
<1>0. seen[p] # Gone /\ seen \in [Request -> User \cup {None}]
  BY AccountsAssumption DEF TypeOK
<1>1. CASE IsVerified(p)
  <2>1. OthersSame(p) /\ seen'[p] = seen[p] /\ pick'[p] = pick[p]
    BY <1>1 DEF IsVerified, Pass, OthersSame, TypeOK
  <2>2. \/ job'[p] = job[p] /\ pc'[p] = pc[p] + 1
        \/ job'[p] = [job[p] EXCEPT !.op = "loginCode"] /\ pc'[p] = 1
    BY <1>1 DEF IsVerified, Pass, TypeOK
  <2> QED
    BY <1>0, <1>1, <2>1, <2>2 DEF IsVerified, Effect, ReadStep, ReadLabels, SeeLabels, Shared
<1>2. CASE IsFlagged(p)
  <2>1. CASE VisibleUser(p) # Gone /\ VisibleUser(p).flag /\ job[p].op = "loginCode"
    <3>1. OthersSame(p) /\ pc'[p] = Len(Program[job[p].op]) + 1
      BY <1>2, <2>1 DEF IsFlagged, Finish, OthersSame, TypeOK
    <3> QED
      BY <1>0, <1>2, <2>1, <3>1 DEF IsFlagged, Effect, ReadStep, ReadLabels, SeeLabels, Shared
  <2>2. CASE ~(VisibleUser(p) # Gone /\ VisibleUser(p).flag /\ job[p].op = "loginCode")
    BY <1>2, <2>2, RequireEffect DEF IsFlagged
  <2> QED
    BY <2>1, <2>2
<1>3. CASE Room(p)
  <2> DEFINE S == {r.of : r \in Kind(Visible(p), "session")}
  <2>1. OthersSame(p) /\ pc'[p] = pc[p] + 1
    BY <1>3 DEF Room, Pass, OthersSame, TypeOK
  <2>2. pick'[p] = IF Label(p) = "room" /\ Cardinality(S) >= MaxSessions
                   THEN CHOOSE n \in S : \A k \in S : n <= k ELSE pick[p]
    BY <1>3 DEF Room, TypeOK
  <2> QED
    BY <1>0, <1>3, <2>1, <2>2 DEF Room, Effect, ReadStep, ReadLabels, SeeLabels, Shared
<1>4. CASE Wait(p)
  BY <1>4 DEF Wait, Effect, WaitStep, OthersSame, Shared, TypeOK
<1>5. CASE Commit(p)
  <2>1. OthersSame(p) /\ Ended(p)
    BY <1>5 DEF Commit, Release, OthersSame, Ended, TypeOK
  <2> QED
    BY <1>5, <2>1 DEF Commit, Effect, CommitStep
<1>6. CASE FailVictim(p)
  BY <1>6, FailEffect DEF FailVictim
<1> QED
  BY <1>1, <1>2, <1>3, <1>4, <1>5, <1>6

\* The statements that write: each goes through Put, or fails.
LEMMA WritesEffect ==
  ASSUME TypeOK, NEW p \in Request,
         \/ Drop(p) \/ Claim(p) \/ WriteUser(p) \/ Touch(p) \/ UseReset(p) \/ MarkCode(p)
         \/ AddToken(p) \/ AddSession(p) \/ AddReset(p) \/ AddCode(p) \/ Erase(p)
  PROVE  Effect(p)
<1>0. ASSUME NEW D, NEW I, Put(p, D, I), Pass(p), job' = job, pick' = pick,
             UNCHANGED Shared, Blockers(p) = {}
      PROVE  /\ WriteStep(p, D, I) /\ late' = late /\ asked' = asked
             /\ job' = [job EXCEPT ![p] = job'[p]] /\ pc' = [pc EXCEPT ![p] = pc'[p]]
             /\ pick' = [pick EXCEPT ![p] = pick'[p]] /\ aim' = [aim EXCEPT ![p] = aim'[p]]
             /\ ins' = [ins EXCEPT ![p] = ins'[p]] /\ del' = [del EXCEPT ![p] = del'[p]]
  BY <1>0 DEF Put, Pass, Shared, WriteStep, TypeOK
<1>1. CASE Drop(p)
  <2>1. WriteStep(p, Aimed(p), {}) /\ OthersSame(p) /\ late' = late /\ asked' = asked
    BY <1>0, <1>1 DEF Drop, Writing, OthersSame, TypeOK
  <2> QED
    BY <1>1, <2>1 DEF Drop, Writing, DropStep, DropLabels, Effect
<1>2. CASE Claim(p)
  <2>1. CASE Token(job[p].n) \in Visible(p)
    <3>1. Aim(p) = {Token(job[p].n)}
      BY <1>2 DEF Claim, Writing, Aim
    <3>2. WriteStep(p, Aim(p), {}) /\ OthersSame(p) /\ late' = late /\ asked' = asked
      BY <1>0, <1>2, <2>1, <3>1 DEF Claim, Writing, OthersSame, TypeOK
    <3> QED
      BY <1>2, <2>1, <3>2 DEF Claim, Writing, MarkStep, Effect
  <2> QED
    BY <1>2, <2>1, FailEffect DEF Claim
<1>3. CASE UseReset(p)
  <2>1. CASE Aim(p) \cap Visible(p) # {}
    <3>1. WriteStep(p, Aim(p), {Used(job[p].n)}) /\ OthersSame(p) /\ late' = late /\ asked' = asked
      BY <1>0, <1>3, <2>1 DEF UseReset, Writing, OthersSame, TypeOK
    <3> QED
      BY <1>3, <2>1, <3>1 DEF UseReset, Writing, MarkStep, Effect
  <2> QED
    BY <1>3, <2>1, FailEffect DEF UseReset
<1>4. CASE MarkCode(p)
  <2>1. CASE Aim(p) \cap Visible(p) # {}
    <3>1. /\ WriteStep(p, Aim(p), {Verified(job[p].n, job[p].mail)}) /\ OthersSame(p)
          /\ late' = late /\ asked' = asked
      BY <1>0, <1>4, <2>1 DEF MarkCode, Writing, OthersSame, TypeOK
    <3> QED
      BY <1>4, <2>1, <3>1 DEF MarkCode, Writing, MarkStep, Effect
  <2> QED
    BY <1>4, <2>1, FailEffect DEF MarkCode
<1>5. CASE WriteUser(p) \/ Touch(p)
  <2>1. UpdateUser(p, Written(p)) /\ Label(p) \in {"write", "touch"} /\ Blockers(p) = {}
    BY <1>5 DEF WriteUser, Touch, Writing, Written
  <2>2. CASE Written(p) = None \/ VisibleUser(p) = Gone \/ ~(Aim(p) \subseteq Aimed(p))
    BY <2>1, <2>2, FailEffect DEF UpdateUser
  <2>3. CASE ~(Written(p) = None \/ VisibleUser(p) = Gone \/ ~(Aim(p) \subseteq Aimed(p)))
    <3>1. WriteStep(p, Aimed(p), {Roles(job[p].secret)}) /\ OthersSame(p) /\ late' = late /\ asked' = asked
      BY <1>0, <2>1, <2>3 DEF UpdateUser, OthersSame, TypeOK
    <3>2. draft'[p] = Written(p) /\ seen'[p] = Written(p)
      BY <2>1, <2>3 DEF UpdateUser, TypeOK
    <3> QED
      BY <2>1, <2>3, <3>1, <3>2 DEF UpdateUser, UserStep, Effect
  <2> QED
    BY <2>2, <2>3
<1>6. CASE AddToken(p) \/ AddSession(p) \/ AddReset(p) \/ AddCode(p)
  <2>1. Insert(p, Row(p)) /\ Label(p) \in AddLabels /\ Blockers(p) = {}
    BY <1>6 DEF AddToken, AddSession, AddReset, AddCode, Writing, Row, AddLabels
  <2>2. CASE VisibleUser(p) = Gone
    BY <2>1, <2>2, FailEffect DEF Insert
  <2>3. CASE VisibleUser(p) # Gone
    <3>1. WriteStep(p, {}, {Row(p)}) /\ OthersSame(p) /\ late' = late /\ asked' = asked
      BY <1>0, <2>1, <2>3 DEF Insert, OthersSame, TypeOK
    <3>2. new'[p] = Row(p).of
      BY <2>1, <2>3 DEF Insert, TypeOK
    <3> QED
      BY <2>1, <2>3, <3>1, <3>2 DEF Insert, InsertStep, Effect
  <2> QED
    BY <2>2, <2>3
<1>7. CASE Erase(p)
  <2>1. CASE VisibleUser(p) # Gone
    <3>1. Aimed(p) = Aim(p)
      BY <1>7 DEF Erase, Writing, Aimed
    <3>2. WriteStep(p, Aim(p), {}) /\ OthersSame(p) /\ late' = late /\ asked' = asked
      BY <1>0, <1>7, <2>1, <3>1 DEF Erase, Writing, OthersSame, TypeOK
    <3>3. draft'[p] = Gone
      BY <1>7, <2>1 DEF Erase, TypeOK
    <3> QED
      BY <1>7, <2>1, <3>2, <3>3 DEF Erase, Writing, EraseStep, Effect
  <2> QED
    BY <1>7, <2>1, FailEffect DEF Erase
<1> QED
  BY <1>1, <1>2, <1>3, <1>4, <1>5, <1>6, <1>7

\* Every step is one of these, the start of a request, or the end of a ban.
LEMMA NextEffect ==
  ASSUME TypeOK, [Next]_vars
  PROVE  \/ \E p \in Request : Effect(p) \/ BeginStep(p)
         \/ BanRunsOut
         \/ UNCHANGED vars
<1>1. ASSUME NEW p \in Request, NEW op \in Op, Begin(p, op)
      PROVE  BeginStep(p)
  <2>1. PICK n \in Numbers(op), m \in Mails(op) :
          job' = [job EXCEPT ![p] = [op |-> op, n |-> n, mail |-> m,
                                     given |-> user.secret, secret |-> asked + 1]]
    BY <1>1 DEF Begin
  <2>2. user \in User /\ n \in Nat /\ m \in Mail
    BY <1>1 DEF Begin, TypeOK, Numbers, Mails, User, Kind, Item
  <2>3. job'[p] \in Job
    BY <1>1, <2>1, <2>2, AccountsAssumption DEF Begin, TypeOK, Job, User
  <2>4. /\ job'[p].op = op /\ op \in Op /\ job'[p].n = n /\ job'[p].secret = asked + 1
        /\ op # "loginCode"
    BY <2>1, AccountsAssumption DEF TypeOK, Command
  <2>5. OthersSame(p) /\ pc'[p] = 1
    BY <1>1, <2>1 DEF Begin, OthersSame, TypeOK
  <2> QED
    BY <1>1, <2>1, <2>3, <2>4, <2>5 DEF Begin, BeginStep
<1>2. ASSUME NEW p \in Request, Statement(p) \/ FailVictim(p)
      PROVE  Effect(p)
  BY <1>2, ReadsEffect, TurnsEffect, WritesEffect DEF Statement
<1> QED
  BY <1>1, <1>2 DEF Next

-----------------------------------------------------------------------------
(* Types. *)

\* A command that writes the user has read it.
Sighted(p) ==
  /\ job[p].op \notin {"login", "askCode", "loginCode", "refresh", "logout", "logoutAll", "askReset", "delete"}
       /\ pc[p] >= 2 => seen[p] # None
  /\ job[p].op = "login" /\ pc[p] >= 3 => seen[p] # None

Typed == TypeOK /\ \A p \in Request : Sighted(p)

\* The user is read before it is written.
LEMMA SightedWrite ==
  ASSUME TypeOK, NEW p \in Request, Sighted(p), Label(p) \in {"write", "touch"}
  PROVE  seen[p] \in User
<1>1. Standing(job[p].op, pc[p]) /\ Label(p) = Line(job[p].op, pc[p])
  BY StandingAt, LabelIs
<1>2. pc[p] \in Nat /\ seen[p] \in User \cup {None}
  BY DEF TypeOK
<1>3. /\ Label(p) = "write" => \/ job[p].op \in {"verify", "mail", "adminMail", "ban", "banUntil", "unban"} /\ pc[p] = 3
                               \/ /\ job[p].op \in {"password", "reset", "activate", "deactivate", "addRole",
                                                    "removeRole", "adminPassword"} \cup Edits
                                  /\ pc[p] = 2
      /\ Label(p) = "touch" => \/ job[p].op = "login" /\ pc[p] = 3
                               \/ job[p].op = "verify" /\ pc[p] = 5
  BY <1>1 DEF Standing
<1> QED
  BY <1>2, <1>3 DEF Sighted, Edits

\* The commands that write the user.
LEMMA WriteOps ==
  ASSUME TypeOK, NEW p \in Request, Label(p) = "write"
  PROVE  job[p].op \in {"verify", "mail", "adminMail", "ban", "banUntil", "unban", "password", "reset",
                        "activate", "deactivate", "addRole", "removeRole", "adminPassword"} \cup Edits
BY StandingAt, LabelIs DEF Standing

\* A method of the User entity that does not throw returns a user.
LEMMA ChangeType ==
  ASSUME NEW u \in User, NEW j \in Job,
         j.op \in {"verify", "mail", "adminMail", "ban", "banUntil", "unban", "password", "reset",
                   "activate", "deactivate", "addRole", "removeRole", "adminPassword"} \cup Edits
  PROVE  Change(j, u) \in User \cup {None}
<1>1. j.secret \in 0..MaxRequests /\ j.mail \in Mail
  BY DEF Job
<1>2. CASE j.op \in {"password", "adminPassword", "reset"}
  BY <1>1, <1>2 DEF Change, ChangePassword, User
<1>3. CASE j.op \in {"mail", "adminMail"}
  BY <1>1, <1>3 DEF Change, ChangeEmail, User
<1>4. CASE j.op \in {"verify", "activate", "deactivate"}
  BY <1>4 DEF Change, MarkEmailAsVerified, Activate, Deactivate, User
<1>5. CASE j.op \in {"ban", "banUntil", "unban"}
  BY <1>5 DEF Change, PermanentlyBanUser, BanUser, UnbanUser, User
<1>6. CASE j.op \in {"addRole", "removeRole"}
  BY <1>6 DEF Change, AddRole, RemoveRole, User
<1>7. CASE j.op \in Edits
  <2>1. Change(j, u) = UpdateUserProfile(j.op, u)
    BY <1>7 DEF Change, Edits
  <2>2. UpdateUserProfile(j.op, u) \in {Activate(u), Deactivate(u), MarkEmailAsVerified(u), BanUser(u), UnbanUser(u)}
    BY <1>7 DEF UpdateUserProfile, Edits
  <2>3. /\ Activate(u) \in User \cup {None} /\ Deactivate(u) \in User
        /\ MarkEmailAsVerified(u) \in User
    BY DEF MarkEmailAsVerified, Activate, Deactivate, User
  <2>4. BanUser(u) \in User /\ UnbanUser(u) \in User
    BY DEF BanUser, UnbanUser, User
  <2> QED
    BY <2>1, <2>2, <2>3, <2>4
<1> QED
  BY <1>2, <1>3, <1>4, <1>5, <1>6, <1>7

\* What is written is a user, or the method has thrown.
LEMMA WrittenType ==
  ASSUME TypeOK, NEW p \in Request, Sighted(p), Label(p) \in {"write", "touch"}
  PROVE  Written(p) \in User \cup {None}
<1>1. job[p] \in Job /\ seen[p] \in User
  BY SightedWrite DEF TypeOK
<1> QED
  BY <1>1, WriteOps, ChangeType DEF Written

\* A link or code that is used remains a row of its table.
LEMMA VersionsType ==
  ASSUME NEW S \in SUBSET Item
  PROVE  Versions(S) \subseteq Item
<1>1. ASSUME NEW r \in Kind(S, "reset")
      PROVE  Used(r.of) \in Item
  BY <1>1 DEF Kind, Used, Item
<1>2. ASSUME NEW r \in Kind(S, "code")
      PROVE  Verified(r.of, r.mail) \in Item
  BY <1>2 DEF Kind, Verified, Item
<1> QED
  BY <1>1, <1>2 DEF Versions

\* A statement aims at rows of the tables.
LEMMA AimType ==
  ASSUME TypeOK, NEW p \in Request
  PROVE  Aim(p) \subseteq Item /\ Aimed(p) \subseteq Item /\ Visible(p) \subseteq Item
<1>1. Visible(p) \subseteq Item
  BY DEF Visible, TypeOK
<1>2. job[p].n \in Nat /\ job[p].mail \in Mail
  BY DEF TypeOK, Job
<1>3. Token(job[p].n) \in Item /\ Reset(job[p].n) \in Item /\ Code(job[p].n, job[p].mail) \in Item
  BY <1>2 DEF Token, Reset, Code, Item
<1>4. /\ Versions(Kind(Visible(p), "reset") \cup Kind(Visible(p), "used")) \subseteq Item
      /\ Versions(Codes(Visible(p), job[p].mail)) \subseteq Item
      /\ Versions({Reset(job[p].n)}) \subseteq Item
      /\ Versions({Code(job[p].n, job[p].mail)}) \subseteq Item
  BY <1>1, <1>3, VersionsType DEF Kind, Codes
<1>5. Aim(p) \subseteq Item
  BY <1>1, <1>3, <1>4 DEF Aim, Kind
<1> QED
  BY <1>1, <1>5 DEF Aimed, TypeOK

LessThan == {s \in Nat \X Nat : s[1] < s[2]}

\* A set of numbers that is not empty has a least one.
LEMMA LeastNumber ==
  ASSUME NEW S, S \subseteq Nat, S # {}
  PROVE  \E n \in S : \A k \in S : n <= k
<1>1. IsWellFoundedOn(LessThan, Nat)
  BY NatLessThanWellFounded, Zenon DEF OpToRel, LessThan
<1>2. PICK n \in S : \A k \in S : ~(<<k, n>> \in LessThan)
  BY <1>1, WFMin
<1>3. ASSUME NEW k \in S
      PROVE  n <= k
  <2>1. <<k, n>> \in Nat \X Nat /\ <<k, n>>[1] = k /\ <<k, n>>[2] = n
    OBVIOUS
  <2>2. ~(<<k, n>>[1] < <<k, n>>[2])
    BY <1>2, <2>1 DEF LessThan
  <2> QED
    BY <2>1, <2>2
<1> QED
  BY <1>3

\* The oldest of the sessions.
LEMMA OldestSession ==
  ASSUME TypeOK, NEW p \in Request, NEW S, S = {r.of : r \in Kind(Visible(p), "session")},
         Cardinality(S) >= MaxSessions
  PROVE  (CHOOSE n \in S : \A k \in S : n <= k) \in S /\ S \subseteq Nat
<1>1. S \subseteq Nat
  BY AimType DEF Kind, Item
<1>2. CASE S = {}
  <2>1. Cardinality(S) = 0
    BY <1>2, FS_EmptySet
  <2> QED
    BY <2>1, AccountsAssumption
<1>3. CASE S # {}
  BY <1>1, <1>3, LeastNumber
<1> QED
  BY <1>2, <1>3

\* A request that is neither free nor about to commit is inside its program.
LEMMA WriterAt ==
  ASSUME TypeOK, NEW p \in Request, Label(p) \notin {"free", "commit"}
  PROVE  pc[p] \in 1..11 /\ pc[p] <= Len(Program[job[p].op])
BY StandingAt, LabelIs DEF Standing

\* No command has more than eleven statements.
LEMMA ProgramLength ==
  ASSUME TypeOK, NEW p \in Request
  PROVE  Len(Program[job[p].op]) \in 1..11
BY StandingAt DEF Standing

\* A statement reads or writes, and is neither the start nor the commit.
LEMMA LabelKinds ==
  /\ \A l \in ReadLabels : l \notin WriteLabels /\ l \notin {"free", "commit"}
  /\ \A l \in WriteLabels : l \notin {"free", "commit"}
BY DEF ReadLabels, WriteLabels, DropLabels, AddLabels

\* What a written statement adds has the right type.
LEMMA NewItemType ==
  ASSUME TypeOK, NEW p \in Request
  PROVE  /\ Used(job[p].n) \in Item /\ Verified(job[p].n, job[p].mail) \in Item
         /\ Roles(job[p].secret) \in Item /\ Row(p) \in Item /\ Row(p).of \in Nat
<1>1. /\ job[p].n \in Nat /\ job[p].mail \in Mail /\ job[p].secret \in Nat
      /\ issued \in Nat /\ new[p] \in Nat
  BY AccountsAssumption DEF TypeOK, Job
<1>2. Used(job[p].n) \in Item /\ Verified(job[p].n, job[p].mail) \in Item /\ Roles(job[p].secret) \in Item
  BY <1>1 DEF Used, Verified, Roles, Item
<1>3. /\ Token(issued + 1) \in Item /\ Session(new[p]) \in Item /\ Reset(issued + 1) \in Item
      /\ Code(issued + 1, job[p].mail) \in Item
  BY <1>1 DEF Token, Session, Reset, Code, Item
<1>4. /\ Token(issued + 1).of \in Nat /\ Session(new[p]).of \in Nat /\ Reset(issued + 1).of \in Nat
      /\ Code(issued + 1, job[p].mail).of \in Nat
  BY <1>1 DEF Token, Session, Reset, Code
<1> QED
  BY <1>2, <1>3, <1>4 DEF Row

\* What the variables of p are after a step, and the shared ones.
StepTyped(p) ==
  /\ job'[p] \in Job /\ pc'[p] \in 0..12 /\ seen'[p] \in User \cup {None}
  /\ pick'[p] \in Nat /\ new'[p] \in Nat /\ aim'[p] \in {None} \cup SUBSET Item
  /\ draft'[p] \in User \cup {Gone, None} /\ ins'[p] \subseteq Item /\ del'[p] \subseteq Item
  /\ user' \in User \cup {Gone} /\ rows' \subseteq Item /\ issued' \in Nat
  /\ cause' \subseteq {"stale", "missed"}

\* A step leaves the requester's own variables, and the tables, well typed.
LEMMA EffectTyped ==
  ASSUME TypeOK, NEW p \in Request, Sighted(p), Effect(p)
  PROVE  StepTyped(p)
<1>0. /\ job[p] \in Job /\ pc[p] \in 0..12 /\ seen[p] \in User \cup {None} /\ pick[p] \in Nat
      /\ new[p] \in Nat /\ aim[p] \in {None} \cup SUBSET Item /\ draft[p] \in User \cup {Gone, None}
      /\ ins[p] \subseteq Item /\ del[p] \subseteq Item /\ user \in User \cup {Gone}
      /\ rows \subseteq Item /\ issued \in Nat /\ cause \subseteq {"stale", "missed"}
  BY DEF TypeOK
<1>a. NoJob \in Job
  BY AccountsAssumption DEF NoJob, Job
<1>b. Visible(p) \subseteq Item /\ Aim(p) \subseteq Item /\ Aimed(p) \subseteq Item
  BY AimType
<1>1. CASE RollbackStep(p)
  BY <1>0, <1>a, <1>1 DEF RollbackStep, Ended, StepTyped
<1>2. CASE CommitStep(p)
  BY <1>0, <1>a, <1>b, <1>2, VisibleUserType DEF CommitStep, Ended, StepTyped
<1>3. CASE ReadStep(p)
  <2>1. Label(p) \notin {"free", "commit"}
    BY <1>3, LabelKinds DEF ReadStep
  <2>2. pc[p] + 1 \in 0..12 /\ Len(Program[job[p].op]) + 1 \in 0..12
    <3>1. pc[p] \in 1..11
      BY <2>1, WriterAt
    <3> DEFINE k == Len(Program[job[p].op])
    <3>2. k \in 1..11
      BY ProgramLength
    <3> HIDE DEF k
    <3>3. pc[p] + 1 \in 0..12 /\ k + 1 \in 0..12
      BY <3>1, <3>2
    <3> QED
      BY <3>3 DEF k
  <2>3. job'[p] \in Job /\ pc'[p] \in 0..12
    <3>1. [job[p] EXCEPT !.op = "loginCode"] \in Job
      BY <1>0 DEF Job
    <3> QED
      BY <1>0, <1>3, <2>2, <3>1 DEF ReadStep
  <2>4. pick'[p] \in Nat
    <3> DEFINE S == {r.of : r \in Kind(Visible(p), "session")}
    <3>1. pick'[p] = IF Label(p) = "room" /\ Cardinality(S) >= MaxSessions
                     THEN CHOOSE n \in S : \A k \in S : n <= k ELSE pick[p]
      BY <1>3 DEF ReadStep
    <3>2. Cardinality(S) >= MaxSessions => (CHOOSE n \in S : \A k \in S : n <= k) \in Nat
      BY OldestSession
    <3> HIDE DEF S
    <3> QED
      BY <1>0, <3>1, <3>2
  <2>5. seen'[p] \in User \cup {None}
    BY <1>0, <1>3, VisibleUserType DEF ReadStep
  <2> QED
    BY <1>0, <1>3, <2>3, <2>4, <2>5 DEF ReadStep, StepTyped
<1>4. CASE WaitStep(p)
  BY <1>0, <1>b, <1>4 DEF WaitStep, StepTyped
<1>5. ASSUME NEW D, NEW I, I \subseteq Item, WriteStep(p, D, I), Label(p) \in WriteLabels
      PROVE  /\ job'[p] \in Job /\ pc'[p] \in 0..12 /\ pick'[p] \in Nat
             /\ aim'[p] \in {None} \cup SUBSET Item /\ ins'[p] \subseteq Item /\ del'[p] \subseteq Item
             /\ user' \in User \cup {Gone} /\ rows' \subseteq Item
  <2>1. pc[p] + 1 \in 0..12
    BY <1>5, LabelKinds, WriterAt
  <2> QED
    BY <1>0, <1>5, <2>1 DEF WriteStep
<1>6. CASE DropStep(p)
  BY <1>0, <1>5, <1>6 DEF DropStep, WriteLabels, StepTyped
<1>7. CASE MarkStep(p)
  BY <1>0, <1>5, <1>7, NewItemType DEF MarkStep, WriteLabels, StepTyped
<1>8. CASE UserStep(p)
  BY <1>0, <1>5, <1>8, NewItemType, WrittenType DEF UserStep, WriteLabels, StepTyped
<1>9. CASE InsertStep(p)
  BY <1>0, <1>5, <1>9, NewItemType DEF InsertStep, WriteLabels, StepTyped
<1>10. CASE EraseStep(p)
  BY <1>0, <1>5, <1>10 DEF EraseStep, WriteLabels, StepTyped
<1> QED
  BY <1>1, <1>2, <1>3, <1>4, <1>6, <1>7, <1>8, <1>9, <1>10 DEF Effect

\* With the others untouched the whole state is well typed.
LEMMA StepTypeOK ==
  ASSUME TypeOK, NEW p \in Request, StepTyped(p), OthersSame(p), late' \in BOOLEAN, asked' \in 0..MaxRequests
  PROVE  TypeOK'
<1>1. job' \in [Request -> Job] /\ pc' \in [Request -> 0..12]
  BY DEF TypeOK, StepTyped, OthersSame
<1>2. seen' \in [Request -> User \cup {None}] /\ pick' \in [Request -> Nat] /\ new' \in [Request -> Nat]
  BY DEF TypeOK, StepTyped, OthersSame
<1>3. /\ aim' \in [Request -> {None} \cup SUBSET Item] /\ draft' \in [Request -> User \cup {Gone, None}]
      /\ ins' \in [Request -> SUBSET Item] /\ del' \in [Request -> SUBSET Item]
  BY DEF TypeOK, StepTyped, OthersSame
<1> QED
  BY <1>1, <1>2, <1>3 DEF TypeOK, StepTyped

\* What a step leaves alone, request by request.
LEMMA OthersPointwise ==
  ASSUME TypeOK, NEW p \in Request, OthersSame(p), NEW q \in Request \ {p}
  PROVE  /\ job'[q] = job[q] /\ pc'[q] = pc[q] /\ seen'[q] = seen[q]
         /\ pick'[q] = pick[q] /\ new'[q] = new[q] /\ aim'[q] = aim[q]
         /\ draft'[q] = draft[q] /\ ins'[q] = ins[q] /\ del'[q] = del[q]
BY DEF OthersSame, TypeOK

\* The user that was read stays at hand until it is written.
LEMMA StepSighted ==
  ASSUME TypeOK, NEW p \in Request, Sighted(p), Effect(p), StepTyped(p)
  PROVE  Sighted(p)'
<1>0. /\ job[p] \in Job /\ pc[p] \in 0..12 /\ seen[p] \in User \cup {None}
      /\ Label(p) \notin {"free", "commit"} => pc[p] \in 1..11
  BY WriterAt DEF TypeOK
<1>1. CASE RollbackStep(p) \/ CommitStep(p)
  BY <1>1 DEF RollbackStep, CommitStep, Ended, Sighted, NoJob
<1>2. CASE WaitStep(p)
  BY <1>2 DEF WaitStep, Sighted
<1>3. CASE ReadStep(p)
  <2>1. CASE job'[p] # job[p]
    BY <1>0, <1>3, <2>1 DEF ReadStep, Sighted, Job
  <2>2. CASE job'[p] = job[p] /\ seen'[p] # None
    BY <2>2 DEF Sighted
  <2>3. CASE job'[p] = job[p] /\ seen'[p] = None
    <3>1. seen[p] = None
      BY <1>3, <2>3, VisibleUserType DEF ReadStep
    <3>2. Label(p) \in SeeLabels => Label(p) = "read" /\ job[p].op \in CachedById
      BY <1>3, <2>3, VisibleUserType DEF ReadStep
    <3>3. Label(p) \in ReadLabels
      BY <1>3 DEF ReadStep
    <3>4. Standing(job[p].op, pc[p]) /\ Label(p) = Line(job[p].op, pc[p])
      BY StandingAt, LabelIs
    <3>5. \/ job[p].op \in {"login", "askCode", "loginCode", "refresh", "verify"}
          \/ Label(p) = "read" /\ job[p].op \in {"mail", "adminMail", "ban", "banUntil", "unban"} /\ pc[p] = 2
      BY <3>2, <3>3, <3>4 DEF Standing, ReadLabels, SeeLabels, CachedById, Edits
    <3>6. /\ job[p].op = "verify" => pc[p] >= 8
          /\ job[p].op = "login" => pc[p] # 2
      BY <3>2, <3>3, <3>4 DEF Standing, ReadLabels, SeeLabels, CachedById, Edits
    <3>7. job[p].op = "loginCode" \/ pc'[p] = pc[p] + 1
      <4>1. CASE job'[p] = [job[p] EXCEPT !.op = "loginCode"]
        BY <1>0, <2>3, <4>1 DEF Job
      <4>2. CASE pc'[p] = Len(Program[job[p].op]) + 1 /\ Label(p) \in {"unlessBanned", "onlyBanned"}
        BY <3>2, <4>2 DEF SeeLabels
      <4> QED
        BY <1>3, <4>1, <4>2 DEF ReadStep
    <3> QED
      BY <1>0, <2>3, <3>1, <3>5, <3>6, <3>7 DEF Sighted
  <2> QED
    BY <2>1, <2>2, <2>3
<1>4. CASE DropStep(p) \/ MarkStep(p) \/ InsertStep(p) \/ EraseStep(p)
  <2>1. job'[p] = job[p] /\ pc'[p] = pc[p] + 1 /\ seen'[p] = seen[p]
    BY <1>4 DEF DropStep, MarkStep, InsertStep, EraseStep, WriteStep
  <2>2. Label(p) \in WriteLabels \ {"write", "touch"}
    BY <1>4 DEF DropStep, MarkStep, InsertStep, EraseStep, WriteLabels, DropLabels, AddLabels
  <2>3. Standing(job[p].op, pc[p]) /\ Label(p) = Line(job[p].op, pc[p])
    BY StandingAt, LabelIs
  <2>4. \/ job[p].op \in {"login", "askCode", "loginCode", "refresh", "logout", "logoutAll", "askReset", "delete"}
        \/ pc[p] >= 2
    BY <2>2, <2>3 DEF Standing, WriteLabels, DropLabels, AddLabels, Edits
  <2>5. job[p].op = "login" => pc[p] >= 5
    BY <2>2, <2>3 DEF Standing, WriteLabels, DropLabels, AddLabels, Edits
  <2> QED
    BY <1>0, <2>1, <2>4, <2>5 DEF Sighted
<1>5. CASE UserStep(p)
  <2>1. seen'[p] # None
    BY <1>5 DEF UserStep
  <2> QED
    BY <2>1 DEF Sighted
<1> QED
  BY <1>1, <1>2, <1>3, <1>4, <1>5 DEF Effect

\* The type invariant holds at the start.
LEMMA TypedInit == Init => Typed
<1> SUFFICES ASSUME Init PROVE Typed
  OBVIOUS
<1>1. PICK m \in Mail, verified \in BOOLEAN :
        /\ user = [active |-> TRUE, reactivable |-> TRUE, ban |-> "none", mail |-> m,
                   flag |-> verified, secret |-> 0, role |-> TRUE]
        /\ rows = IF verified
                  THEN {Session(n) : n \in 1..MaxSessions}
                         \cup {Token(MaxSessions), Reset(0), Verified(0, m), Roles(0)}
                  ELSE {Code(0, m), Roles(0)}
        /\ issued = IF verified THEN MaxSessions ELSE 0
  BY DEF Init
<1>2. user \in User
  BY <1>1, AccountsAssumption DEF User
<1>3. rows \subseteq Item
  <2>1. \A n \in 1..MaxSessions : Session(n) \in Item
    BY AccountsAssumption DEF Session, Item
  <2>2. Token(MaxSessions) \in Item /\ Reset(0) \in Item /\ Roles(0) \in Item
    BY AccountsAssumption DEF Token, Reset, Roles, Item
  <2>3. Verified(0, m) \in Item /\ Code(0, m) \in Item
    BY DEF Verified, Code, Item
  <2> QED
    BY <1>1, <2>1, <2>2, <2>3
<1>4. issued \in Nat /\ asked \in 0..MaxRequests /\ cause = {} /\ late = FALSE
  <2>1. issued \in Nat
    BY <1>1, AccountsAssumption
  <2> QED
    BY <2>1, AccountsAssumption DEF Init
<1>5. NoJob \in Job
  BY AccountsAssumption DEF NoJob, Job
<1>6. TypeOK
  <2>1. job \in [Request -> Job] /\ pc \in [Request -> 0..12] /\ seen \in [Request -> User \cup {None}]
    BY <1>5 DEF Init
  <2>2. pick \in [Request -> Nat] /\ new \in [Request -> Nat] /\ aim \in [Request -> {None} \cup SUBSET Item]
    BY DEF Init
  <2>3. /\ draft \in [Request -> User \cup {Gone, None}]
        /\ ins \in [Request -> SUBSET Item] /\ del \in [Request -> SUBSET Item]
    BY DEF Init
  <2>4. cause \subseteq {"stale", "missed"} /\ late \in BOOLEAN
    BY <1>4
  <2> QED
    BY <1>2, <1>3, <1>4, <2>1, <2>2, <2>3, <2>4 DEF TypeOK
<1> QED
  BY <1>6 DEF Init, Typed, Sighted, NoJob

\* Every step keeps the type invariant.
LEMMA TypedNext == Typed /\ [Next]_vars => Typed'
<1> SUFFICES ASSUME Typed, [Next]_vars PROVE Typed'
  OBVIOUS
<1>0. TypeOK /\ \A p \in Request : Sighted(p)
  BY DEF Typed
<1>1. ASSUME NEW p \in Request, Effect(p)
      PROVE  Typed'
  <2>1. StepTyped(p) /\ Sighted(p)'
    BY <1>0, <1>1, EffectTyped, StepSighted
  <2>2. OthersSame(p) /\ late' \in BOOLEAN /\ asked' \in 0..MaxRequests
    BY <1>0, <1>1 DEF Effect, TypeOK
  <2> QED
    BY <1>0, <2>1, <2>2, StepTypeOK, OthersPointwise DEF Typed, Sighted
<1>2. ASSUME NEW p \in Request, BeginStep(p)
      PROVE  Typed'
  <2>1. StepTyped(p) /\ OthersSame(p) /\ late' \in BOOLEAN /\ asked' \in 0..MaxRequests
    BY <1>0, <1>2, AccountsAssumption DEF BeginStep, StepTyped, TypeOK
  <2>2. Sighted(p)'
    BY <1>2 DEF BeginStep, Sighted
  <2> QED
    BY <1>0, <2>1, <2>2, StepTypeOK, OthersPointwise DEF Typed, Sighted
<1>3. CASE BanRunsOut
  BY <1>0, <1>3 DEF BanRunsOut, tx, Typed, TypeOK, Sighted
<1>4. CASE UNCHANGED vars
  BY <1>0, <1>4 DEF vars, tx, Typed, TypeOK, Sighted
<1> QED
  BY <1>0, <1>1, <1>2, <1>3, <1>4, NextEffect

-----------------------------------------------------------------------------
(* Where a request is, and what it has written so far. *)

\* Request p is a command of S and has come to its statement k, or past it.
From(p, S, k) == job[p].op \in S /\ pc[p] >= k

\* The statements of p that write the user, or delete or insert rows of a kind, have begun
\* to have their effect.
WritesUser(p) ==
  \/ From(p, {"login", "verify", "mail", "adminMail", "unban"}, 4)
  \/ From(p, {"password", "adminPassword", "reset"} \cup Edits, 3)
  \/ From(p, {"delete"}, 2) \/ job[p].op \in AgainstOrder

DropsTokens(p) ==
  \/ From(p, {"refresh", "reset"}, 5) \/ From(p, {"login"}, 6) \/ From(p, {"verify"}, 7)
  \/ From(p, {"delete"}, 2) \/ job[p].op \in AgainstOrder

DropsSessions(p) ==
  \/ From(p, {"login", "refresh"}, 9) \/ From(p, {"verify"}, 10)
  \/ From(p, {"logout", "delete"}, 2) \/ From(p, {"password"}, 4)
  \/ From(p, {"mail", "adminMail"}, 5) \/ From(p, {"reset"}, 6)
  \/ job[p].op \in AgainstOrder

DropsLinks(p) == From(p, {"askReset", "delete"}, 2) \/ From(p, {"reset"}, 4)
DropsCodes(p) == From(p, {"askCode", "verify"}, 3) \/ job[p].op \in AgainstOrder
AddsToken(p) == From(p, {"login", "refresh"}, 7) \/ From(p, {"verify"}, 8)
AddsSession(p) == From(p, {"login"}, 10) \/ From(p, {"verify"}, 11) \/ From(p, {"refresh"}, 12)
AddsLink(p) == From(p, {"askReset"}, 3)

\* A transaction deletes and inserts what its statements say.
Shape(p) ==
  /\ draft[p] # None => WritesUser(p)
  /\ draft[p] = Gone => job[p].op = "delete"
  /\ \A r \in del[p] :
       /\ r.kind = "token" => DropsTokens(p)
       /\ r.kind = "session" => DropsSessions(p)
       /\ r.kind \in {"reset", "used"} => DropsLinks(p)
       /\ r.kind \in {"code", "verified"} => DropsCodes(p)
       /\ r.kind = "roles" => draft[p] # None
  /\ \A r \in ins[p] :
       /\ r.kind = "token" => AddsToken(p) /\ r.of = new[p]
       /\ r.kind = "session" => AddsSession(p) /\ r.of = new[p]
       /\ r.kind = "reset" => AddsLink(p)
  /\ From(p, {"login", "verify"}, 4) \/ From(p, {"reset"}, 3) => draft[p] \in User
  /\ AddsToken(p) => Token(new[p]) \in ins[p]

\* The rows a statement aims at.
Target(l) ==
  CASE l \in {"dropTokens", "claim"} -> {"token"}
    [] l \in {"dropSessions", "dropOthers", "dropOwn", "evict"} -> {"session"}
    [] l \in {"dropResets", "useReset"} -> {"reset", "used"}
    [] l \in {"dropCodes", "markCode"} -> {"code", "verified"}
    [] l \in {"write", "touch"} -> {"roles"}
    [] l = "erase" -> {"session", "token", "reset", "used", "roles"}
    [] OTHER -> {}

-----------------------------------------------------------------------------
(* Rows, numbers and locks. *)

\* Rows with a number that has been given.
Counted(r) == r.kind \in {"session", "token", "reset"} => r.of <= issued

Fresh(p) == \A r \in ins[p] : r.kind \in {"token", "reset"} => r \notin rows

Slot(p) ==
  /\ pc[p] > 0 => pc[p] <= Len(Program[job[p].op]) + 1
  /\ pc[p] = 0 => ins[p] = {} /\ del[p] = {} /\ draft[p] = None /\ aim[p] = None /\ seen[p] = None
  /\ job[p].n <= issued /\ new[p] <= issued
  /\ del[p] \subseteq rows
  /\ \A r \in ins[p] : Counted(r)
  /\ Fresh(p)
  /\ draft[p] # None => user # Gone
  /\ aim[p] # None => /\ Label(p) \in WriteLabels
                      /\ \A r \in aim[p] : r.kind \in Target(Label(p))
                      /\ Label(p) \in {"claim", "useReset", "markCode"} => aim[p] = Aim(p)

\* Row locks and keys keep two transactions apart.
Apart(p, q) ==
  /\ del[p] \cap del[q] = {}
  /\ \A r \in ins[p] : r.kind \in {"token", "reset"} => r \notin ins[q]
  /\ draft[p] # None => draft[q] = None

Base ==
  /\ TypeOK
  /\ \A r \in rows : Counted(r)
  /\ \A p \in Request : Slot(p) /\ Shape(p)
  /\ \A p, q \in Request : p # q => Apart(p, q)

-----------------------------------------------------------------------------
(* Tokens and links. *)

\* A refresh has found its token, then deletes it.
Refreshing(p) ==
  /\ From(p, {"refresh"}, 2) => \A q \in Request : Token(job[p].n) \notin ins[q]
  /\ From(p, {"refresh"}, 5) => Token(job[p].n) \in del[p]

TokensInv ==
  /\ \A p \in Request : Refreshing(p)
  /\ \A h \in heirs : h[1] = "token" =>
       h[2] \in 0..issued /\ Token(h[2]) \notin rows /\ \A q \in Request : Token(h[2]) \notin ins[q]

\* A secret is the one of the request that wrote it.
Secrets(p) ==
  /\ seen[p] \in User => seen[p].secret <= asked
  /\ draft[p] \in User => draft[p].secret <= asked
  /\ pc[p] # 0 =>
       /\ job[p].secret \in 1..asked
       /\ user # Gone => user.secret # job[p].secret
       /\ draft[p] = None /\ seen[p] # None => seen[p].secret # job[p].secret

SecretsApart(p, q) ==
  pc[p] # 0 =>
    /\ pc[q] # 0 => job[q].secret # job[p].secret
    /\ seen[q] \in User => seen[q].secret # job[p].secret
    /\ draft[q] \in User => draft[q].secret # job[p].secret

\* Nobody writes the secret x any more.
Bygone(x) ==
  /\ user # Gone => user.secret # x
  /\ \A q \in Request : draft[q] \in User => draft[q].secret # x

Unused(n) == \A h \in heirs : ~(h[1] = "link" /\ h[2] = n)

Resetting(p) ==
  /\ From(p, {"reset"}, 2) => \A q \in Request : Reset(job[p].n) \notin ins[q]
  /\ From(p, {"reset"}, 2) => seen[p] # None
  /\ From(p, {"reset"}, 3) => draft[p].secret = job[p].secret
  /\ From(p, {"reset"}, 4) /\ Reset(job[p].n) \in rows => Reset(job[p].n) \in del[p]
  /\ "stale" \notin cause =>
       /\ From(p, {"reset"}, 2) /\ pc[p] = 2 => Unused(job[p].n) \/ Bygone(seen[p].secret)
       /\ From(p, {"reset"}, 3) => Unused(job[p].n)

-----------------------------------------------------------------------------
(* Bans. *)

BansInv ==
  "stale" \notin cause =>
    \A p \in Request :
      draft[p] \in User /\ job[p].op \notin Unbanning /\ Banned(user) => Banned(draft[p])

-----------------------------------------------------------------------------
(* The statement of a request before and after a step. *)

\* The facts on a request that most proofs begin with.
LEMMA AtLabel ==
  ASSUME TypeOK, NEW p \in Request
  PROVE  /\ Label(p) = Line(job[p].op, pc[p]) /\ Standing(job[p].op, pc[p])
         /\ job[p].op \in Command \cup {"loginCode"} /\ pc[p] \in 0..12
         /\ job[p].n \in Nat /\ job[p].secret \in 0..MaxRequests /\ MaxRequests \in Nat
         /\ issued \in Nat /\ new[p] \in Nat
         /\ ins[p] \subseteq Item /\ del[p] \subseteq Item /\ rows \subseteq Item
BY StandingAt, LabelIs, AccountsAssumption DEF TypeOK, Job

\* The same in the next state.
LEMMA AtLabelNext ==
  ASSUME TypeOK', NEW p \in Request
  PROVE  /\ Label(p)' = Line(job'[p].op, pc'[p]) /\ Standing(job'[p].op, pc'[p])
         /\ pc'[p] \in 0..12 /\ issued' \in Nat /\ new'[p] \in Nat
<1>1. job'[p].op \in Op \cup {"loginCode"} /\ pc'[p] \in Nat /\ pc'[p] \in 0..12
  BY DEF TypeOK, Job
<1>2. Standing(job'[p].op, pc'[p])
  BY <1>1, Lines
<1>3. Label(p)' = Line(job'[p].op, pc'[p])
  BY DEF Label, Line
<1> QED
  BY <1>1, <1>2, <1>3 DEF TypeOK

\* What a statement aims at has the kind it deletes or updates.
LEMMA VersionsKind ==
  ASSUME NEW S, NEW r \in Versions(S)
  PROVE  \/ r \in S
         \/ r.kind = "used" /\ \E s \in S : s.kind = "reset"
         \/ r.kind = "verified" /\ \E s \in S : s.kind = "code"
BY DEF Versions, Kind, Used, Verified

\* A statement aims at rows of its own table only.
LEMMA AimKinds ==
  ASSUME TypeOK, NEW p \in Request, NEW r \in Aim(p)
  PROVE  r.kind \in Target(Label(p)) /\ Label(p) \in WriteLabels
<1>0. Token(job[p].n).kind = "token" /\ Reset(job[p].n).kind = "reset" /\ Code(job[p].n, job[p].mail).kind = "code"
  BY DEF Token, Reset, Code
<1>1. CASE Label(p) \in {"dropTokens", "dropSessions", "dropOthers", "write", "touch"}
  BY <1>1 DEF Aim, Kind, Target, WriteLabels, DropLabels
<1>2. CASE Label(p) \in {"dropOwn", "evict"}
  BY <1>2 DEF Aim, Session, Target, WriteLabels, DropLabels
<1>3. CASE Label(p) = "dropResets"
  <2>1. r \in Versions(Kind(Visible(p), "reset") \cup Kind(Visible(p), "used"))
    BY <1>3 DEF Aim
  <2>2. r.kind \in {"reset", "used"}
    BY <2>1, VersionsKind DEF Kind
  <2> QED
    BY <1>3, <2>2 DEF Target, WriteLabels, DropLabels
<1>4. CASE Label(p) = "dropCodes"
  <2>1. r \in Versions(Codes(Visible(p), job[p].mail))
    BY <1>4 DEF Aim
  <2>2. r.kind \in {"code", "verified"}
    BY <2>1, VersionsKind DEF Codes
  <2> QED
    BY <1>4, <2>2 DEF Target, WriteLabels, DropLabels
<1>5. CASE Label(p) = "claim"
  BY <1>0, <1>5 DEF Aim, Target, WriteLabels
<1>6. CASE Label(p) = "useReset"
  <2>1. r \in Versions({Reset(job[p].n)})
    BY <1>6 DEF Aim
  <2>2. r.kind \in {"reset", "used"}
    BY <1>0, <2>1, VersionsKind
  <2> QED
    BY <1>6, <2>2 DEF Target, WriteLabels
<1>7. CASE Label(p) = "markCode"
  <2>1. r \in Versions({Code(job[p].n, job[p].mail)})
    BY <1>7 DEF Aim
  <2>2. r.kind \in {"code", "verified"}
    BY <1>0, <2>1, VersionsKind
  <2> QED
    BY <1>7, <2>2 DEF Target, WriteLabels
<1>8. CASE Label(p) = "erase"
  <2>1. r \in Visible(p) /\ r.kind \notin {"code", "verified"}
    BY <1>8 DEF Aim
  <2>2. r.kind \in {"session", "token", "reset", "used", "roles"}
    BY <2>1, AimType DEF Item
  <2> QED
    BY <1>8, <2>2 DEF Target, WriteLabels
<1>9. CASE Label(p) \notin {"dropTokens", "dropSessions", "dropOthers", "write", "touch", "dropOwn", "evict",
                            "dropResets", "dropCodes", "claim", "useReset", "markCode", "erase"}
  BY <1>9 DEF Aim
<1> QED
  BY <1>1, <1>2, <1>3, <1>4, <1>5, <1>6, <1>7, <1>8, <1>9

\* So does one that has waited.
LEMMA AimedKinds ==
  ASSUME TypeOK, NEW p \in Request, Slot(p), NEW r \in Aimed(p)
  PROVE  r.kind \in Target(Label(p))
BY AimKinds DEF Aimed, Slot

\* Only a statement that writes waits.
LEMMA BlockedWrites ==
  ASSUME TypeOK, NEW p \in Request, Slot(p), Blockers(p) # {}
  PROVE  Label(p) \in WriteLabels
<1>1. CASE Label(p) \in {"write", "touch", "erase", "addToken", "addSession", "addReset"}
  BY <1>1 DEF WriteLabels, AddLabels
<1>2. CASE Label(p) \notin {"write", "touch", "erase", "addToken", "addSession", "addReset"}
  <2>1. Aimed(p) # {}
    BY <1>2 DEF Blockers, Refers, WillChangeKey
  <2> QED
    BY <2>1, AimKinds DEF Aimed, Slot
<1> QED
  BY <1>1, <1>2

-----------------------------------------------------------------------------
(* What the table of statements says about the progress of a command. *)

\* A statement that writes has its effect when the request goes on.
LEMMA WriteMoves ==
  ASSUME TypeOK, NEW p \in Request, Label(p) \in WriteLabels, job'[p] = job[p], pc'[p] = pc[p] + 1
  PROVE  /\ "token" \in Target(Label(p)) => DropsTokens(p)' /\ ~AddsToken(p)'
         /\ "session" \in Target(Label(p)) => DropsSessions(p)'
         /\ "reset" \in Target(Label(p)) \/ "used" \in Target(Label(p)) => DropsLinks(p)'
         /\ "code" \in Target(Label(p)) \/ "verified" \in Target(Label(p)) => DropsCodes(p)'
         /\ "roles" \in Target(Label(p)) => Label(p) \in {"write", "touch", "erase"}
         /\ Label(p) \in {"write", "touch", "erase"} => WritesUser(p)'
         /\ Label(p) = "erase" => job[p].op = "delete"
<1>1. /\ Label(p) = Line(job[p].op, pc[p]) /\ Standing(job[p].op, pc[p]) /\ pc[p] \in 0..12
      /\ job[p].op \in Command \cup {"loginCode"}
  BY AtLabel
<1>2. CASE Label(p) = "dropTokens"
  <2>1. \/ job[p].op \in {"login", "refresh", "ban", "banUntil"} /\ pc[p] = 5
        \/ job[p].op = "verify" /\ pc[p] = 6
        \/ job[p].op = "logoutAll" /\ pc[p] = 2
        \/ job[p].op \in {"reset", "activate", "deactivate", "addRole", "removeRole"} /\ pc[p] = 4
    BY <1>1, <1>2 DEF Standing
  <2>2. DropsTokens(p)' /\ ~AddsToken(p)'
    BY <1>1, <2>1 DEF DropsTokens, AddsToken, From, AgainstOrder
  <2> QED
    BY <1>2, <2>2 DEF Target
<1>3. CASE Label(p) = "claim"
  <2>1. job[p].op = "refresh" /\ pc[p] = 4
    BY <1>1, <1>3 DEF Standing
  <2>2. DropsTokens(p)' /\ ~AddsToken(p)'
    BY <1>1, <2>1 DEF DropsTokens, AddsToken, From, AgainstOrder
  <2> QED
    BY <1>3, <2>2 DEF Target
<1>4. CASE Label(p) \in {"dropSessions", "dropOthers", "dropOwn", "evict"}
  <2>1. \/ job[p].op = "logoutAll" /\ pc[p] = 1
        \/ job[p].op \in {"adminMail", "ban", "banUntil", "mail"} /\ pc[p] = 4
        \/ job[p].op = "reset" /\ pc[p] = 5
        \/ job[p].op \in {"activate", "deactivate", "addRole", "removeRole", "password"} /\ pc[p] = 3
        \/ job[p].op = "refresh" /\ pc[p] \in {8, 10}
        \/ job[p].op = "logout" /\ pc[p] = 1
        \/ job[p].op = "login" /\ pc[p] = 8
        \/ job[p].op = "verify" /\ pc[p] = 9
    BY <1>1, <1>4 DEF Standing
  <2>2. DropsSessions(p)'
    BY <1>1, <2>1 DEF DropsSessions, From, AgainstOrder
  <2> QED
    BY <1>4, <2>2 DEF Target
<1>5. CASE Label(p) \in {"dropResets", "useReset"}
  <2>1. \/ Label(p) = "dropResets" /\ job[p].op = "askReset" /\ pc[p] = 1
        \/ Label(p) = "useReset" /\ job[p].op = "reset" /\ pc[p] = 3
    <3>1. CASE Label(p) = "dropResets"
      BY <1>1, <3>1 DEF Standing
    <3>2. CASE Label(p) = "useReset"
      BY <1>1, <3>2 DEF Standing
    <3> QED
      BY <1>5, <3>1, <3>2
  <2>2. DropsLinks(p)'
    BY <1>1, <2>1 DEF DropsLinks, From
  <2> QED
    BY <1>5, <2>2 DEF Target
<1>6. CASE Label(p) \in {"dropCodes", "markCode"}
  <2>1. job[p].op \in {"askCode", "loginCode", "verify"} /\ pc[p] = 2
    BY <1>1, <1>6 DEF Standing
  <2>2. DropsCodes(p)'
    BY <1>1, <2>1 DEF DropsCodes, From, AgainstOrder
  <2> QED
    BY <1>6, <2>2 DEF Target
<1>7. CASE Label(p) \in {"write", "touch"}
  <2>1. \/ job[p].op \in {"verify", "mail", "adminMail", "ban", "banUntil", "unban", "login"} /\ pc[p] = 3
        \/ job[p].op \in {"password", "reset", "activate", "deactivate", "addRole", "removeRole",
                          "adminPassword"} \cup Edits /\ pc[p] = 2
        \/ job[p].op = "verify" /\ pc[p] = 5
    BY <1>1, <1>7 DEF Standing
  <2>2. WritesUser(p)'
    BY <1>1, <2>1 DEF WritesUser, From, AgainstOrder
  <2> QED
    BY <1>7, <2>2 DEF Target
<1>8. CASE Label(p) = "erase"
  <2>1. job[p].op = "delete" /\ pc[p] = 1
    BY <1>1, <1>8 DEF Standing
  <2>2. WritesUser(p)' /\ DropsTokens(p)' /\ DropsSessions(p)' /\ DropsLinks(p)' /\ ~AddsToken(p)'
    BY <1>1, <2>1 DEF WritesUser, DropsTokens, DropsSessions, DropsLinks, AddsToken, From
  <2> QED
    BY <1>8, <2>1, <2>2 DEF Target
<1>9. CASE Label(p) \in AddLabels
  BY <1>9 DEF Target, AddLabels
<1> QED
  BY <1>2, <1>3, <1>4, <1>5, <1>6, <1>7, <1>8, <1>9 DEF WriteLabels, DropLabels

\* Rows are inserted by the statement for them, and the user is written on time.
LEMMA AddMoves ==
  ASSUME TypeOK, NEW p \in Request, Label(p) \in WriteLabels, job'[p] = job[p], pc'[p] = pc[p] + 1
  PROVE  /\ Label(p) = "addToken" => AddsToken(p)' /\ ~AddsToken(p) /\ ~AddsSession(p)
         /\ Label(p) = "addSession" => AddsSession(p)' /\ AddsToken(p)
         /\ Label(p) = "addReset" => AddsLink(p)' /\ ~AddsToken(p) /\ ~AddsSession(p)
         /\ Label(p) = "addCode" => ~AddsToken(p) /\ ~AddsSession(p)
         /\ AddsToken(p)' => AddsToken(p) \/ Label(p) = "addToken"
         /\ From(p, {"login", "verify"}, 4)' \/ From(p, {"reset"}, 3)' =>
              \/ Label(p) \in {"write", "touch"}
              \/ From(p, {"login", "verify"}, 4) \/ From(p, {"reset"}, 3)
<1>1. /\ Label(p) = Line(job[p].op, pc[p]) /\ Standing(job[p].op, pc[p]) /\ pc[p] \in 0..12
      /\ job[p].op \in Command \cup {"loginCode"}
  BY AtLabel
<1>2. CASE Label(p) = "addToken"
  <2>1. \/ job[p].op \in {"login", "refresh"} /\ pc[p] = 6
        \/ job[p].op = "verify" /\ pc[p] = 7
    BY <1>1, <1>2 DEF Standing
  <2> QED
    BY <1>1, <1>2, <2>1 DEF AddsToken, AddsSession, From
<1>3. CASE Label(p) = "addSession"
  <2>1. \/ job[p].op = "login" /\ pc[p] = 9
        \/ job[p].op = "verify" /\ pc[p] = 10
        \/ job[p].op = "refresh" /\ pc[p] = 11
    BY <1>1, <1>3 DEF Standing
  <2> QED
    BY <1>1, <1>3, <2>1 DEF AddsToken, AddsSession, From
<1>4. CASE Label(p) = "addReset"
  <2>1. job[p].op = "askReset" /\ pc[p] = 2
    BY <1>1, <1>4 DEF Standing
  <2> QED
    BY <1>1, <1>4, <2>1 DEF AddsToken, AddsSession, AddsLink, From
<1>5. CASE Label(p) = "addCode"
  <2>1. job[p].op \in {"askCode", "loginCode"}
    BY <1>1, <1>5 DEF Standing
  <2> QED
    BY <1>1, <1>5, <2>1 DEF AddsToken, AddsSession, From
<1>6. CASE Label(p) \notin AddLabels
  <2>1. /\ ~(job[p].op \in {"login", "refresh"} /\ pc[p] = 6)
        /\ ~(job[p].op = "verify" /\ pc[p] = 7)
    BY <1>1, <1>6 DEF Standing, WriteLabels, DropLabels, Edits
  <2>2. \/ Label(p) \in {"write", "touch"}
        \/ /\ ~(job[p].op \in {"login", "verify"} /\ pc[p] = 3)
           /\ ~(job[p].op = "reset" /\ pc[p] = 2)
    BY <1>1, <1>6 DEF Standing, WriteLabels, DropLabels, Edits
  <2> QED
    BY <1>1, <1>6, <2>1, <2>2 DEF AddsToken, From, AddLabels
<1> QED
  BY <1>2, <1>3, <1>4, <1>5, <1>6 DEF AddLabels

\* What has been done stays done.
LEMMA Onwards ==
  ASSUME NEW p \in Request, job'[p] = job[p], pc[p] \in Int, pc'[p] \in Int, pc'[p] >= pc[p]
  PROVE  /\ WritesUser(p) => WritesUser(p)'
         /\ DropsTokens(p) => DropsTokens(p)'
         /\ DropsSessions(p) => DropsSessions(p)'
         /\ DropsLinks(p) => DropsLinks(p)'
         /\ DropsCodes(p) => DropsCodes(p)'
         /\ AddsToken(p) => AddsToken(p)'
         /\ AddsSession(p) => AddsSession(p)'
         /\ AddsLink(p) => AddsLink(p)'
<1>1. ASSUME NEW S, NEW k \in Int, From(p, S, k)
      PROVE  From(p, S, k)'
  BY <1>1 DEF From
<1> QED
  BY <1>1 DEF WritesUser, DropsTokens, DropsSessions, DropsLinks, DropsCodes, AddsToken, AddsSession, AddsLink

\* A statement that reads neither inserts nor writes.
LEMMA ReadMoves ==
  ASSUME TypeOK, NEW p \in Request, Slot(p), ReadStep(p), job'[p] = job[p]
  PROVE  /\ pc'[p] >= pc[p] /\ pc'[p] <= Len(Program[job[p].op]) + 1
         /\ AddsToken(p)' => AddsToken(p)
         /\ From(p, {"login", "verify"}, 4)' \/ From(p, {"reset"}, 3)' =>
              From(p, {"login", "verify"}, 4) \/ From(p, {"reset"}, 3)
<1>1. /\ Label(p) = Line(job[p].op, pc[p]) /\ Standing(job[p].op, pc[p]) /\ pc[p] \in 0..12
      /\ job[p].op \in Command \cup {"loginCode"}
  BY AtLabel
<1>2. Label(p) \in ReadLabels /\ Label(p) \notin {"free", "commit"}
  BY LabelKinds DEF ReadStep
<1>3. pc[p] \in 1..11 /\ pc[p] <= Len(Program[job[p].op]) /\ Len(Program[job[p].op]) \in 1..11
  BY <1>2, WriterAt, ProgramLength
<1>4. \/ pc'[p] = pc[p] + 1
      \/ pc'[p] = Len(Program[job[p].op]) + 1
           /\ (Label(p) \in {"unlessBanned", "onlyBanned"} \/ job[p].op = "loginCode")
      \/ job[p].op = "loginCode" /\ pc'[p] = 1 /\ Label(p) = "isVerified"
  <2>1. job[p] \in Job
    BY DEF TypeOK
  <2>2. job'[p] = [job[p] EXCEPT !.op = "loginCode"] => job[p].op = "loginCode"
    BY <2>1 DEF Job
  <2> QED
    BY <2>2 DEF ReadStep
<1>5. ~(job[p].op = "loginCode" /\ Label(p) = "isVerified")
  BY <1>1 DEF Standing
<1>6. pc'[p] >= pc[p] /\ pc'[p] <= Len(Program[job[p].op]) + 1
  <2> DEFINE k == Len(Program[job[p].op])
  <2>1. /\ pc[p] \in 1..11 /\ pc[p] <= k /\ k \in 1..11
        /\ pc'[p] = pc[p] + 1 \/ pc'[p] = k + 1
    BY <1>3, <1>4, <1>5
  <2> HIDE DEF k
  <2>2. pc'[p] >= pc[p] /\ pc'[p] <= k + 1
    BY <2>1
  <2> QED
    BY <2>2 DEF k
<1>7. Label(p) \in {"unlessBanned", "onlyBanned"} => job[p].op \in {"ban", "banUntil", "unban"}
  BY <1>1 DEF Standing
<1>8. /\ ~(job[p].op \in {"login", "refresh"} /\ pc[p] = 6)
      /\ ~(job[p].op = "verify" /\ pc[p] = 7)
      /\ ~(job[p].op \in {"login", "verify"} /\ pc[p] = 3)
      /\ ~(job[p].op = "reset" /\ pc[p] = 2)
  BY <1>1, <1>2 DEF Standing, ReadLabels, Edits
<1>9. CASE pc'[p] = pc[p] + 1
  BY <1>3, <1>6, <1>8, <1>9 DEF AddsToken, From
<1>10. CASE job[p].op \in {"ban", "banUntil", "unban", "loginCode"}
  BY <1>6, <1>10 DEF AddsToken, From
<1> QED
  BY <1>4, <1>5, <1>7, <1>9, <1>10

-----------------------------------------------------------------------------
(* Rows, numbers and locks. *)

\* Numbers of sessions and links are never given back.
LEMMA IssuedGrows ==
  ASSUME TypeOK, NEW p \in Request, Effect(p)
  PROVE  issued' >= issued
<1>1. issued \in Nat /\ Row(p).of \in Nat
  BY NewItemType DEF TypeOK
<1>2. issued' = issued \/ (issued' = Row(p).of /\ Row(p).of > issued)
  BY DEF Effect, RollbackStep, CommitStep, ReadStep, WaitStep, DropStep, MarkStep, UserStep, InsertStep, EraseStep
<1> QED
  BY <1>1, <1>2

\* The new row has a new number, or that of the token that came before it.
LEMMA NewRow ==
  ASSUME Base, NEW p \in Request, InsertStep(p)
  PROVE  /\ \A r \in {Row(p)} : Counted(r)'
         /\ new'[p] = Row(p).of /\ new'[p] <= issued'
         /\ Row(p).kind \in {"token", "reset"} =>
              /\ Row(p).of = issued + 1
              /\ Row(p) \notin rows
              /\ \A q \in Request : Row(p) \notin ins[q]
<1>1. issued \in Nat /\ Row(p).of \in Nat /\ new[p] <= issued /\ new[p] \in Nat
  BY NewItemType DEF Base, TypeOK, Slot
<1>2. issued' = IF Row(p).of > issued THEN Row(p).of ELSE issued
  BY DEF InsertStep
<1>3. Row(p).of <= issued' /\ new'[p] = Row(p).of
  BY <1>1, <1>2 DEF InsertStep
<1>4. Row(p).kind \in {"token", "reset"} => Row(p).of = issued + 1
  BY DEF Row, Token, Reset, Session, Code
<1>5. ASSUME NEW r, Counted(r), r.kind \in {"token", "reset"}
      PROVE  r.of <= issued
  BY <1>5 DEF Counted
<1>6. Row(p).kind \in {"token", "reset"} => ~Counted(Row(p))
  BY <1>1, <1>4, <1>5
<1> QED
  <2>1. \A r \in {Row(p)} : Counted(r)'
    BY <1>3 DEF Counted
  <2>2. /\ \A r \in rows : Counted(r)
        /\ \A q \in Request : \A r \in ins[q] : Counted(r)
    BY DEF Base, Slot
  <2> QED
    BY <1>3, <1>4, <1>6, <2>1, <2>2

\* The slot of the request after a statement that writes.
LEMMA SlotWrites ==
  ASSUME Base, TypeOK', NEW p \in Request, NEW D, NEW I, WriteStep(p, D, I), Label(p) \in WriteLabels,
         new'[p] <= issued', issued' >= issued,
         \A r \in I : Counted(r)' /\ (r.kind \in {"token", "reset"} => r \notin rows),
         draft'[p] # None => user # Gone
  PROVE  Slot(p)'
<1>1. pc[p] \in 1..11 /\ pc[p] <= Len(Program[job[p].op])
  BY LabelKinds, WriterAt DEF Base
<1>2. pc'[p] = pc[p] + 1 /\ job'[p] = job[p] /\ aim'[p] = None /\ rows' = rows /\ user' = user
  BY DEF WriteStep
<1>3. pc'[p] # 0 /\ pc'[p] <= Len(Program[job'[p].op]) + 1
  <2> DEFINE k == Len(Program[job[p].op])
  <2>1. k \in 1..11 /\ pc[p] <= k
    BY <1>1, ProgramLength DEF Base
  <2> HIDE DEF k
  <2>2. pc'[p] # 0 /\ pc'[p] <= k + 1
    BY <1>1, <1>2, <2>1
  <2> QED
    BY <1>2, <2>2 DEF k
<1>4. issued \in Nat /\ issued' \in Nat
  BY DEF Base, TypeOK
<1>5. job'[p].n <= issued'
  <2>1. job[p].n \in Nat /\ job[p].n <= issued
    BY DEF Base, TypeOK, Job, Slot
  <2> QED
    BY <1>2, <1>4, <2>1
<1>6. ASSUME NEW r \in ins'[p]
      PROVE  Counted(r)' /\ (r.kind \in {"token", "reset"} => r \notin rows)
  <2>1. CASE r \in I
    BY <2>1
  <2>2. CASE r \in ins[p]
    <3>1. Counted(r) /\ (r.kind \in {"token", "reset"} => r \notin rows) /\ r \in Item
      BY <2>2 DEF Base, TypeOK, Slot, Fresh
    <3>2. r.of \in Nat
      BY <3>1 DEF Item
    <3> QED
      BY <1>4, <3>1, <3>2 DEF Counted
  <2> QED
    BY <1>6, <2>1, <2>2 DEF WriteStep
<1>7. del'[p] \subseteq rows'
  BY <1>2 DEF WriteStep, Base, Slot
<1> QED
  BY <1>2, <1>3, <1>5, <1>6, <1>7 DEF Slot, Fresh

\* A step keeps the requester's rows and numbers in order.
LEMMA SlotSelf ==
  ASSUME Base, TypeOK', NEW p \in Request, Effect(p)
  PROVE  Slot(p)'
<1>0. TypeOK /\ Slot(p) /\ issued' >= issued /\ issued \in Nat /\ issued' \in Nat
  BY IssuedGrows DEF Base, TypeOK
<1>a. new[p] <= issued /\ new[p] \in Nat /\ (draft[p] # None => user # Gone)
  BY <1>0 DEF Slot, TypeOK
<1>b. VisibleUser(p) # Gone => user # Gone
  BY <1>a DEF VisibleUser
<1>c. \A n, m : Counted(Used(n))' /\ Counted(Verified(n, m))' /\ Counted(Roles(n))'
  BY DEF Counted, Used, Verified, Roles
<1>d. \A n, m : Used(n).kind = "used" /\ Verified(n, m).kind = "verified" /\ Roles(n).kind = "roles"
  BY DEF Used, Verified, Roles
<1>1. CASE RollbackStep(p) \/ CommitStep(p)
  BY <1>0, <1>1 DEF RollbackStep, CommitStep, Ended, NoJob, Slot, Fresh
<1>2. CASE ReadStep(p)
  <2>1. Label(p) \in ReadLabels /\ Label(p) \notin WriteLabels
    BY <1>2, LabelKinds DEF ReadStep
  <2>2. aim'[p] = None
    BY <1>0, <1>2, <2>1 DEF ReadStep, Slot
  <2>3. job'[p].n = job[p].n
    BY <1>0, <1>2 DEF ReadStep, TypeOK, Job
  <2>4. pc'[p] # 0 /\ pc'[p] <= Len(Program[job'[p].op]) + 1
    <3>1. CASE job'[p] = job[p]
      <4>1. pc'[p] >= pc[p] /\ pc'[p] <= Len(Program[job[p].op]) + 1
        BY <1>0, <1>2, <3>1, ReadMoves
      <4>2. pc[p] \in 1..11
        BY <1>0, <2>1, LabelKinds, WriterAt
      <4>3. pc'[p] \in 0..12
        BY DEF TypeOK
      <4> QED
        BY <3>1, <4>1, <4>2, <4>3
    <3>2. CASE job'[p] # job[p]
      <4>1. pc'[p] = 1
        BY <1>2, <3>2 DEF ReadStep
      <4> DEFINE k == Len(Program[job'[p].op])
      <4>2. k \in 1..11
        BY AtLabelNext DEF Standing
      <4> HIDE DEF k
      <4>3. pc'[p] # 0 /\ pc'[p] <= k + 1
        BY <4>1, <4>2
      <4> QED
        BY <4>3 DEF k
    <3> QED
      BY <3>1, <3>2
  <2> QED
    BY <1>0, <1>2, <2>2, <2>3, <2>4 DEF ReadStep, Slot, Fresh, Counted
<1>3. CASE WaitStep(p)
  <2>1. Label(p)' = Label(p) /\ Aim(p)' = Aim(p) /\ aim'[p] = Aim(p)
    BY <1>3 DEF WaitStep, Label, Aim, Visible
  <2>2. Label(p) \in WriteLabels /\ \A r \in Aim(p) : r.kind \in Target(Label(p))
    BY <1>0, <1>3, BlockedWrites, AimKinds DEF WaitStep
  <2>3. Label(p)' \in WriteLabels /\ \A r \in aim'[p] : r.kind \in Target(Label(p)')
    BY <2>1, <2>2
  <2> QED
    BY <1>0, <1>3, <2>1, <2>3 DEF WaitStep, Slot, Fresh, Counted
<1>4. CASE DropStep(p)
  BY <1>0, <1>4, <1>a, SlotWrites DEF DropStep, WriteLabels
<1>5. CASE MarkStep(p)
  <2>1. new'[p] = new[p] /\ draft'[p] = draft[p] /\ issued' = issued /\ Label(p) \in WriteLabels
    BY <1>5 DEF MarkStep, WriteLabels
  <2> QED
    BY <1>0, <1>5, <1>a, <1>c, <1>d, <2>1, SlotWrites DEF MarkStep
<1>6. CASE UserStep(p)
  BY <1>0, <1>6, <1>a, <1>b, <1>c, <1>d, SlotWrites DEF UserStep, WriteLabels
<1>7. CASE InsertStep(p)
  BY <1>0, <1>7, <1>a, NewRow, SlotWrites DEF InsertStep, WriteLabels
<1>8. CASE EraseStep(p)
  BY <1>0, <1>8, <1>a, <1>b, SlotWrites DEF EraseStep, WriteLabels
<1> QED
  BY <1>1, <1>2, <1>3, <1>4, <1>5, <1>6, <1>7, <1>8 DEF Effect

\* It keeps those of the others, whose locks keep their rows in the tables.
LEMMA SlotOthers ==
  ASSUME Base, TypeOK', NEW p \in Request, Effect(p), NEW q \in Request \ {p}
  PROVE  Slot(q)'
<1>0. TypeOK /\ Slot(p) /\ Slot(q) /\ Apart(q, p) /\ issued' >= issued /\ issued \in Nat /\ issued' \in Nat
  BY IssuedGrows DEF Base, TypeOK
<1>1. /\ job'[q] = job[q] /\ pc'[q] = pc[q] /\ seen'[q] = seen[q]
      /\ pick'[q] = pick[q] /\ new'[q] = new[q] /\ aim'[q] = aim[q]
      /\ draft'[q] = draft[q] /\ ins'[q] = ins[q] /\ del'[q] = del[q]
  BY <1>0, OthersPointwise DEF Effect
<1>2. Label(q)' = Label(q) /\ (Label(q) \in {"claim", "useReset", "markCode"} => Aim(q)' = Aim(q))
  BY <1>1 DEF Label, Aim
<1>3. /\ del[q] \subseteq rows'
      /\ \A r \in ins[q] : r.kind \in {"token", "reset"} => r \notin rows'
      /\ draft[q] # None => user' # Gone
  <2>1. CASE CommitStep(p)
    <3>1. user' = VisibleUser(p) /\ rows' = (rows \ del[p]) \cup ins[p]
      BY <2>1 DEF CommitStep, Visible
    <3>2. draft[q] # None => user' = user
      BY <1>0, <3>1 DEF Apart, VisibleUser
    <3> QED
      BY <1>0, <3>1, <3>2 DEF Slot, Fresh, Apart
  <2>2. CASE ~CommitStep(p)
    <3>1. user' = user /\ rows' = rows
      BY <2>2 DEF Effect, RollbackStep, ReadStep, WaitStep, DropStep, MarkStep, UserStep, InsertStep,
                  EraseStep, WriteStep
    <3> QED
      BY <1>0, <3>1 DEF Slot, Fresh
  <2> QED
    BY <2>1, <2>2
<1>4. \A r \in ins[q] : Counted(r)'
  <2> SUFFICES ASSUME NEW r \in ins[q] PROVE Counted(r)'
    OBVIOUS
  <2>1. Counted(r) /\ r \in Item
    BY <1>0 DEF Slot, TypeOK
  <2>2. r.of \in Nat
    BY <2>1 DEF Item
  <2> QED
    BY <1>0, <2>1, <2>2 DEF Counted
<1>5. job[q].n <= issued' /\ new[q] <= issued'
  <2>1. job[q].n \in Nat /\ new[q] \in Nat
    BY <1>0, AtLabel
  <2> QED
    BY <1>0, <2>1 DEF Slot
<1> QED
  BY <1>0, <1>1, <1>2, <1>3, <1>4, <1>5 DEF Slot, Fresh

\* Committed rows have numbers that were given.
LEMMA RowsCounted ==
  ASSUME Base, TypeOK', NEW p \in Request, Effect(p), NEW r \in rows'
  PROVE  Counted(r)'
<1>0. TypeOK /\ Slot(p) /\ issued' >= issued /\ issued \in Nat /\ issued' \in Nat
  BY IssuedGrows DEF Base, TypeOK
<1>1. r \in rows \/ r \in ins[p]
  BY DEF Effect, RollbackStep, CommitStep, ReadStep, WaitStep, DropStep, MarkStep, UserStep, InsertStep,
         EraseStep, WriteStep, Visible
<1>2. Counted(r) /\ r \in Item
  BY <1>0, <1>1 DEF Base, TypeOK, Slot
<1>3. r.of \in Nat
  BY <1>2 DEF Item
<1> QED
  BY <1>0, <1>2, <1>3 DEF Counted

\* Row locks and new numbers keep the transactions apart.
LEMMA ApartSelf ==
  ASSUME Base, NEW p \in Request, Effect(p), NEW q \in Request \ {p}
  PROVE  Apart(p, q)' /\ Apart(q, p)'
<1>0. TypeOK /\ Slot(p) /\ Slot(q) /\ Apart(p, q) /\ Apart(q, p)
  BY DEF Base
<1>1. draft'[q] = draft[q] /\ ins'[q] = ins[q] /\ del'[q] = del[q]
  BY <1>0, OthersPointwise DEF Effect
<1>2. /\ del'[p] \cap del[q] = {}
      /\ \A r \in ins'[p] : r.kind \in {"token", "reset"} => r \notin ins[q]
      /\ draft'[p] # None => draft[q] = None
  <2>1. CASE RollbackStep(p) \/ CommitStep(p)
    BY <2>1 DEF RollbackStep, CommitStep, Ended
  <2>2. CASE ReadStep(p) \/ WaitStep(p)
    BY <1>0, <2>2 DEF ReadStep, WaitStep, Apart
  <2>3. ASSUME NEW D, NEW I, WriteStep(p, D, I), D \subseteq Aimed(p),
               \A r \in I : r.kind \in {"token", "reset"} => r \notin ins[q]
        PROVE  /\ del'[p] \cap del[q] = {}
               /\ \A r \in ins'[p] : r.kind \in {"token", "reset"} => r \notin ins[q]
    <3>1. del[q] \cap Aimed(p) = {}
      BY <2>3 DEF WriteStep, Blockers, Others
    <3> QED
      BY <1>0, <2>3, <3>1 DEF WriteStep, Apart
  <2>4. \A n, m : Used(n).kind = "used" /\ Verified(n, m).kind = "verified" /\ Roles(n).kind = "roles"
    BY DEF Used, Verified, Roles
  <2>5. CASE DropStep(p)
    BY <1>0, <2>3, <2>5 DEF DropStep, Apart
  <2>6. CASE MarkStep(p)
    <3>1. Aim(p) \subseteq Aimed(p)
      BY <1>0, <2>6 DEF MarkStep, Aimed, Slot
    <3> QED
      BY <1>0, <2>3, <2>4, <2>6, <3>1 DEF MarkStep, Apart
  <2>7. CASE UserStep(p)
    <3>1. draft[q] = None
      BY <2>7 DEF UserStep, WriteStep, Blockers, Others
    <3> QED
      BY <2>3, <2>4, <2>7, <3>1 DEF UserStep
  <2>8. CASE InsertStep(p)
    BY <1>0, <2>3, <2>8, NewRow DEF InsertStep, Apart
  <2>9. CASE EraseStep(p)
    <3>1. draft[q] = None /\ Aim(p) = Aimed(p)
      BY <2>9 DEF EraseStep, WriteStep, Blockers, Others, Aimed
    <3> QED
      BY <2>3, <2>9, <3>1 DEF EraseStep
  <2> QED
    BY <2>1, <2>2, <2>5, <2>6, <2>7, <2>8, <2>9 DEF Effect
<1> QED
  BY <1>1, <1>2 DEF Apart

\* Two requests that do not move stay apart.
LEMMA ApartOthers ==
  ASSUME Base, NEW p \in Request, Effect(p), NEW q \in Request \ {p}, NEW s \in Request \ {p}, q # s
  PROVE  Apart(q, s)'
BY OthersPointwise DEF Base, Apart, Effect

\* The transaction of a statement that writes has the shape of its command.
LEMMA ShapeWrites ==
  ASSUME Base, NEW p \in Request, NEW D, NEW I, WriteStep(p, D, I), Label(p) \in WriteLabels,
         \A r \in D : r.kind \in Target(Label(p)),
         I \subseteq {Row(p)} \/ \A r \in I : r.kind \in {"used", "verified", "roles"},
         Label(p) \in AddLabels \/ new'[p] = new[p],
         Label(p) \in AddLabels => I = {Row(p)} /\ new'[p] = Row(p).of,
         Label(p) \notin AddLabels => \A r \in I : r.kind \in {"used", "verified", "roles"},
         Label(p) \in {"write", "touch", "erase"} => draft'[p] # None,
         Label(p) \in {"write", "touch"} => draft'[p] \in User,
         Label(p) \notin {"write", "touch", "erase"} => draft'[p] = draft[p],
         draft'[p] = Gone => Label(p) = "erase" \/ draft[p] = Gone
  PROVE  Shape(p)'
<1>0. TypeOK /\ Slot(p) /\ Shape(p) /\ pc[p] \in Int /\ pc'[p] \in Int /\ pc'[p] >= pc[p]
  BY DEF Base, TypeOK, WriteStep
<1>1. job'[p] = job[p] /\ pc'[p] = pc[p] + 1
  BY DEF WriteStep
<1>2. draft'[p] # None => WritesUser(p)'
  <2>1. CASE Label(p) \in {"write", "touch", "erase"}
    BY <1>0, <1>1, <2>1, WriteMoves
  <2>2. CASE Label(p) \notin {"write", "touch", "erase"}
    BY <1>0, <1>1, <2>2, Onwards DEF Shape
  <2> QED
    BY <2>1, <2>2
<1>3. draft'[p] = Gone => job'[p].op = "delete"
  BY <1>0, <1>1, WriteMoves DEF Shape
<1>4. ASSUME NEW r \in del'[p]
      PROVE  /\ r.kind = "token" => DropsTokens(p)'
             /\ r.kind = "session" => DropsSessions(p)'
             /\ r.kind \in {"reset", "used"} => DropsLinks(p)'
             /\ r.kind \in {"code", "verified"} => DropsCodes(p)'
             /\ r.kind = "roles" => draft'[p] # None
  <2>1. CASE r \in del[p]
    BY <1>0, <1>1, <2>1, Onwards DEF Shape
  <2>2. CASE r \notin del[p]
    <3>1. r.kind \in Target(Label(p))
      BY <1>4, <2>2 DEF WriteStep
    <3> QED
      BY <1>0, <1>1, <3>1, WriteMoves
  <2> QED
    BY <2>1, <2>2
<1>5. ASSUME NEW r \in ins'[p]
      PROVE  /\ r.kind = "token" => AddsToken(p)' /\ r.of = new'[p]
             /\ r.kind = "session" => AddsSession(p)' /\ r.of = new'[p]
             /\ r.kind = "reset" => AddsLink(p)'
  <2>1. /\ Row(p).kind = "token" <=> Label(p) = "addToken"
        /\ Row(p).kind = "session" <=> Label(p) = "addSession"
        /\ Row(p).kind = "reset" <=> Label(p) = "addReset"
    BY DEF Row, Token, Session, Reset, Code
  <2>2. CASE r \in I
    <3>1. CASE Label(p) \in AddLabels
      BY <1>0, <1>1, <2>1, <2>2, <3>1, AddMoves
    <3>2. CASE Label(p) \notin AddLabels
      BY <2>2, <3>2
    <3> QED
      BY <3>1, <3>2
  <2>3. CASE r \in ins[p]
    <3>1. /\ r.kind = "token" => AddsToken(p) /\ r.of = new[p]
          /\ r.kind = "session" => AddsSession(p) /\ r.of = new[p]
          /\ r.kind = "reset" => AddsLink(p)
      BY <1>0, <2>3 DEF Shape
    <3>2. r.kind \in {"token", "session"} => new'[p] = new[p]
      <4>1. CASE Label(p) \in AddLabels \ {"addSession"}
        BY <1>0, <1>1, <3>1, <4>1, AddMoves DEF AddLabels
      <4>2. CASE Label(p) = "addSession"
        <5>1. Row(p).of = new[p]
          BY <4>2 DEF Row, Session
        <5> QED
          BY <4>2, <5>1 DEF AddLabels
      <4> QED
        BY <4>1, <4>2
    <3> QED
      BY <1>0, <1>1, <3>1, <3>2, Onwards
  <2> QED
    BY <1>5, <2>2, <2>3 DEF WriteStep
<1>6. From(p, {"login", "verify"}, 4)' \/ From(p, {"reset"}, 3)' => draft'[p] \in User
  <2>1. CASE Label(p) \in {"write", "touch"}
    BY <2>1
  <2>2. CASE Label(p) \notin {"write", "touch"}
    <3>1. SUFFICES ASSUME From(p, {"login", "verify"}, 4)' \/ From(p, {"reset"}, 3)'
                   PROVE  draft'[p] \in User
      OBVIOUS
    <3>2. From(p, {"login", "verify"}, 4) \/ From(p, {"reset"}, 3)
      BY <1>0, <1>1, <2>2, <3>1, AddMoves
    <3>3. draft[p] \in User /\ Label(p) # "erase"
      BY <1>0, <1>1, <3>2, WriteMoves DEF Shape, From
    <3> QED
      BY <2>2, <3>3
  <2> QED
    BY <2>1, <2>2
<1>7. AddsToken(p)' => Token(new'[p]) \in ins'[p]
  <2> SUFFICES ASSUME AddsToken(p)' PROVE Token(new'[p]) \in ins'[p]
    OBVIOUS
  <2>1. CASE Label(p) = "addToken"
    <3>1. Row(p) = Token(issued + 1) /\ Row(p).of = issued + 1
      BY <2>1 DEF Row, Token
    <3> QED
      BY <2>1, <3>1 DEF WriteStep, AddLabels
  <2>2. CASE Label(p) # "addToken"
    <3>1. AddsToken(p)
      BY <1>0, <1>1, <2>2, AddMoves
    <3>2. Token(new[p]) \in ins[p] /\ Token(new[p]).kind = "token"
      BY <1>0, <3>1 DEF Shape, Token
    <3>3. Token(new[p]) \notin D
      BY <1>0, <1>1, <3>2, WriteMoves
    <3>4. new'[p] = new[p]
      <4>1. CASE Label(p) = "addSession"
        BY <4>1 DEF Row, Session, AddLabels
      <4>2. CASE Label(p) # "addSession"
        BY <1>0, <1>1, <2>2, <3>1, <4>2, AddMoves DEF AddLabels
      <4> QED
        BY <4>1, <4>2
    <3> QED
      BY <3>2, <3>3, <3>4 DEF WriteStep
  <2> QED
    BY <2>1, <2>2
<1> QED
  BY <1>2, <1>3, <1>4, <1>5, <1>6, <1>7 DEF Shape

\* A request holds what the statements behind it have deleted and inserted.
LEMMA ShapeSelf ==
  ASSUME Base, Typed, TypeOK', NEW p \in Request, Effect(p)
  PROVE  Shape(p)'
<1>0. TypeOK /\ Slot(p) /\ Shape(p) /\ Sighted(p)
  BY DEF Base, Typed
<1>1. CASE RollbackStep(p) \/ CommitStep(p)
  BY <1>1, AccountsAssumption DEF RollbackStep, CommitStep, Ended, NoJob, Shape, AddsToken, From
<1>2. CASE ReadStep(p) /\ job'[p] = job[p]
  <2>1. pc[p] \in Int /\ pc'[p] \in Int /\ pc'[p] >= pc[p]
    <3>1. pc[p] \in 0..12 /\ pc'[p] \in 0..12
      BY DEF Base, TypeOK
    <3> QED
      BY <1>0, <1>2, <3>1, ReadMoves
  <2>2. new'[p] = new[p] /\ draft'[p] = draft[p] /\ ins'[p] = ins[p] /\ del'[p] = del[p]
    BY <1>2 DEF ReadStep
  <2>3. /\ AddsToken(p)' => AddsToken(p)
        /\ From(p, {"login", "verify"}, 4)' \/ From(p, {"reset"}, 3)' =>
             From(p, {"login", "verify"}, 4) \/ From(p, {"reset"}, 3)
    BY <1>0, <1>2, ReadMoves
  <2>4. /\ WritesUser(p) => WritesUser(p)'
        /\ DropsTokens(p) => DropsTokens(p)'
        /\ DropsSessions(p) => DropsSessions(p)'
        /\ DropsLinks(p) => DropsLinks(p)'
        /\ DropsCodes(p) => DropsCodes(p)'
        /\ AddsToken(p) => AddsToken(p)'
        /\ AddsSession(p) => AddsSession(p)'
        /\ AddsLink(p) => AddsLink(p)'
    BY <1>2, <2>1, Onwards
  <2> QED
    BY <1>0, <1>2, <2>2, <2>3, <2>4 DEF Shape
<1>3. CASE ReadStep(p) /\ job'[p] # job[p]
  <2>1. Label(p) = "isVerified" /\ job'[p].op = "loginCode" /\ pc'[p] = 1 /\ job[p] \in Job
    BY <1>0, <1>3 DEF ReadStep, TypeOK, Job
  <2>2. job[p].op = "login" /\ pc[p] = 4
    BY <1>0, <2>1, AtLabel DEF Standing
  <2>3. ~AddsToken(p) /\ ~AddsSession(p) /\ ~AddsLink(p) /\ ~DropsLinks(p)
    BY <2>2 DEF AddsToken, AddsSession, AddsLink, DropsLinks, From
  <2>4. new'[p] = new[p] /\ draft'[p] = draft[p] /\ ins'[p] = ins[p] /\ del'[p] = del[p]
    BY <1>3 DEF ReadStep
  <2>5. WritesUser(p)' /\ DropsTokens(p)' /\ DropsSessions(p)' /\ DropsCodes(p)' /\ ~AddsToken(p)'
    BY <2>1 DEF WritesUser, DropsTokens, DropsSessions, DropsCodes, AddsToken, AgainstOrder, From
  <2>6. ~From(p, {"login", "verify"}, 4)' /\ ~From(p, {"reset"}, 3)'
    BY <2>1 DEF From
  <2>7. draft[p] # Gone
    BY <1>0, <2>2 DEF Shape
  <2> QED
    BY <1>0, <2>3, <2>4, <2>5, <2>6, <2>7 DEF Shape
<1>4. CASE WaitStep(p)
  BY <1>0, <1>4 DEF WaitStep, Shape, WritesUser, DropsTokens, DropsSessions, DropsLinks, DropsCodes,
     AddsToken, AddsSession, AddsLink, From
<1>5. \A n, m : Used(n).kind = "used" /\ Verified(n, m).kind = "verified" /\ Roles(n).kind = "roles"
  BY DEF Used, Verified, Roles
<1>6. CASE DropStep(p)
  <2>1. Label(p) \in WriteLabels /\ Label(p) \notin AddLabels /\ Label(p) \notin {"write", "touch", "erase"}
    BY <1>6 DEF DropStep, WriteLabels, DropLabels, AddLabels
  <2> QED
    BY <1>0, <1>6, <2>1, AimedKinds, ShapeWrites DEF DropStep
<1>7. CASE MarkStep(p)
  <2>1. Label(p) \in WriteLabels /\ Label(p) \notin AddLabels /\ Label(p) \notin {"write", "touch", "erase"}
    BY <1>7 DEF MarkStep, WriteLabels, AddLabels
  <2> QED
    BY <1>0, <1>5, <1>7, <2>1, AimKinds, ShapeWrites DEF MarkStep
<1>8. CASE UserStep(p)
  <2>1. Label(p) \in WriteLabels /\ Label(p) \notin AddLabels /\ Label(p) # "erase"
    BY <1>8 DEF UserStep, WriteLabels, AddLabels
  <2>2. draft'[p] \in User /\ draft'[p] # None /\ draft'[p] # Gone
    BY <1>0, <1>8, WrittenType, AccountsAssumption DEF UserStep
  <2> QED
    BY <1>0, <1>5, <1>8, <2>1, <2>2, AimedKinds, ShapeWrites DEF UserStep
<1>9. CASE InsertStep(p)
  <2>1. Label(p) \in WriteLabels /\ Label(p) \notin {"write", "touch", "erase"}
    BY <1>9 DEF InsertStep, WriteLabels, AddLabels
  <2> QED
    BY <1>0, <1>9, <2>1, ShapeWrites DEF InsertStep
<1>10. CASE EraseStep(p)
  <2>1. Label(p) \in WriteLabels /\ Label(p) \notin AddLabels /\ Label(p) \notin {"write", "touch"}
    BY <1>10 DEF EraseStep, WriteLabels, AddLabels
  <2> QED
    BY <1>0, <1>10, <2>1, AimKinds, ShapeWrites, AccountsAssumption DEF EraseStep
<1> QED
  BY <1>1, <1>2, <1>3, <1>4, <1>6, <1>7, <1>8, <1>9, <1>10 DEF Effect

\* Locks and keys are in order at the start.
LEMMA BaseInit == Init => Base
<1> SUFFICES ASSUME Init PROVE Base
  OBVIOUS
<1>0. TypeOK
  BY TypedInit DEF Typed
<1>1. \A r \in rows : Counted(r)
  <2>1. PICK m \in Mail, verified \in BOOLEAN :
          /\ rows = IF verified
                    THEN {Session(n) : n \in 1..MaxSessions}
                           \cup {Token(MaxSessions), Reset(0), Verified(0, m), Roles(0)}
                    ELSE {Code(0, m), Roles(0)}
          /\ issued = IF verified THEN MaxSessions ELSE 0
    BY DEF Init
  <2>2. CASE verified
    BY <2>1, <2>2, AccountsAssumption DEF Counted, Session, Token, Reset, Verified, Roles
  <2>3. CASE ~verified
    BY <2>1, <2>3 DEF Counted, Code, Roles
  <2> QED
    BY <2>2, <2>3
<1>2. ASSUME NEW p \in Request
      PROVE  /\ job[p] = NoJob /\ pc[p] = 0 /\ seen[p] = None /\ new[p] = 0
             /\ aim[p] = None /\ draft[p] = None /\ ins[p] = {} /\ del[p] = {}
  BY DEF Init
<1>3. ASSUME NEW p \in Request
      PROVE  Slot(p)
  BY <1>0, <1>2 DEF Slot, Fresh, NoJob, TypeOK
<1>4. ASSUME NEW p \in Request
      PROVE  Shape(p)
  <2>1. job[p].op = "loginCode"
    <3>1. NoJob.op = "loginCode"
      BY Zenon DEF NoJob
    <3> QED
      BY <1>2, <3>1
  <2>2. ~AddsToken(p) /\ ~From(p, {"login", "verify"}, 4) /\ ~From(p, {"reset"}, 3)
    BY <2>1 DEF AddsToken, From
  <2> QED
    BY <1>2, <2>2, AccountsAssumption DEF Shape
<1>5. ASSUME NEW p \in Request, NEW q \in Request
      PROVE  Apart(p, q)
  BY <1>2 DEF Apart
<1> QED
  BY <1>0, <1>1, <1>3, <1>4, <1>5 DEF Base

\* Every step keeps locks and keys in order.
LEMMA BaseNext == Base /\ Typed /\ [Next]_vars => Base'
<1> SUFFICES ASSUME Base, Typed, [Next]_vars PROVE Base'
  OBVIOUS
<1>0. TypeOK /\ TypeOK'
  BY TypedNext DEF Typed
<1>1. ASSUME NEW p \in Request, Effect(p)
      PROVE  Base'
  <2>1. \A r \in rows' : Counted(r)'
    BY <1>0, <1>1, RowsCounted
  <2>2. ASSUME NEW q \in Request
        PROVE  Slot(q)' /\ Shape(q)'
    <3>1. CASE q = p
      BY <1>0, <1>1, <3>1, SlotSelf, ShapeSelf
    <3>2. CASE q # p
      <4>1. /\ job'[q] = job[q] /\ pc'[q] = pc[q] /\ new'[q] = new[q]
            /\ draft'[q] = draft[q] /\ ins'[q] = ins[q] /\ del'[q] = del[q]
        BY <1>0, <1>1, <3>2, OthersPointwise DEF Effect
      <4>2. Shape(q)
        BY DEF Base
      <4>3. Shape(q)'
        BY <4>1, <4>2 DEF Shape, WritesUser, DropsTokens, DropsSessions, DropsLinks, DropsCodes,
                          AddsToken, AddsSession, AddsLink, From
      <4> QED
        BY <1>0, <1>1, <3>2, <4>3, SlotOthers
    <3> QED
      BY <3>1, <3>2
  <2>3. ASSUME NEW q \in Request, NEW s \in Request, q # s
        PROVE  Apart(q, s)'
    BY <1>1, <2>3, ApartSelf, ApartOthers
  <2> QED
    BY <1>0, <2>1, <2>2, <2>3 DEF Base
<1>2. ASSUME NEW p \in Request, BeginStep(p)
      PROVE  Base'
  <2>1. \A q \in Request : /\ new'[q] = new[q] /\ aim'[q] = aim[q] /\ seen'[q] = seen[q]
                           /\ draft'[q] = draft[q] /\ ins'[q] = ins[q] /\ del'[q] = del[q]
                           /\ q # p => job'[q] = job[q] /\ pc'[q] = pc[q]
    BY <1>0, <1>2, OthersPointwise DEF BeginStep
  <2>2. user' = user /\ rows' = rows /\ issued' = issued /\ pc'[p] = 1
    BY <1>2 DEF BeginStep
  <2>3. ins[p] = {} /\ del[p] = {} /\ draft[p] = None /\ aim[p] = None /\ new[p] <= issued
    BY <1>2 DEF BeginStep, Base, Slot
  <2>4. job'[p].n <= issued
    <3>1. job'[p].n \in Numbers(job'[p].op) /\ issued \in Nat
      BY <1>0, <1>2 DEF BeginStep, TypeOK
    <3>2. \A r \in rows : r.kind = "session" => r.of <= issued
      BY DEF Base, Counted
    <3> QED
      BY <3>1, <3>2 DEF Numbers, Kind
  <2>5. Len(Program[job'[p].op]) \in 1..11
    BY <1>0, AtLabelNext DEF Standing
  <2>6. Slot(p)'
    <3>1. pc'[p] <= Len(Program[job'[p].op]) + 1
      <4> DEFINE k == Len(Program[job'[p].op])
      <4>1. k \in 1..11
        BY <2>5
      <4> HIDE DEF k
      <4>2. pc'[p] <= k + 1
        BY <2>2, <4>1
      <4> QED
        BY <4>2 DEF k
    <3> QED
      BY <2>1, <2>2, <2>3, <2>4, <3>1 DEF Slot, Fresh
  <2>7. Shape(p)'
    BY <2>1, <2>2, <2>3, AccountsAssumption DEF Shape, AddsToken, From
  <2>8. ASSUME NEW q \in Request \ {p}
        PROVE  Slot(q)' /\ Shape(q)'
    <3>1. Slot(q) /\ Shape(q)
      BY DEF Base
    <3>2. Label(q)' = Label(q) /\ (Label(q) \in {"claim", "useReset", "markCode"} => Aim(q)' = Aim(q))
      BY <2>1 DEF Label, Aim
    <3>3. Slot(q)'
      BY <2>1, <2>2, <3>1, <3>2 DEF Slot, Fresh, Counted
    <3>4. Shape(q)'
      BY <2>1, <3>1 DEF Shape, WritesUser, DropsTokens, DropsSessions, DropsLinks, DropsCodes,
                        AddsToken, AddsSession, AddsLink, From
    <3> QED
      BY <3>3, <3>4
  <2>9. \A q, s \in Request : q # s => Apart(q, s)'
    BY <2>1 DEF Base, Apart
  <2>10. \A r \in rows' : Counted(r)'
    BY <2>2 DEF Base, Counted
  <2> QED
    BY <1>0, <2>6, <2>7, <2>8, <2>9, <2>10 DEF Base
<1>3. CASE BanRunsOut \/ UNCHANGED vars
  <2>1. /\ UNCHANGED <<user, rows, issued>>
        /\ UNCHANGED <<job, pc, seen, pick, new, aim, draft, ins, del>>
    BY <1>3 DEF BanRunsOut, vars, tx
  <2>2. \A q \in Request : Label(q)' = Label(q) /\ Aim(q)' = Aim(q)
    BY <2>1 DEF Label, Aim, Visible
  <2>3. \A q \in Request : Slot(q)'
    BY <2>1, <2>2 DEF Base, Slot, Fresh, Counted
  <2>4. \A q \in Request : Shape(q)'
    BY <2>1 DEF Base, Shape, WritesUser, DropsTokens, DropsSessions, DropsLinks, DropsCodes,
                AddsToken, AddsSession, AddsLink, From
  <2> QED
    BY <1>0, <2>1, <2>3, <2>4 DEF Base, Counted, Apart
<1> QED
  BY <1>0, <1>1, <1>2, <1>3, NextEffect

-----------------------------------------------------------------------------
(* Refresh tokens. *)

\* A row with a number that was given before is not inserted again.
LEMMA NotAgain ==
  ASSUME Base, NEW p \in Request, Effect(p), NEW r, r.kind \in {"token", "reset"}, Counted(r), r \notin ins[p]
  PROVE  r \notin ins'[p]
<1>0. \A n, m : Used(n).kind = "used" /\ Verified(n, m).kind = "verified" /\ Roles(n).kind = "roles"
  BY DEF Used, Verified, Roles
<1>1. CASE RollbackStep(p) \/ CommitStep(p) \/ ReadStep(p) \/ WaitStep(p)
  BY <1>1 DEF RollbackStep, CommitStep, ReadStep, WaitStep, Ended
<1>2. CASE DropStep(p) \/ EraseStep(p) \/ MarkStep(p) \/ UserStep(p)
  BY <1>0, <1>2 DEF DropStep, EraseStep, MarkStep, UserStep, WriteStep
<1>3. CASE InsertStep(p)
  <2>1. Row(p) # r
    <3>1. issued \in Nat /\ r.of <= issued
      BY DEF Base, TypeOK, Counted
    <3>2. Row(p) = r => Row(p).of = issued + 1
      BY <1>3, NewRow
    <3> QED
      BY <3>1, <3>2
  <2> QED
    BY <1>3, <2>1 DEF InsertStep, WriteStep
<1> QED
  BY <1>1, <1>2, <1>3 DEF Effect

\* Committed rows change only with a commit.
LEMMA RowsStep ==
  ASSUME NEW p \in Request, Effect(p)
  PROVE  \/ CommitStep(p)
         \/ UNCHANGED <<user, rows, heirs>>
BY DEF Effect, RollbackStep, CommitStep, ReadStep, WaitStep, DropStep, MarkStep, UserStep, InsertStep,
       EraseStep, WriteStep

\* A row that is nowhere stays away.
LEMMA StaysAway ==
  ASSUME Base, NEW p \in Request, Effect(p), NEW r, r.kind \in {"token", "reset"}, Counted(r),
         r \notin rows, \A q \in Request : r \notin ins[q]
  PROVE  r \notin rows' /\ \A q \in Request : r \notin ins'[q]
<1>0. TypeOK
  BY DEF Base
<1>1. r \notin rows'
  BY RowsStep DEF CommitStep, Visible
<1>2. ASSUME NEW q \in Request
      PROVE  r \notin ins'[q]
  <2>1. CASE q = p
    BY <2>1, NotAgain
  <2>2. CASE q # p
    BY <1>0, <2>2, OthersPointwise DEF Effect
  <2> QED
    BY <2>1, <2>2
<1> QED
  BY <1>1, <1>2

\* Until it ends, a transaction keeps the rows it has deleted.
LEMMA DelGrows ==
  ASSUME NEW p \in Request, Effect(p), pc'[p] # 0
  PROVE  del[p] \subseteq del'[p]
BY DEF Effect, RollbackStep, CommitStep, Ended, ReadStep, WaitStep, DropStep, MarkStep, UserStep, InsertStep,
       EraseStep, WriteStep

\* The fields of the rows.
LEMMA TokenItem ==
  ASSUME NEW n
  PROVE  /\ Token(n).kind = "token" /\ Token(n).of = n
         /\ Reset(n).kind = "reset" /\ Reset(n).of = n
         /\ Session(n).kind = "session" /\ Session(n).of = n
BY DEF Token, Reset, Session

\* What the step of a request makes of its own work.
LEMMA NextLine ==
  ASSUME TypeOK, NEW p \in Request, Effect(p)
  PROVE  \/ RollbackStep(p) \/ CommitStep(p)
         \/ job'[p] = job[p] /\ pc'[p] = pc[p]
         \/ job'[p] = job[p] /\ pc'[p] = pc[p] + 1
         \/ /\ ReadStep(p) /\ job'[p] = job[p]
            /\ job[p].op \in {"ban", "banUntil", "unban", "loginCode"}
         \/ /\ ReadStep(p) /\ job'[p].op = "loginCode" /\ job'[p].secret = job[p].secret
            /\ job[p].op \in {"login", "loginCode"} /\ pc'[p] = 1
<1>1. CASE ReadStep(p)
  <2>1. Standing(job[p].op, pc[p]) /\ Label(p) = Line(job[p].op, pc[p]) /\ job[p] \in Job
    BY AtLabel DEF TypeOK
  <2>2. Label(p) \in {"unlessBanned", "onlyBanned"} => job[p].op \in {"ban", "banUntil", "unban"}
    BY <2>1 DEF Standing
  <2>3. Label(p) = "isVerified" => job[p].op = "login"
    BY <2>1 DEF Standing
  <2>4. job'[p] = [job[p] EXCEPT !.op = "loginCode"] => job'[p].op = "loginCode" /\ job'[p].secret = job[p].secret
    BY <2>1 DEF Job
  <2> QED
    BY <1>1, <2>2, <2>3, <2>4 DEF ReadStep
<1>2. CASE WaitStep(p)
  BY <1>2 DEF WaitStep
<1>3. CASE DropStep(p) \/ MarkStep(p) \/ UserStep(p) \/ InsertStep(p) \/ EraseStep(p)
  BY <1>3 DEF DropStep, MarkStep, UserStep, InsertStep, EraseStep, WriteStep
<1> QED
  BY <1>1, <1>2, <1>3 DEF Effect

\* No refresh token is used up at the start.
LEMMA TokensInit == Init => TokensInv
<1> SUFFICES ASSUME Init PROVE TokensInv
  OBVIOUS
<1>1. \A p \in Request : pc[p] = 0
  BY DEF Init
<1> QED
  BY <1>1 DEF Init, TokensInv, Refreshing, From

\* A refresh sees a committed token and, from its claim on, holds it.
LEMMA RefreshingSelf ==
  ASSUME Base, TypeOK', TokensInv, NEW p \in Request, Effect(p)
  PROVE  Refreshing(p)'
<1> DEFINE t == Token(job[p].n)
<1>0. /\ TypeOK /\ Slot(p) /\ Shape(p) /\ t.kind = "token" /\ t.of = job[p].n
      /\ \A q \in Request : Slot(q)
  BY TokenItem DEF Base
<1>a. Counted(t) /\ Label(p) = Line(job[p].op, pc[p]) /\ Standing(job[p].op, pc[p]) /\ pc[p] \in 0..12
  BY <1>0, AtLabel DEF Slot, Counted
<1> HIDE DEF t
<1>1. SUFFICES ASSUME job'[p].op = "refresh", pc'[p] >= 2, pc'[p] \in Int
               PROVE  /\ \A q \in Request : t \notin ins'[q]
                      /\ job'[p] = job[p]
                      /\ pc'[p] >= 5 => t \in del'[p]
  <2>1. CASE job'[p].op = "refresh" /\ pc'[p] >= 2
    <3>1. pc'[p] \in Int
      BY AtLabelNext
    <3> QED
      BY <1>1, <2>1, <3>1 DEF t, Refreshing, From
  <2>2. CASE ~(job'[p].op = "refresh" /\ pc'[p] >= 2)
    <3>1. pc'[p] \in Int
      BY AtLabelNext
    <3> QED
      BY <2>2, <3>1 DEF Refreshing, From
  <2> QED
    BY <2>1, <2>2
<1>2. job'[p] = job[p] /\ (pc'[p] = pc[p] \/ pc'[p] = pc[p] + 1) /\ job[p].op = "refresh" /\ pc'[p] # 0
  BY <1>0, <1>1, NextLine DEF RollbackStep, CommitStep, Ended
<1>3. \A q \in Request : t \notin ins[q]
  <2>1. CASE pc[p] >= 2
    BY <1>2, <2>1 DEF TokensInv, Refreshing, From, t
  <2>2. CASE pc[p] < 2
    <3>1. pc[p] = 1 /\ pc'[p] = pc[p] + 1
      BY <1>a, <1>1, <1>2, <2>2
    <3>2. ReadStep(p)
      BY <1>a, <1>2, <3>1 DEF Effect, RollbackStep, CommitStep, Ended, WaitStep, DropStep, MarkStep, UserStep,
         InsertStep, EraseStep, WriteLabels, DropLabels, AddLabels, Standing, Edits
    <3>3. Label(p) = "findToken"
      BY <1>a, <1>2, <3>1, <3>2 DEF ReadStep, ReadLabels, Standing, Edits
    <3>4. t \in Visible(p)
      BY <1>1, <1>2, <3>2, <3>3, <3>1 DEF ReadStep, t
    <3>5. t \notin ins[p]
      BY <1>0, <1>2, <3>1 DEF Shape, AddsToken, From
    <3>6. t \in rows
      BY <3>4, <3>5 DEF Visible
    <3> QED
      BY <1>0, <3>6 DEF Slot, Fresh
  <2> QED
    BY <1>a, <2>1, <2>2
<1>4. \A q \in Request : t \notin ins'[q]
  <2> SUFFICES ASSUME NEW q \in Request PROVE t \notin ins'[q]
    OBVIOUS
  <2>1. CASE q = p
    BY <1>0, <1>a, <1>3, <2>1, NotAgain
  <2>2. CASE q # p
    BY <1>0, <1>3, <2>2, OthersPointwise DEF Effect
  <2> QED
    BY <2>1, <2>2
<1>5. ASSUME pc'[p] >= 5
      PROVE  t \in del'[p]
  <2>1. CASE pc[p] >= 5
    <3>1. t \in del[p]
      BY <1>2, <2>1 DEF TokensInv, Refreshing, From, t
    <3> QED
      BY <1>2, <3>1, DelGrows
  <2>2. CASE pc[p] < 5
    <3>1. pc[p] = 4 /\ pc'[p] = pc[p] + 1
      BY <1>a, <1>1, <1>2, <1>5, <2>2
    <3>2. MarkStep(p) /\ Label(p) = "claim"
      BY <1>a, <1>2, <3>1 DEF Effect, RollbackStep, CommitStep, Ended, WaitStep, DropStep, MarkStep, UserStep,
         InsertStep, EraseStep, ReadStep, ReadLabels, WriteLabels, DropLabels, AddLabels, Standing, Edits
    <3>3. WriteStep(p, Aim(p), {}) /\ t \in Visible(p) /\ Aim(p) = {t}
      BY <3>2 DEF MarkStep, Aim, t
    <3>4. t \in rows
      BY <1>3, <3>3 DEF Visible
    <3> QED
      BY <3>3, <3>4 DEF WriteStep
  <2> QED
    BY <1>a, <2>1, <2>2
<1> QED
  BY <1>2, <1>4, <1>5

\* A refresh token that has given a session is gone for good (RefreshTokenCommandHandler).
LEMMA TokensNext ==
  ASSUME Base, TypeOK', TokensInv, RefreshOnce, [Next]_vars
  PROVE  TokensInv' /\ RefreshOnce'
<1>0. TypeOK
  BY DEF Base
<1> DEFINE Past(h) == /\ h[2] \in 0..issued /\ Token(h[2]) \notin rows
                      /\ \A q \in Request : Token(h[2]) \notin ins[q]
<1>1. ASSUME NEW p \in Request, Effect(p)
      PROVE  TokensInv' /\ RefreshOnce'
  <2>0. issued \in Nat /\ issued' >= issued /\ issued' \in Nat /\ job[p].n \in Nat /\ job[p].n <= issued /\ Slot(p)
    BY <1>0, <1>1, IssuedGrows, AtLabel, AtLabelNext DEF Base, Slot
  <2>1. ASSUME NEW q \in Request
        PROVE  Refreshing(q)'
    <3>1. CASE q = p
      BY <1>1, <3>1, RefreshingSelf
    <3>2. CASE q # p
      <4>1. job'[q] = job[q] /\ pc'[q] = pc[q] /\ del'[q] = del[q]
        BY <1>0, <1>1, <3>2, OthersPointwise DEF Effect
      <4>2. ASSUME From(q, {"refresh"}, 2)
            PROVE  \A s \in Request : Token(job[q].n) \notin ins'[s]
        <5> SUFFICES ASSUME NEW s \in Request PROVE Token(job[q].n) \notin ins'[s]
          OBVIOUS
        <5>1. Token(job[q].n) \notin ins[s]
          BY <4>2 DEF TokensInv, Refreshing
        <5>2. Counted(Token(job[q].n)) /\ Token(job[q].n).kind = "token"
          BY TokenItem DEF Base, Slot, Counted
        <5>3. CASE s = p
          BY <1>1, <5>1, <5>2, <5>3, NotAgain
        <5>4. CASE s # p
          BY <1>0, <1>1, <5>1, <5>4, OthersPointwise DEF Effect
        <5> QED
          BY <5>3, <5>4
      <4> QED
        BY <4>1, <4>2 DEF TokensInv, Refreshing, From
    <3> QED
      BY <3>1, <3>2
  <2>2. ASSUME NEW h \in heirs, h[1] = "token"
        PROVE  /\ h[2] \in 0..issued' /\ Token(h[2]) \notin rows'
               /\ \A q \in Request : Token(h[2]) \notin ins'[q]
    <3>1. /\ h[2] \in 0..issued /\ Token(h[2]) \notin rows
          /\ \A q \in Request : Token(h[2]) \notin ins[q]
      BY <2>2 DEF TokensInv
    <3>2. Token(h[2]).kind = "token" /\ Counted(Token(h[2]))
      BY <2>0, <3>1, TokenItem DEF Counted
    <3> QED
      BY <1>1, <2>0, <3>1, <3>2, StaysAway
  <2>3. CASE ~(CommitStep(p) /\ job[p].op = "refresh")
    <3>1. \A h \in heirs' : h[1] = "token" => h \in heirs
      BY <1>1, <2>3, RowsStep DEF CommitStep
    <3> QED
      BY <2>1, <2>2, <3>1 DEF TokensInv, RefreshOnce
  <2>4. CASE CommitStep(p) /\ job[p].op = "refresh"
    <3> DEFINE t == Token(job[p].n)
               b == <<"token", job[p].n, new[p]>>
    <3>1. heirs' = heirs \cup {b} /\ rows' = (rows \ del[p]) \cup ins[p] /\ b[1] = "token" /\ b[2] = job[p].n
      BY <2>4 DEF CommitStep, Visible
    <3>2. pc[p] >= 12 /\ pc[p] \in Int
      BY <1>0, <2>4, AtLabel DEF CommitStep, Standing
    <3>3. t \in del[p] /\ t \in rows /\ \A q \in Request : t \notin ins[q]
      BY <2>0, <2>4, <3>2 DEF TokensInv, Refreshing, From, Slot
    <3>4. t \notin rows'
      BY <3>1, <3>3
    <3>5. \A q \in Request : t \notin ins'[q]
      <4> SUFFICES ASSUME NEW q \in Request PROVE t \notin ins'[q]
        OBVIOUS
      <4>1. CASE q = p
        BY <2>4, <4>1 DEF CommitStep, Ended
      <4>2. CASE q # p
        BY <1>0, <1>1, <3>3, <4>2, OthersPointwise DEF Effect
      <4> QED
        BY <4>1, <4>2
    <3>6. \A h \in heirs : h[1] = "token" => h[2] # job[p].n
      BY <3>3 DEF TokensInv
    <3>7. RefreshOnce'
      BY <3>1, <3>6 DEF RefreshOnce
    <3>8. \A h \in heirs' : h[1] = "token" =>
             h[2] \in 0..issued' /\ Token(h[2]) \notin rows' /\ \A q \in Request : Token(h[2]) \notin ins'[q]
      BY <2>0, <2>2, <3>1, <3>4, <3>5
    <3> QED
      BY <2>1, <3>7, <3>8 DEF TokensInv
  <2> QED
    BY <2>3, <2>4
<1>2. ASSUME NEW p \in Request, BeginStep(p)
      PROVE  TokensInv' /\ RefreshOnce'
  <2>1. \A q \in Request : /\ ins'[q] = ins[q] /\ del'[q] = del[q]
                           /\ q # p => job'[q] = job[q] /\ pc'[q] = pc[q]
    BY <1>0, <1>2, OthersPointwise DEF BeginStep
  <2>2. rows' = rows /\ heirs' = heirs /\ issued' = issued /\ pc'[p] = 1
    BY <1>2 DEF BeginStep
  <2> QED
    BY <2>1, <2>2 DEF TokensInv, Refreshing, From, RefreshOnce
<1>3. CASE BanRunsOut \/ UNCHANGED vars
  BY <1>3 DEF BanRunsOut, vars, tx, TokensInv, Refreshing, From, RefreshOnce
<1> QED
  BY <1>0, <1>1, <1>2, <1>3, NextEffect

-----------------------------------------------------------------------------
(* Secrets and reset links. *)

Passwords == {"password", "adminPassword", "reset"}

\* Only a change of the password changes the hash.
LEMMA ChangeSecret ==
  ASSUME NEW u \in User, NEW j \in Job, Change(j, u) # None,
         j.op \in {"verify", "mail", "adminMail", "ban", "banUntil", "unban", "password", "reset",
                   "activate", "deactivate", "addRole", "removeRole", "adminPassword"} \cup Edits
  PROVE  Change(j, u).secret = IF j.op \in Passwords THEN j.secret ELSE u.secret
<1>1. CASE j.op \in Passwords
  BY <1>1 DEF Change, ChangePassword, Passwords, User
<1>2. CASE j.op \in {"mail", "adminMail"}
  BY <1>2 DEF Change, ChangeEmail, Passwords, User
<1>3. CASE j.op \in {"verify", "activate", "deactivate"}
  BY <1>3 DEF Change, MarkEmailAsVerified, Activate, Deactivate, Passwords, User
<1>4. CASE j.op \in {"ban", "banUntil", "unban"}
  BY <1>4 DEF Change, PermanentlyBanUser, BanUser, UnbanUser, Passwords, User
<1>5. CASE j.op \in {"addRole", "removeRole"}
  BY <1>5 DEF Change, AddRole, RemoveRole, Passwords, User
<1>6. CASE j.op \in Edits
  <2>1. Change(j, u) = UpdateUserProfile(j.op, u) /\ j.op \notin Passwords
    BY <1>6 DEF Change, Edits, Passwords
  <2>2. Change(j, u) \in {Activate(u), Deactivate(u), MarkEmailAsVerified(u), BanUser(u), UnbanUser(u)}
    BY <1>6, <2>1 DEF UpdateUserProfile, Edits
  <2>3. /\ Activate(u) # None => Activate(u).secret = u.secret
        /\ Deactivate(u).secret = u.secret
        /\ MarkEmailAsVerified(u).secret = u.secret
    BY DEF MarkEmailAsVerified, Activate, Deactivate, User
  <2>4. BanUser(u).secret = u.secret /\ UnbanUser(u).secret = u.secret
    BY DEF BanUser, UnbanUser, User
  <2> QED
    BY <2>1, <2>2, <2>3, <2>4
<1> QED
  BY <1>1, <1>2, <1>3, <1>4, <1>5, <1>6 DEF Passwords

\* The user that is written keeps the password, or gets that of the request.
LEMMA WrittenSecret ==
  ASSUME TypeOK, NEW p \in Request, Sighted(p), UserStep(p)
  PROVE  /\ draft'[p] \in User /\ draft'[p] # None /\ seen[p] \in User
         /\ draft'[p].secret = IF Label(p) = "write" /\ job[p].op \in Passwords
                               THEN job[p].secret ELSE seen[p].secret
<1>1. seen[p] \in User /\ job[p] \in Job
  BY SightedWrite DEF UserStep, TypeOK
<1>2. draft'[p] = Written(p) /\ Written(p) \in User /\ Written(p) # None
  BY WrittenType DEF UserStep
<1>3. CASE Label(p) = "write"
  <2>1. Written(p) = Change(job[p], seen[p])
    BY <1>3 DEF Written
  <2> QED
    BY <1>1, <1>2, <1>3, <2>1, WriteOps, ChangeSecret
<1>4. CASE Label(p) # "write"
  BY <1>1, <1>2, <1>4 DEF Written
<1> QED
  BY <1>1, <1>2, <1>3, <1>4

\* Where the user rows of the state after a step come from.
LEMMA Sources ==
  ASSUME Base, NEW p \in Request, Effect(p)
  PROVE  /\ seen'[p] \in {None, seen[p], VisibleUser(p)} \/ (UserStep(p) /\ seen'[p] = draft'[p])
         /\ draft'[p] \in {None, Gone, draft[p]} \/ UserStep(p)
         /\ user' = user \/ (CommitStep(p) /\ user' = VisibleUser(p))
         /\ pc'[p] # 0 => /\ pc[p] # 0 /\ job'[p].secret = job[p].secret
                          /\ user' = user
                          /\ \/ draft'[p] # None
                             \/ draft[p] = None /\ draft'[p] = None /\ seen'[p] \in {seen[p], VisibleUser(p)}
         /\ asked' = asked /\ cause \subseteq cause'
<1>1. TypeOK /\ Slot(p)
  BY DEF Base
<1>2. pc[p] # 0 \/ RollbackStep(p)
  <2>1. pc[p] = 0 => Label(p) = "free"
    BY DEF Label
  <2> QED
    BY <2>1, LabelKinds DEF Effect, CommitStep, ReadStep, WaitStep, DropStep, MarkStep, UserStep, InsertStep,
       EraseStep, WriteLabels
<1>3. CASE RollbackStep(p) \/ CommitStep(p)
  BY <1>3 DEF Effect, RollbackStep, CommitStep, Ended, VisibleUser
<1>4. CASE ReadStep(p)
  <2>1. job'[p].secret = job[p].secret
    <3>1. job[p] \in Job
      BY <1>1 DEF TypeOK
    <3>2. [job[p] EXCEPT !.op = "loginCode"].secret = job[p].secret
      BY <3>1 DEF Job
    <3> QED
      BY <1>4, <3>2 DEF ReadStep
  <2> QED
    BY <1>2, <1>4, <2>1 DEF Effect, ReadStep, VisibleUser, RollbackStep, Ended
<1>5. CASE WaitStep(p) \/ DropStep(p) \/ MarkStep(p) \/ InsertStep(p)
  BY <1>2, <1>5 DEF Effect, WaitStep, DropStep, MarkStep, InsertStep, WriteStep, VisibleUser, RollbackStep, Ended
<1>6. CASE UserStep(p)
  BY <1>2, <1>6 DEF Effect, UserStep, WriteStep, VisibleUser, RollbackStep, Ended
<1>7. CASE EraseStep(p)
  BY <1>2, <1>7, AccountsAssumption DEF Effect, EraseStep, WriteStep, VisibleUser, RollbackStep, Ended
<1> QED
  BY <1>3, <1>4, <1>5, <1>6, <1>7 DEF Effect

SecretsInv ==
  /\ user # Gone => user.secret <= asked
  /\ \A p \in Request : Secrets(p)
  /\ \A p, q \in Request : p # q => SecretsApart(p, q)

\* A hash is written by the request that made it, and by those that have read it.
LEMMA SecretsStep ==
  ASSUME Base, Typed, TypeOK', SecretsInv, NEW p \in Request, Effect(p)
  PROVE  SecretsInv'
<1>0. /\ TypeOK /\ Sighted(p) /\ Secrets(p) /\ Slot(p)
      /\ seen[p] \in User \cup {None} /\ draft[p] \in User \cup {Gone, None} /\ user \in User \cup {Gone}
      /\ \A u \in User : u.secret \in Nat /\ u # None /\ u # Gone
      /\ asked \in Nat /\ None # Gone
  BY AccountsAssumption DEF Base, Typed, SecretsInv, TypeOK, User
<1>1. /\ seen'[p] \in {None, seen[p], VisibleUser(p)} \/ (UserStep(p) /\ seen'[p] = draft'[p])
      /\ draft'[p] \in {None, Gone, draft[p]} \/ UserStep(p)
      /\ user' = user \/ (CommitStep(p) /\ user' = VisibleUser(p))
      /\ pc'[p] # 0 => /\ pc[p] # 0 /\ job'[p].secret = job[p].secret
                       /\ user' = user
                       /\ \/ draft'[p] # None
                          \/ draft[p] = None /\ draft'[p] = None /\ seen'[p] \in {seen[p], VisibleUser(p)}
      /\ asked' = asked
  BY <1>0, Sources
<1>2. UserStep(p) => /\ draft'[p] \in User /\ seen[p] \in User /\ pc[p] # 0
                     /\ draft'[p].secret \in {job[p].secret, seen[p].secret}
  <2>1. UserStep(p) => pc[p] # 0
    BY DEF UserStep, Label
  <2> QED
    BY <1>0, <2>1, WrittenSecret
<1>3. VisibleUser(p) \in User => VisibleUser(p).secret <= asked
  BY <1>0 DEF VisibleUser, SecretsInv, Secrets
<1>4. user' # Gone => user'.secret <= asked'
  BY <1>0, <1>1, <1>3, VisibleUserType DEF SecretsInv
<1>5. pc[p] # 0 => job[p].secret \in 1..asked
  BY <1>0 DEF Secrets
<1>6. Secrets(p)'
  <2>1. seen'[p] \in User => seen'[p].secret <= asked'
    BY <1>0, <1>1, <1>2, <1>3, <1>5 DEF Secrets
  <2>2. draft'[p] \in User => draft'[p].secret <= asked'
    BY <1>0, <1>1, <1>2, <1>5 DEF Secrets
  <2>3. ASSUME pc'[p] # 0
        PROVE  /\ job'[p].secret \in 1..asked'
               /\ user' # Gone => user'.secret # job'[p].secret
               /\ draft'[p] = None /\ seen'[p] # None => seen'[p].secret # job'[p].secret
    <3>1. seen'[p] # Gone
      <4>1. seen'[p] \in User \cup {None}
        BY DEF TypeOK
      <4> QED
        BY <1>0, <4>1
    <3>2. draft'[p] = None => VisibleUser(p) = user
      BY <1>1, <2>3 DEF VisibleUser
    <3> QED
      BY <1>0, <1>1, <1>5, <2>3, <3>1, <3>2 DEF Secrets
  <2> QED
    BY <2>1, <2>2, <2>3 DEF Secrets
<1>7. ASSUME NEW q \in Request, q # p
      PROVE  Secrets(q)' /\ SecretsApart(q, p)' /\ SecretsApart(p, q)'
  <2>1. job'[q] = job[q] /\ pc'[q] = pc[q] /\ seen'[q] = seen[q] /\ draft'[q] = draft[q]
    BY <1>0, <1>7, OthersPointwise DEF Effect
  <2>2. Secrets(q) /\ SecretsApart(q, p) /\ SecretsApart(p, q)
    BY <1>7 DEF SecretsInv
  <2>3. ASSUME pc[q] # 0, VisibleUser(p) \in User
        PROVE  VisibleUser(p).secret # job[q].secret
    BY <1>0, <2>2, <2>3 DEF VisibleUser, Secrets, SecretsApart
  <2>4. Secrets(q)'
    BY <1>0, <1>1, <2>1, <2>2, <2>3, VisibleUserType DEF Secrets
  <2>5. SecretsApart(q, p)'
    BY <1>0, <1>1, <1>2, <2>1, <2>2, <2>3 DEF SecretsApart
  <2>6. SecretsApart(p, q)'
    BY <1>1, <2>1, <2>2 DEF SecretsApart
  <2> QED
    BY <2>4, <2>5, <2>6
<1>8. ASSUME NEW q \in Request \ {p}, NEW s \in Request \ {p}, q # s
      PROVE  SecretsApart(q, s)'
  <2>1. SecretsApart(q, s)
    BY <1>8 DEF SecretsInv
  <2> QED
    BY <1>0, <2>1, OthersPointwise DEF Effect, SecretsApart
<1> QED
  BY <1>4, <1>6, <1>7, <1>8 DEF SecretsInv

\* A new request brings a hash of its own.
LEMMA SecretsBegin ==
  ASSUME Base, SecretsInv, NEW p \in Request, BeginStep(p)
  PROVE  SecretsInv'
<1>0. /\ TypeOK /\ \A u \in User : u.secret \in Nat
      /\ asked \in Nat /\ asked' = asked + 1 /\ user' = user /\ user \in User \cup {Gone}
      /\ pc[p] = 0 /\ job'[p].secret = asked + 1
      /\ seen[p] = None /\ draft[p] = None
  BY AccountsAssumption DEF Base, TypeOK, User, BeginStep, Slot
<1>1. \A q \in Request : /\ seen'[q] = seen[q] /\ draft'[q] = draft[q]
                         /\ q # p => job'[q] = job[q] /\ pc'[q] = pc[q]
  BY <1>0, OthersPointwise DEF BeginStep
<1>2. \A q \in Request : Secrets(q)
  BY DEF SecretsInv
<1>3. \A q \in Request : pc[q] # 0 => job[q].secret \in 1..asked
  BY <1>2 DEF Secrets
<1>4. user' # Gone => user'.secret <= asked
  BY <1>0 DEF SecretsInv
<1>5. user' # Gone => user'.secret <= asked' /\ user'.secret # job'[p].secret
  BY <1>0, <1>4
<1>6. ASSUME NEW q \in Request
      PROVE  /\ seen[q] \in User => seen[q].secret <= asked' /\ seen[q].secret # job'[p].secret
             /\ draft[q] \in User => draft[q].secret <= asked' /\ draft[q].secret # job'[p].secret
  BY <1>0, <1>2 DEF Secrets
<1>7. ASSUME NEW q \in Request
      PROVE  Secrets(q)'
  <2>1. CASE q = p
    BY <1>0, <1>1, <1>5, <1>6, <2>1, AccountsAssumption DEF Secrets
  <2>2. CASE q # p
    BY <1>0, <1>1, <1>2, <1>3, <1>6, <2>2 DEF Secrets
  <2> QED
    BY <2>1, <2>2
<1>8. ASSUME NEW q \in Request, NEW s \in Request, q # s
      PROVE  SecretsApart(q, s)'
  <2>1. SecretsApart(q, s)
    BY <1>8 DEF SecretsInv
  <2>2. CASE q = p
    BY <1>0, <1>1, <1>3, <1>6, <1>8, <2>2 DEF SecretsApart
  <2>3. CASE s = p
    BY <1>0, <1>1, <1>3, <1>8, <2>1, <2>3 DEF SecretsApart
  <2>4. CASE q # p /\ s # p
    BY <1>1, <2>1, <2>4 DEF SecretsApart
  <2> QED
    BY <2>2, <2>3, <2>4
<1> QED
  BY <1>5, <1>7, <1>8 DEF SecretsInv

-----------------------------------------------------------------------------
(* A link is used once. *)

ResettingInv ==
  /\ \A p \in Request : Resetting(p)
  /\ "stale" \notin cause =>
       \A h \in heirs : h[1] = "link" =>
         h[2] \in 0..issued /\ Reset(h[2]) \notin rows /\ \A q \in Request : Reset(h[2]) \notin ins[q]

\* The links that are used by a commit.
LEMMA HeirsStep ==
  ASSUME NEW p \in Request, Effect(p)
  PROVE  /\ heirs \subseteq heirs'
         /\ \A h \in heirs' : h \notin heirs /\ h[1] = "link" =>
              CommitStep(p) /\ job[p].op = "reset" /\ h = <<"link", job[p].n, job[p].secret>> /\ h[2] = job[p].n
BY RowsStep DEF CommitStep

\* A request that has used a link is the only one with the user row.
LEMMA UsesAlone ==
  ASSUME Base, NEW p \in Request, From(p, {"reset"}, 3), NEW q \in Request \ {p}
  PROVE  draft[q] = None
<1>1. draft[p] # None /\ Apart(p, q)
  BY AccountsAssumption DEF Base, Shape
<1> QED
  BY <1>1 DEF Apart

\* A committed password of another one's reset displaces what a request has read.
LEMMA BygoneStep ==
  ASSUME Base, Typed, TypeOK', SecretsInv, NEW p \in Request, Effect(p), "stale" \notin cause',
         NEW q \in Request \ {p}, seen[q] \in User, Bygone(seen[q].secret)
  PROVE  Bygone(seen[q].secret)'
<1>0. /\ TypeOK /\ Sighted(p) /\ seen'[q] = seen[q]
      /\ Secrets(p) /\ SecretsApart(p, q)
      /\ \A u \in User : u # None /\ u # Gone
  BY OthersPointwise, AccountsAssumption DEF Base, Typed, Effect, SecretsInv
<1>1. VisibleUser(p) # Gone => VisibleUser(p).secret # seen[q].secret
  BY <1>0, VisibleUserType DEF VisibleUser, Bygone, TypeOK
<1>2. user' # Gone => user'.secret # seen[q].secret
  BY <1>1, RowsStep DEF CommitStep, Bygone
<1>3. draft'[p] \in User => draft'[p].secret # seen[q].secret
  <2>1. CASE UserStep(p)
    <3>1. VisibleUser(p) = seen[p] /\ pc[p] # 0 /\ VisibleUser(p) # Gone
      BY <2>1 DEF UserStep, Label
    <3>2. draft'[p].secret \in {job[p].secret, seen[p].secret}
      BY <1>0, <2>1, WrittenSecret
    <3>3. job[p].secret # seen[q].secret
      BY <1>0, <3>1 DEF SecretsApart
    <3> QED
      BY <1>1, <3>1, <3>2, <3>3
  <2>2. CASE ~UserStep(p)
    <3>1. draft'[p] \in {None, Gone, draft[p]}
      BY <2>2, Sources
    <3> QED
      BY <1>0, <3>1 DEF Bygone
  <2> QED
    BY <2>1, <2>2
<1>4. \A s \in Request \ {p} : draft'[s] = draft[s]
  BY <1>0, OthersPointwise DEF Effect
<1> QED
  BY <1>0, <1>2, <1>3, <1>4 DEF Bygone

\* Parts of Resetting.
LinkSeen(p) == From(p, {"reset"}, 2) => \A q \in Request : Reset(job[p].n) \notin ins[q]
LinkUsed(p) ==
  /\ From(p, {"reset"}, 2) => seen[p] # None
  /\ From(p, {"reset"}, 3) => draft[p].secret = job[p].secret
  /\ From(p, {"reset"}, 4) /\ Reset(job[p].n) \in rows => Reset(job[p].n) \in del[p]
LinkHeld(p) ==
  "stale" \notin cause =>
    /\ From(p, {"reset"}, 2) /\ pc[p] = 2 => Unused(job[p].n) \/ Bygone(seen[p].secret)
    /\ From(p, {"reset"}, 3) => Unused(job[p].n)

\* What is kept of a reset, in parts.
LEMMA ResettingParts ==
  ASSUME NEW p \in Request
  PROVE  Resetting(p) <=> LinkSeen(p) /\ LinkUsed(p) /\ LinkHeld(p)
BY DEF Resetting, LinkSeen, LinkUsed, LinkHeld

\* The statement decides the kind of step.
LEMMA StepLabel ==
  ASSUME NEW p \in Request, Effect(p)
  PROVE  \/ RollbackStep(p) \/ CommitStep(p) \/ WaitStep(p)
         \/ ReadStep(p) /\ Label(p) \in ReadLabels
         \/ DropStep(p) /\ Label(p) \in DropLabels
         \/ MarkStep(p) /\ Label(p) \in {"claim", "useReset", "markCode"}
         \/ UserStep(p) /\ Label(p) \in {"write", "touch"}
         \/ InsertStep(p) /\ Label(p) \in AddLabels
         \/ EraseStep(p) /\ Label(p) = "erase"
<1>1. ReadStep(p) => Label(p) \in ReadLabels
  BY DEF ReadStep
<1>2. DropStep(p) => Label(p) \in DropLabels
  BY DEF DropStep
<1>3. MarkStep(p) => Label(p) \in {"claim", "useReset", "markCode"}
  BY DEF MarkStep
<1>4. UserStep(p) => Label(p) \in {"write", "touch"}
  BY DEF UserStep
<1>5. InsertStep(p) => Label(p) \in AddLabels
  BY DEF InsertStep
<1>6. EraseStep(p) => Label(p) = "erase"
  BY DEF EraseStep
<1> QED
  BY <1>1, <1>2, <1>3, <1>4, <1>5, <1>6 DEF Effect

\* Where a reset goes with its next step.
LEMMA ResetMoves ==
  ASSUME Base, TypeOK', NEW p \in Request, Effect(p), job'[p].op = "reset", pc'[p] >= 2
  PROVE  /\ job'[p] = job[p] /\ job[p].op = "reset" /\ pc[p] \in 1..12 /\ pc'[p] \in 1..12
         /\ pc'[p] = pc[p] \/ pc'[p] = pc[p] + 1
         /\ pc'[p] = pc[p] => WaitStep(p) \/ pc[p] >= 6
         /\ pc[p] = 1 => /\ ReadStep(p) /\ Label(p) = "findReset" /\ draft[p] = None
                         /\ Reset(job[p].n) \in rows /\ seen'[p] = VisibleUser(p)
         /\ pc[p] = 2 /\ pc'[p] = 3 => UserStep(p) /\ Label(p) = "write"
         /\ pc[p] = 3 /\ pc'[p] = 4 => MarkStep(p) /\ Label(p) = "useReset"
         /\ ~UserStep(p) => draft'[p] = draft[p]
         /\ pc[p] >= 3 => ~UserStep(p)
<1>0. TypeOK /\ Slot(p) /\ Shape(p)
  BY DEF Base
<1>1. /\ Label(p) = Line(job[p].op, pc[p]) /\ Standing(job[p].op, pc[p]) /\ pc[p] \in 0..12 /\ pc'[p] \in 0..12
  BY <1>0, AtLabel, AtLabelNext
<1>2. /\ job'[p] = job[p] /\ job[p].op = "reset" /\ (pc'[p] = pc[p] \/ pc'[p] = pc[p] + 1)
  BY <1>0, <1>1, NextLine DEF RollbackStep, CommitStep, Ended
<1>3. pc[p] # 0
  <2>1. pc'[p] # 0
    BY <1>1
  <2> QED
    BY <2>1, Sources
<1>4. ~RollbackStep(p) /\ ~CommitStep(p)
  BY <1>1 DEF RollbackStep, CommitStep, Ended
<1>5. pc[p] = 1 => Label(p) \notin WriteLabels
  BY <1>1, <1>2 DEF Standing, WriteLabels, DropLabels, AddLabels, Edits
<1>6. pc[p] = 2 => Label(p) \notin (ReadLabels \cup (WriteLabels \ {"write"}))
  BY <1>1, <1>2 DEF Standing, ReadLabels, WriteLabels, DropLabels, AddLabels, Edits
<1>7. pc[p] = 3 => Label(p) \notin (ReadLabels \cup (WriteLabels \ {"useReset"}))
  BY <1>1, <1>2 DEF Standing, ReadLabels, WriteLabels, DropLabels, AddLabels, Edits
<1>8. pc[p] >= 3 => Label(p) \notin {"write", "touch", "erase"}
  BY <1>1, <1>2 DEF Standing, Edits
<1>9. Label(p) # "erase" /\ Label(p) # "touch"
  BY <1>1, <1>2 DEF Standing
<1>10. WaitStep(p) => Label(p) \in WriteLabels
  BY <1>0, BlockedWrites DEF WaitStep
<1>11. pc'[p] = pc[p] => WaitStep(p)
  <2>1. Label(p) \notin {"unlessBanned", "onlyBanned", "isVerified"}
    BY <1>1, <1>2 DEF Standing
  <2>2. ReadStep(p) => pc'[p] = pc[p] + 1
    BY <1>2, <2>1 DEF ReadStep
  <2>3. DropStep(p) \/ MarkStep(p) \/ UserStep(p) \/ InsertStep(p) \/ EraseStep(p) => pc'[p] = pc[p] + 1
    BY DEF DropStep, MarkStep, UserStep, InsertStep, EraseStep, WriteStep
  <2> QED
    BY <1>1, <1>4, <2>2, <2>3 DEF Effect
<1>12. pc[p] = 1 => /\ ReadStep(p) /\ Label(p) = "findReset" /\ draft[p] = None
                    /\ Reset(job[p].n) \in rows /\ seen'[p] = VisibleUser(p)
  <2> SUFFICES ASSUME pc[p] = 1
               PROVE  /\ ReadStep(p) /\ Label(p) = "findReset" /\ draft[p] = None
                      /\ Reset(job[p].n) \in rows /\ seen'[p] = VisibleUser(p)
    OBVIOUS
  <2>1. ReadStep(p)
    BY <1>4, <1>5, <1>10 DEF Effect, DropStep, MarkStep, UserStep, InsertStep, EraseStep, WriteLabels
  <2>2. Label(p) = "findReset"
    BY <1>1, <1>2, <2>1 DEF ReadStep, ReadLabels, Standing, Edits
  <2>3. draft[p] = None
    BY <1>0, <1>2 DEF Shape, WritesUser, From, AgainstOrder, Edits
  <2>4. Reset(job[p].n) \in Visible(p) /\ seen'[p] = VisibleUser(p)
    BY <1>1, <1>2, <2>1, <2>2 DEF ReadStep
  <2>5. Reset(job[p].n) \notin ins[p]
    BY <1>0, <1>2, TokenItem DEF Shape, AddsLink, From
  <2> QED
    BY <2>1, <2>2, <2>3, <2>4, <2>5 DEF Visible
<1>13. pc[p] = 2 /\ pc'[p] = 3 => UserStep(p) /\ Label(p) = "write"
  <2> SUFFICES ASSUME pc[p] = 2, pc'[p] = 3 PROVE UserStep(p) /\ Label(p) = "write"
    OBVIOUS
  <2>1. ~WaitStep(p)
    BY DEF WaitStep
  <2>2. Label(p) \notin ReadLabels /\ (Label(p) \in WriteLabels => Label(p) = "write")
    BY <1>6
  <2>3. Label(p) \notin DropLabels /\ Label(p) \notin AddLabels /\ Label(p) # "erase"
    BY <2>2 DEF WriteLabels, DropLabels, AddLabels
  <2> QED
    BY <1>4, <2>1, <2>2, <2>3, StepLabel DEF WriteLabels
<1>14. pc[p] = 3 /\ pc'[p] = 4 => MarkStep(p) /\ Label(p) = "useReset"
  <2> SUFFICES ASSUME pc[p] = 3, pc'[p] = 4 PROVE MarkStep(p) /\ Label(p) = "useReset"
    OBVIOUS
  <2>1. ~WaitStep(p)
    BY DEF WaitStep
  <2>2. Label(p) \notin ReadLabels /\ (Label(p) \in WriteLabels => Label(p) = "useReset")
    BY <1>7
  <2>3. Label(p) \notin DropLabels /\ Label(p) \notin AddLabels /\ Label(p) # "erase"
    BY <2>2 DEF WriteLabels, DropLabels, AddLabels
  <2> QED
    BY <1>4, <2>1, <2>2, <2>3, StepLabel DEF WriteLabels
<1>15. ~UserStep(p) => draft'[p] = draft[p]
  BY <1>4, <1>9 DEF Effect, ReadStep, WaitStep, DropStep, MarkStep, InsertStep, EraseStep
<1>16. pc[p] >= 3 => ~UserStep(p)
  BY <1>8 DEF UserStep
<1> QED
  BY <1>1, <1>2, <1>3, <1>11, <1>12, <1>13, <1>14, <1>15, <1>16

\* The link a reset has found is a committed row.
LEMMA LinkSeenStep ==
  ASSUME Base, TypeOK', ResettingInv, NEW p \in Request, Effect(p), NEW q \in Request
  PROVE  LinkSeen(q)'
<1>0. TypeOK /\ \A s \in Request : Slot(s)
  BY DEF Base
<1> SUFFICES ASSUME job'[q].op = "reset", pc'[q] >= 2, NEW s \in Request
             PROVE  Reset(job'[q].n) \notin ins'[s]
  BY DEF LinkSeen, From
<1>1. job'[q] = job[q] /\ Reset(job[q].n) \notin ins[s]
  <2>1. CASE q = p
    <3>1. job'[p] = job[p] /\ job[p].op = "reset" /\ pc[p] \in 1..12
          /\ (pc[p] = 1 => Reset(job[p].n) \in rows)
      BY <2>1, ResetMoves
    <3>2. CASE pc[p] = 1
      BY <1>0, <2>1, <3>1, <3>2, TokenItem DEF Slot, Fresh
    <3>3. CASE pc[p] >= 2
      BY <2>1, <3>1, <3>3, ResettingParts DEF ResettingInv, LinkSeen, From
    <3> QED
      BY <3>1, <3>2, <3>3
  <2>2. CASE q # p
    <3>1. job'[q] = job[q] /\ pc'[q] = pc[q]
      BY <1>0, <2>2, OthersPointwise DEF Effect
    <3> QED
      BY <3>1, ResettingParts DEF ResettingInv, LinkSeen, From
  <2> QED
    BY <2>1, <2>2
<1>2. Counted(Reset(job[q].n)) /\ Reset(job[q].n).kind = "reset"
  BY <1>0, TokenItem DEF Slot, Counted
<1>3. CASE s = p
  BY <1>1, <1>2, <1>3, NotAgain
<1>4. CASE s # p
  BY <1>0, <1>1, <1>4, OthersPointwise DEF Effect
<1> QED
  BY <1>3, <1>4

\* A reset that has marked its link holds it.
LEMMA LinkUsedStep ==
  ASSUME Base, Typed, TypeOK', ResettingInv, NEW p \in Request, Effect(p), NEW q \in Request
  PROVE  LinkUsed(q)'
<1>0. TypeOK /\ (\A s \in Request : Slot(s)) /\ Sighted(p) /\ LinkUsed(q) /\ LinkSeen(q)
  BY ResettingParts DEF Base, Typed, ResettingInv
<1>1. ASSUME LinkSeen(q), From(q, {"reset"}, 2), Reset(job[q].n) \in rows'
      PROVE  Reset(job[q].n) \in rows
  BY <1>1, RowsStep DEF CommitStep, Visible, LinkSeen
<1>2. CASE q # p
  <2>1. job'[q] = job[q] /\ pc'[q] = pc[q] /\ seen'[q] = seen[q] /\ draft'[q] = draft[q] /\ del'[q] = del[q]
    BY <1>0, <1>2, OthersPointwise DEF Effect
  <2>2. pc[q] \in Int
    BY <1>0, AtLabel
  <2> QED
    BY <1>0, <1>1, <2>1, <2>2 DEF LinkUsed, From
<1>3. CASE q = p
  <2>1. SUFFICES ASSUME job'[p].op = "reset", pc'[p] >= 2
                 PROVE  /\ seen'[p] # None
                        /\ pc'[p] >= 3 => draft'[p].secret = job'[p].secret
                        /\ pc'[p] >= 4 /\ Reset(job'[p].n) \in rows' => Reset(job'[p].n) \in del'[p]
    <3>1. pc'[p] \in Int
      BY AtLabelNext
    <3> QED
      BY <1>3, <2>1, <3>1 DEF LinkUsed, From
  <2>2. /\ job'[p] = job[p] /\ job[p].op = "reset" /\ pc[p] \in 1..12 /\ pc'[p] \in 1..12
        /\ pc'[p] = pc[p] \/ pc'[p] = pc[p] + 1
        /\ pc[p] = 1 => ReadStep(p) /\ seen'[p] = VisibleUser(p)
        /\ pc[p] = 2 /\ pc'[p] = 3 => UserStep(p) /\ Label(p) = "write"
        /\ pc[p] = 3 /\ pc'[p] = 4 => MarkStep(p) /\ Label(p) = "useReset"
        /\ ~UserStep(p) => draft'[p] = draft[p]
        /\ pc[p] >= 3 => ~UserStep(p)
    BY <2>1, ResetMoves
  <2>3. seen'[p] # None
    <3>1. CASE pc[p] = 1
      BY <1>0, <2>2, <3>1, VisibleUserType
    <3>2. CASE pc[p] >= 2
      <4>1. seen[p] # None
        BY <1>0, <1>3, <2>2, <3>2 DEF LinkUsed, From
      <4>2. seen'[p] \in {seen[p], VisibleUser(p)} \/ (UserStep(p) /\ seen'[p] = draft'[p])
        <5>1. ~RollbackStep(p) /\ ~CommitStep(p)
          BY <2>2 DEF RollbackStep, CommitStep, Ended
        <5> QED
          BY <5>1 DEF Effect, ReadStep, WaitStep, DropStep, MarkStep, UserStep, InsertStep, EraseStep
      <4> QED
        BY <1>0, <4>1, <4>2, VisibleUserType, WrittenSecret
    <3> QED
      BY <2>2, <3>1, <3>2
  <2>4. ASSUME pc'[p] >= 3
        PROVE  draft'[p].secret = job'[p].secret
    <3>1. CASE pc[p] >= 3
      BY <1>0, <1>3, <2>2, <3>1 DEF LinkUsed, From
    <3>2. CASE pc[p] < 3
      <4>1. UserStep(p) /\ Label(p) = "write"
        BY <2>2, <2>4, <3>2
      <4> QED
        BY <1>0, <2>2, <4>1, WrittenSecret DEF Passwords
    <3> QED
      BY <2>2, <3>1, <3>2
  <2>5. ASSUME pc'[p] >= 4, Reset(job'[p].n) \in rows'
        PROVE  Reset(job'[p].n) \in del'[p]
    <3>1. Reset(job[p].n) \in rows
      BY <1>0, <1>1, <1>3, <2>2, <2>5 DEF From
    <3>2. CASE pc[p] >= 4
      <4>1. Reset(job[p].n) \in del[p]
        BY <1>0, <1>3, <2>2, <3>1, <3>2 DEF LinkUsed, From
      <4> QED
        BY <2>2, <4>1, DelGrows
    <3>3. CASE pc[p] < 4
      <4>1. MarkStep(p) /\ Label(p) = "useReset"
        BY <2>2, <2>5, <3>3
      <4>2. WriteStep(p, Aim(p), {Used(job[p].n)}) /\ Reset(job[p].n) \in Aim(p)
        BY <4>1 DEF MarkStep, Aim, Versions
      <4> QED
        BY <2>2, <3>1, <4>2 DEF WriteStep
    <3> QED
      BY <2>2, <3>2, <3>3
  <2> QED
    BY <2>3, <2>4, <2>5
<1> QED
  BY <1>2, <1>3

\* While a reset is under way no other one can use its link unnoticed: the user it has read
\* would be stale.
LEMMA LinkHeldStep ==
  ASSUME Base, Typed, TypeOK', SecretsInv, ResettingInv, NEW p \in Request, Effect(p), NEW q \in Request
  PROVE  LinkHeld(q)'
<1>0. /\ TypeOK /\ LinkHeld(q) /\ LinkSeen(q) /\ LinkUsed(q) /\ LinkUsed(p)
      /\ cause \subseteq cause' /\ pc[q] \in 0..12
      /\ \A u \in User : u # None /\ u # Gone
  BY ResettingParts, Sources, AtLabel, AccountsAssumption DEF Base, ResettingInv
<1> SUFFICES ASSUME "stale" \notin cause', job'[q].op = "reset", pc'[q] >= 2
             PROVE  /\ pc'[q] = 2 => Unused(job[q].n)' \/ Bygone(seen[q].secret)'
                    /\ pc'[q] >= 3 => Unused(job[q].n)'
  <2>1. pc'[q] \in 0..12
    BY AtLabelNext
  <2> QED
    BY <2>1 DEF LinkHeld, From
<1>1. "stale" \notin cause
  BY <1>0
<1>2. CASE q = p
  <2>1. /\ job'[p] = job[p] /\ job[p].op = "reset" /\ pc[p] \in 1..12 /\ pc'[p] \in 1..12
        /\ pc'[p] = pc[p] \/ pc'[p] = pc[p] + 1
        /\ pc'[p] = pc[p] => WaitStep(p) \/ pc[p] >= 6
        /\ pc[p] = 1 => Reset(job[p].n) \in rows
        /\ pc[p] = 2 /\ pc'[p] = 3 => UserStep(p) /\ Label(p) = "write"
    BY <1>2, ResetMoves
  <2>2. heirs' = heirs
    <3>1. ~CommitStep(p)
      BY <2>1 DEF CommitStep, Ended
    <3> QED
      BY <3>1, RowsStep
  <2>3. CASE pc[p] = 1
    <3>1. Unused(job[p].n)
      BY <1>1, <2>1, <2>3 DEF Unused, ResettingInv
    <3> QED
      BY <1>2, <2>1, <2>2, <3>1 DEF Unused
  <2>4. CASE pc[p] = 2 /\ pc'[p] = 2
    <3>1. Unused(job[p].n) \/ Bygone(seen[p].secret)
      BY <1>0, <1>1, <1>2, <2>1, <2>4 DEF LinkHeld, From
    <3>2. user' = user /\ draft' = draft /\ seen'[p] = seen[p]
      <4>1. WaitStep(p)
        BY <2>1, <2>4
      <4>2. draft'[p] = draft[p] /\ user' = user /\ seen'[p] = seen[p]
        BY <4>1 DEF WaitStep
      <4> QED
        BY <1>0, <4>2 DEF Effect, OthersSame, TypeOK
    <3> QED
      BY <1>2, <2>1, <2>2, <2>4, <3>1, <3>2 DEF Unused, Bygone
  <2>5. CASE pc[p] = 2 /\ pc'[p] = 3
    <3>1. Unused(job[p].n) \/ Bygone(seen[p].secret)
      BY <1>0, <1>1, <1>2, <2>1, <2>5 DEF LinkHeld, From
    <3>2. VisibleUser(p) = seen[p] /\ VisibleUser(p) # Gone
      BY <2>1, <2>5 DEF UserStep
    <3>3. VisibleUser(p) = user \/ (VisibleUser(p) = draft[p] /\ draft[p] \in User)
      BY <1>0, <3>2 DEF VisibleUser, TypeOK
    <3>4. ~Bygone(seen[p].secret)
      BY <3>2, <3>3 DEF Bygone
    <3> QED
      BY <1>2, <2>1, <2>2, <2>5, <3>1, <3>4 DEF Unused
  <2>6. CASE pc[p] >= 3
    <3>1. Unused(job[p].n)
      BY <1>0, <1>1, <1>2, <2>1, <2>6 DEF LinkHeld, From
    <3> QED
      BY <1>2, <2>1, <2>2, <2>6, <3>1 DEF Unused
  <2> QED
    BY <2>1, <2>3, <2>4, <2>5, <2>6
<1>3. CASE q # p
  <2>1. job'[q] = job[q] /\ pc'[q] = pc[q] /\ seen'[q] = seen[q]
    BY <1>0, <1>3, OthersPointwise DEF Effect
  <2>2. CASE Unused(job[q].n)'
    BY <2>1, <2>2 DEF Unused
  <2>3. CASE ~Unused(job[q].n)'
    <3>1. CASE Unused(job[q].n)
      <4>1. PICK h \in heirs' : h[1] = "link" /\ h[2] = job[q].n
        BY <2>1, <2>3 DEF Unused
      <4>2. h \notin heirs
        BY <3>1, <4>1 DEF Unused
      <4>3. CommitStep(p) /\ job[p].op = "reset"
        BY <4>1, <4>2, HeirsStep
      <4>4. pc[p] >= 6 /\ pc[p] \in 0..12
        BY <1>0, <4>3, AtLabel DEF CommitStep, Standing
      <4>5. From(p, {"reset"}, 3)
        BY <4>3, <4>4 DEF From
      <4>6. draft[q] = None /\ \A s \in Request \ {p} : draft[s] = None
        BY <1>3, <4>5, UsesAlone
      <4>7. draft[p] \in User /\ draft[p].secret = job[p].secret /\ pc[p] # 0
        BY <1>0, <4>3, <4>4, <4>5 DEF LinkUsed, Base, Shape, From
      <4>8. pc[q] < 3
        <5>1. From(q, {"reset"}, 3) => draft[q] \in User
          BY DEF Base, Shape
        <5> QED
          BY <1>0, <2>1, <4>6, <5>1, AccountsAssumption DEF From
      <4>9. seen[q] \in User
        BY <1>0, <2>1 DEF LinkUsed, From, TypeOK
      <4>10. user' = draft[p] /\ draft'[p] = None /\ \A s \in Request \ {p} : draft'[s] = None
        BY <1>0, <4>3, <4>6, <4>7, OthersPointwise DEF CommitStep, Ended, VisibleUser, Effect
      <4>11. draft[p].secret # seen[q].secret
        BY <1>3, <4>7, <4>9 DEF SecretsInv, SecretsApart
      <4>12. Bygone(seen[q].secret)'
        BY <1>0, <2>1, <4>10, <4>11 DEF Bygone
      <4> QED
        BY <1>0, <2>1, <4>8, <4>12
    <3>2. CASE ~Unused(job[q].n)
      <4>1. pc[q] = 2 /\ Bygone(seen[q].secret)
        BY <1>0, <1>1, <2>1, <3>2 DEF LinkHeld, From
      <4>2. seen[q] \in User
        BY <1>0, <2>1, <4>1 DEF LinkUsed, From, TypeOK
      <4>3. Bygone(seen[q].secret)'
        BY <1>3, <4>1, <4>2, BygoneStep
      <4> QED
        BY <2>1, <4>1, <4>3
    <3> QED
      BY <3>1, <3>2
  <2> QED
    BY <2>2, <2>3
<1> QED
  BY <1>2, <1>3

\* A link that has been used is gone for good.
LEMMA UsedLinksStep ==
  ASSUME Base, TypeOK', ResettingInv, ResetOnce, NEW p \in Request, Effect(p), "stale" \notin cause'
  PROVE  /\ \A h \in heirs' : h[1] = "link" =>
              h[2] \in 0..issued' /\ Reset(h[2]) \notin rows' /\ \A q \in Request : Reset(h[2]) \notin ins'[q]
         /\ \A h, k \in heirs' : h[1] = "link" /\ k[1] = "link" /\ h[2] = k[2] => h = k
<1>0. /\ TypeOK /\ cause \subseteq cause' /\ Slot(p)
      /\ issued \in Nat /\ issued' \in Nat /\ issued' >= issued /\ job[p].n \in Nat /\ job[p].n <= issued
  BY Sources, IssuedGrows, AtLabel, AtLabelNext DEF Base, Slot
<1>1. "stale" \notin cause
  BY <1>0
<1>2. ASSUME NEW h \in heirs, h[1] = "link"
      PROVE  h[2] \in 0..issued' /\ Reset(h[2]) \notin rows' /\ \A q \in Request : Reset(h[2]) \notin ins'[q]
  <2>1. h[2] \in 0..issued /\ Reset(h[2]) \notin rows /\ \A q \in Request : Reset(h[2]) \notin ins[q]
    BY <1>1, <1>2 DEF ResettingInv
  <2>2. Reset(h[2]).kind = "reset" /\ Counted(Reset(h[2]))
    BY <1>0, <2>1, TokenItem DEF Counted
  <2> QED
    BY <1>0, <2>1, <2>2, StaysAway
<1>3. ASSUME NEW h \in heirs', h \notin heirs, h[1] = "link"
      PROVE  /\ h[2] \in 0..issued' /\ Reset(h[2]) \notin rows' /\ \A q \in Request : Reset(h[2]) \notin ins'[q]
             /\ \A k \in heirs : k[1] = "link" => k[2] # h[2]
             /\ h = <<"link", job[p].n, job[p].secret>>
  <2>1. CommitStep(p) /\ job[p].op = "reset" /\ h = <<"link", job[p].n, job[p].secret>> /\ h[2] = job[p].n
    BY <1>3, HeirsStep
  <2>2. pc[p] >= 6 /\ pc[p] \in 0..12
    BY <1>0, <2>1, AtLabel DEF CommitStep, Standing
  <2>3. LinkSeen(p) /\ LinkUsed(p) /\ LinkHeld(p)
    BY ResettingParts DEF ResettingInv
  <2>4. /\ Unused(job[p].n) /\ \A q \in Request : Reset(job[p].n) \notin ins[q]
        /\ Reset(job[p].n) \in rows => Reset(job[p].n) \in del[p]
    BY <1>1, <2>1, <2>2, <2>3 DEF LinkSeen, LinkUsed, LinkHeld, From
  <2>5. Reset(job[p].n) \notin rows'
    BY <2>1, <2>4 DEF CommitStep, Visible
  <2>6. \A q \in Request : Reset(job[p].n) \notin ins'[q]
    <3> SUFFICES ASSUME NEW q \in Request PROVE Reset(job[p].n) \notin ins'[q]
      OBVIOUS
    <3>1. CASE q = p
      BY <2>1, <3>1 DEF CommitStep, Ended
    <3>2. CASE q # p
      BY <1>0, <2>4, <3>2, OthersPointwise DEF Effect
    <3> QED
      BY <3>1, <3>2
  <2>7. \A k \in heirs : k[1] = "link" => k[2] # h[2]
    BY <2>1, <2>4 DEF Unused
  <2> QED
    BY <1>0, <2>1, <2>5, <2>6, <2>7
<1>4. \A h, k \in heirs : h[1] = "link" /\ k[1] = "link" /\ h[2] = k[2] => h = k
  BY <1>1 DEF ResetOnce
<1>5. ASSUME NEW h \in heirs', NEW k \in heirs', h[1] = "link", k[1] = "link", h[2] = k[2]
      PROVE  h = k
  <2>1. CASE h \in heirs /\ k \in heirs
    BY <1>4, <1>5, <2>1
  <2>2. CASE h \in heirs /\ k \notin heirs
    BY <1>3, <1>5, <2>2
  <2>3. CASE h \notin heirs /\ k \in heirs
    BY <1>3, <1>5, <2>3
  <2>4. CASE h \notin heirs /\ k \notin heirs
    BY <1>3, <1>5, <2>4
  <2> QED
    BY <2>1, <2>2, <2>3, <2>4
<1> QED
  BY <1>2, <1>3, <1>5

\* No link is used up at the start.
LEMMA LinksInit == Init => SecretsInv /\ ResettingInv /\ ResetOnce
<1> SUFFICES ASSUME Init PROVE SecretsInv /\ ResettingInv /\ ResetOnce
  OBVIOUS
<1>1. /\ \A p \in Request : pc[p] = 0 /\ seen[p] = None /\ draft[p] = None
      /\ heirs = {} /\ asked = 0
  BY DEF Init
<1>2. user.secret = 0
  BY DEF Init
<1> QED
  BY <1>1, <1>2, AccountsAssumption DEF SecretsInv, Secrets, SecretsApart, ResettingInv, Resetting, From, ResetOnce

\* Every step keeps the order of links and hashes (ResetPasswordCommandHandler).
LEMMA LinksNext ==
  ASSUME Base, Typed, TypeOK', SecretsInv, ResettingInv, ResetOnce, [Next]_vars
  PROVE  SecretsInv' /\ ResettingInv' /\ ResetOnce'
<1>0. TypeOK
  BY DEF Base
<1>1. ASSUME NEW p \in Request, Effect(p)
      PROVE  SecretsInv' /\ ResettingInv' /\ ResetOnce'
  <2>1. SecretsInv'
    BY <1>1, SecretsStep
  <2>2. \A q \in Request : LinkSeen(q)' /\ LinkUsed(q)' /\ LinkHeld(q)'
    BY <1>1, LinkSeenStep, LinkUsedStep, LinkHeldStep
  <2>3. \A q \in Request : Resetting(q)'
    BY <2>2 DEF Resetting, LinkSeen, LinkUsed, LinkHeld
  <2>4. ResettingInv' /\ ResetOnce'
    BY <1>1, <2>3, UsedLinksStep DEF ResettingInv, ResetOnce
  <2> QED
    BY <2>1, <2>4
<1>2. ASSUME NEW p \in Request, BeginStep(p)
      PROVE  SecretsInv' /\ ResettingInv' /\ ResetOnce'
  <2>1. \A q \in Request : /\ ins'[q] = ins[q] /\ del'[q] = del[q] /\ draft'[q] = draft[q] /\ seen'[q] = seen[q]
                           /\ q # p => job'[q] = job[q] /\ pc'[q] = pc[q]
    BY <1>0, <1>2, OthersPointwise DEF BeginStep
  <2>2. rows' = rows /\ heirs' = heirs /\ issued' = issued /\ pc'[p] = 1 /\ user' = user /\ cause' = cause
    BY <1>2 DEF BeginStep
  <2>3. SecretsInv'
    BY <1>2, SecretsBegin
  <2>4. \A q \in Request : Resetting(q)'
    BY <2>1, <2>2 DEF ResettingInv, Resetting, From, Unused, Bygone
  <2>5. ResettingInv' /\ ResetOnce'
    BY <2>1, <2>2, <2>4 DEF ResettingInv, ResetOnce
  <2> QED
    BY <2>3, <2>5
<1>3. CASE BanRunsOut \/ UNCHANGED vars
  <2>1. UNCHANGED <<user, rows, issued, asked, heirs, cause, job, pc, seen, draft, ins, del>>
    BY <1>3 DEF BanRunsOut, vars, tx
  <2>2. SecretsInv'
    BY <2>1 DEF SecretsInv, Secrets, SecretsApart
  <2>3. \A q \in Request : Resetting(q)'
    BY <2>1 DEF ResettingInv, Resetting, From, Unused, Bygone
  <2> QED
    BY <2>1, <2>2, <2>3 DEF ResettingInv, ResetOnce
<1> QED
  BY <1>0, <1>1, <1>2, <1>3, NextEffect

-----------------------------------------------------------------------------
(* Bans. *)

\* No method of the User entity but unbanUser ends a ban.
LEMMA ChangeKeepsBan ==
  ASSUME NEW u \in User, NEW j \in Job, Change(j, u) # None, Banned(u), j.op \notin Unbanning, late \in BOOLEAN,
         j.op \in {"verify", "mail", "adminMail", "ban", "banUntil", "unban", "password", "reset",
                   "activate", "deactivate", "addRole", "removeRole", "adminPassword"} \cup Edits
  PROVE  Banned(Change(j, u))
<1>1. CASE j.op \in Passwords
  BY <1>1 DEF Change, ChangePassword, Passwords, User, Banned
<1>2. CASE j.op \in {"mail", "adminMail"}
  BY <1>2 DEF Change, ChangeEmail, User, Banned
<1>a. Activate(u) # None => Banned(Activate(u))
  BY DEF Activate, User, Banned
<1>b. Banned(Deactivate(u)) /\ Banned(MarkEmailAsVerified(u))
  BY DEF Deactivate, MarkEmailAsVerified, User, Banned
<1>c. Banned(BanUser(u))
  BY DEF BanUser, User, Banned
<1>d. Banned(PermanentlyBanUser(u))
  BY DEF PermanentlyBanUser, User, Banned
<1>3. CASE j.op \in {"verify", "activate", "deactivate"}
  <2>1. Change(j, u) \in {MarkEmailAsVerified(u), Activate(u), Deactivate(u)}
    BY <1>3 DEF Change
  <2> QED
    BY <1>a, <1>b, <2>1
<1>4. CASE j.op \in {"ban", "banUntil", "unban"}
  <2>1. Change(j, u) \in {PermanentlyBanUser(u), BanUser(u)}
    BY <1>4 DEF Change, Unbanning
  <2> QED
    BY <1>c, <1>d, <2>1
<1>5. CASE j.op \in {"addRole", "removeRole"}
  BY <1>5 DEF Change, AddRole, RemoveRole, User, Banned
<1>6. CASE j.op \in Edits
  <2>1. Change(j, u) = UpdateUserProfile(j.op, u)
    BY <1>6 DEF Change, Edits
  <2>2. UpdateUserProfile(j.op, u) \in {Activate(u), Deactivate(u), MarkEmailAsVerified(u), BanUser(u)}
    BY <1>6 DEF UpdateUserProfile, Edits, Unbanning
  <2> QED
    BY <1>a, <1>b, <1>c, <2>1, <2>2
<1> QED
  BY <1>1, <1>2, <1>3, <1>4, <1>5, <1>6 DEF Passwords

\* A user that is not stale is written with the ban it has.
LEMMA BansStep ==
  ASSUME Base, Typed, BansInv, NEW p \in Request, Effect(p)
  PROVE  BansInv'
<1>0. /\ TypeOK /\ Sighted(p) /\ cause \subseteq cause' /\ late' = late /\ late \in BOOLEAN
      /\ \A u \in User : u # None /\ u # Gone
  BY Sources, AccountsAssumption DEF Base, Typed, Effect, TypeOK
<1> SUFFICES ASSUME "stale" \notin cause', NEW q \in Request, draft'[q] \in User, job'[q].op \notin Unbanning,
                    Banned(user')
             PROVE  Banned(draft'[q])
  BY <1>0 DEF BansInv, Banned
<1>1. "stale" \notin cause
  BY <1>0
<1>2. CASE q # p
  <2>1. draft'[q] = draft[q] /\ job'[q] = job[q]
    BY <1>0, <1>2, OthersPointwise DEF Effect
  <2>2. user' = user
    <3>1. Apart(q, p)
      BY <1>2 DEF Base
    <3>2. draft[p] = None
      BY <1>0, <2>1, <3>1 DEF Apart
    <3> QED
      BY <3>2, RowsStep DEF CommitStep, VisibleUser
  <2> QED
    BY <1>1, <2>1, <2>2 DEF BansInv
<1>3. CASE q = p
  <2>1. pc'[p] # 0 /\ user' = user
    <3>1. ~RollbackStep(p) /\ ~CommitStep(p)
      BY <1>0, <1>3 DEF RollbackStep, CommitStep, Ended
    <3>2. user' = user
      BY <3>1, RowsStep
    <3>3. pc[p] \in 0..12
      BY <1>0, AtLabel
    <3>4. Label(p) \notin {"free", "commit"} => pc[p] \in 1..11
      BY <1>0, WriterAt
    <3>5. pc'[p] # 0
      <4>1. CASE WaitStep(p)
        BY <4>1 DEF WaitStep
      <4>2. CASE ReadStep(p)
        <5>1. Len(Program[job[p].op]) + 1 # 0
          <6> DEFINE k == Len(Program[job[p].op])
          <6>1. k \in 1..11
            BY <1>0, ProgramLength
          <6> HIDE DEF k
          <6>2. k + 1 # 0
            BY <6>1
          <6> QED
            BY <6>2 DEF k
        <5> QED
          BY <3>3, <4>2, <5>1 DEF ReadStep
      <4>3. CASE DropStep(p) \/ MarkStep(p) \/ UserStep(p) \/ InsertStep(p) \/ EraseStep(p)
        BY <3>3, <4>3 DEF DropStep, MarkStep, UserStep, InsertStep, EraseStep, WriteStep
      <4> QED
        BY <3>1, <4>1, <4>2, <4>3 DEF Effect
    <3> QED
      BY <3>2, <3>5
  <2>2. job[p].op \notin Unbanning
    <3>1. job[p].op \in {"login", "loginCode"} \/ job'[p] = job[p]
      BY <1>0, <2>1, NextLine DEF RollbackStep, CommitStep, Ended
    <3> QED
      BY <1>3, <3>1 DEF Unbanning
  <2>3. CASE UserStep(p)
    <3>1. VisibleUser(p) = seen[p] /\ seen[p] \in User /\ draft'[p] = Written(p) /\ Written(p) # None
      BY <1>0, <2>3, WrittenSecret DEF UserStep
    <3>2. Banned(seen[p])
      BY <1>1, <2>1, <2>2, <3>1 DEF VisibleUser, BansInv
    <3>3. job[p] \in Job
      BY <1>0 DEF TypeOK
    <3>4. CASE Label(p) = "write"
      BY <1>0, <1>3, <2>2, <3>1, <3>2, <3>3, <3>4, WriteOps, ChangeKeepsBan DEF Written
    <3>5. CASE Label(p) # "write"
      BY <1>3, <3>1, <3>2, <3>5 DEF Written
    <3> QED
      BY <3>4, <3>5
  <2>4. CASE ~UserStep(p)
    <3>1. draft'[p] = draft[p]
      BY <1>0, <1>3, <2>4, Sources
    <3> QED
      BY <1>1, <1>3, <2>1, <2>2, <3>1 DEF BansInv
  <2> QED
    BY <2>3, <2>4
<1> QED
  BY <1>2, <1>3

\* Every step keeps bans in what is about to be committed.
LEMMA BansNext == Base /\ Typed /\ BansInv /\ [Next]_vars => BansInv'
<1> SUFFICES ASSUME Base, Typed, BansInv, [Next]_vars PROVE BansInv'
  OBVIOUS
<1>0. TypeOK
  BY DEF Base
<1>1. CASE \E p \in Request : Effect(p)
  BY <1>1, BansStep
<1>2. ASSUME NEW p \in Request, BeginStep(p)
      PROVE  BansInv'
  <2>1. /\ \A q \in Request : draft'[q] = draft[q] /\ (q # p => job'[q] = job[q])
        /\ user' = user /\ late' = late /\ cause' = cause /\ draft[p] = None
    BY <1>0, <1>2, OthersPointwise DEF BeginStep, Base, Slot
  <2>2. None \notin User
    BY AccountsAssumption
  <2> QED
    BY <2>1, <2>2 DEF BansInv, Banned
<1>3. CASE BanRunsOut
  <2>1. user' = user /\ user.ban = "early" /\ late' = TRUE
    BY <1>3 DEF BanRunsOut
  <2>2. ~Banned(user)'
    BY <2>1 DEF Banned
  <2> QED
    BY <2>2 DEF BansInv
<1>4. CASE UNCHANGED vars
  BY <1>4 DEF vars, tx, BansInv, Banned
<1> QED
  BY <1>0, <1>1, <1>2, <1>3, <1>4, NextEffect

\* A step ends a ban only as the property allows.
BanKept ==
  user # Gone /\ Banned(user) /\ late' = late
    => \/ user' = Gone \/ Banned(user')
       \/ "stale" \in cause
       \/ \E p \in Request : Label(p) = "commit" /\ job[p].op \in Unbanning

\* A commit ends a ban only as BanKept allows.
LEMMA BanStep == Base /\ BansInv /\ [Next]_vars => BanKept
<1> SUFFICES ASSUME Base, BansInv, [Next]_vars, user # Gone, Banned(user), "stale" \notin cause
             PROVE  \/ user' = Gone \/ Banned(user')
                    \/ \E p \in Request : Label(p) = "commit" /\ job[p].op \in Unbanning
  BY DEF BanKept
<1>0. TypeOK
  BY DEF Base
<1>1. ASSUME NEW p \in Request, Effect(p)
      PROVE  \/ user' = Gone \/ Banned(user')
             \/ Label(p) = "commit" /\ job[p].op \in Unbanning
  <2>1. CASE CommitStep(p)
    <3>1. user' = VisibleUser(p) /\ Label(p) = "commit"
      BY <2>1 DEF CommitStep
    <3>2. draft[p] \in User \cup {Gone, None}
      BY <1>0 DEF TypeOK
    <3> QED
      BY <3>1, <3>2 DEF VisibleUser, BansInv
  <2>2. CASE ~CommitStep(p)
    BY <1>1, <2>2, RowsStep
  <2> QED
    BY <2>1, <2>2
<1>2. ASSUME (\E p \in Request : BeginStep(p)) \/ BanRunsOut \/ UNCHANGED vars
      PROVE  user' = user
  BY <1>2 DEF BeginStep, BanRunsOut, vars
<1> QED
  BY <1>0, <1>1, <1>2, NextEffect

-----------------------------------------------------------------------------
(* The limit of sessions. *)

\* A request that issues a session has deleted the refresh tokens.
Holder(p) == From(p, {"login", "refresh"}, 6) \/ From(p, {"verify"}, 7)

\* One request at a time issues a session, and it holds all refresh tokens.
OneHolder ==
  /\ \A p, q \in Request : Holder(p) /\ Holder(q) => p = q
  /\ \A p \in Request : Holder(p) => Kind(rows, "token") \subseteq del[p]

Sessions(p) == Kind(Visible(p), "session")

\* What a request has counted still holds when it adds the session.
Counting(p) ==
  /\ Label(p) = "evict" =>
       /\ Cardinality(Sessions(p) \ {Session(pick[p])}) < MaxSessions
       /\ aim[p] # None /\ Session(pick[p]) \in Sessions(p) => Session(pick[p]) \in aim[p]
  /\ Label(p) = "addSession" => Cardinality(Sessions(p)) < MaxSessions
  /\ AddsSession(p) => Cardinality(Sessions(p)) <= MaxSessions

SessionsInv ==
  "missed" \notin cause =>
    /\ OneHolder
    /\ IsFiniteSet(Kind(rows, "session"))
    /\ Cardinality(Kind(rows, "session")) <= MaxSessions
    /\ \A p \in Request : Counting(p)

\* A request becomes a holder when it deletes the refresh tokens.
LEMMA HolderMoves ==
  ASSUME Base, TypeOK', NEW p \in Request, Effect(p), Holder(p)'
  PROVE  /\ job'[p] = job[p] /\ pc'[p] # 0
         /\ Holder(p) \/ (DropStep(p) /\ Label(p) = "dropTokens" /\ job[p].op \in Issuing)
<1>0. TypeOK /\ Slot(p)
  BY DEF Base
<1>1. /\ Label(p) = Line(job[p].op, pc[p]) /\ Standing(job[p].op, pc[p]) /\ pc[p] \in 0..12 /\ pc'[p] \in 0..12
  BY <1>0, AtLabel, AtLabelNext
<1>2. /\ \/ job'[p].op \in {"login", "refresh"} /\ pc'[p] >= 6
         \/ job'[p].op = "verify" /\ pc'[p] >= 7
  BY DEF Holder, From
<1>3. ~RollbackStep(p) /\ ~CommitStep(p) /\ pc'[p] # 0
  BY <1>1, <1>2 DEF RollbackStep, CommitStep, Ended
<1>4. job'[p] = job[p] /\ (pc'[p] = pc[p] \/ pc'[p] = pc[p] + 1)
  BY <1>0, <1>1, <1>2, <1>3, NextLine
<1>5. CASE pc'[p] = pc[p] \/ Holder(p)
  BY <1>2, <1>3, <1>4, <1>5 DEF Holder, From
<1>6. CASE pc'[p] = pc[p] + 1 /\ ~Holder(p)
  <2>1. \/ job[p].op \in {"login", "refresh"} /\ pc[p] = 5
        \/ job[p].op = "verify" /\ pc[p] = 6
    BY <1>1, <1>2, <1>4, <1>6 DEF Holder, From
  <2>2. Label(p) \notin (ReadLabels \cup (WriteLabels \ {"dropTokens"}))
    BY <1>1, <2>1 DEF Standing, ReadLabels, WriteLabels, DropLabels, AddLabels, Edits
  <2>3. ~WaitStep(p)
    BY <1>1, <1>6 DEF WaitStep
  <2>4. DropStep(p) /\ Label(p) = "dropTokens"
    BY <1>3, <2>2, <2>3, StepLabel DEF WriteLabels, DropLabels, AddLabels
  <2> QED
    BY <1>3, <1>4, <2>1, <2>4 DEF Issuing
<1> QED
  BY <1>4, <1>5, <1>6

\* Sessions and refresh tokens are inserted by a holder.
LEMMA HoldersInsert ==
  ASSUME Base, NEW p \in Request, NEW r \in ins[p], r.kind \in {"token", "session"}
  PROVE  Holder(p)
<1>1. pc[p] \in Int
  BY AtLabel DEF Base
<1>2. AddsToken(p) \/ AddsSession(p)
  BY DEF Base, Shape
<1> QED
  BY <1>1, <1>2 DEF AddsToken, AddsSession, Holder, From

\* What a holder does not see, nobody else makes visible.
LEMMA NewRowsOfHolder ==
  ASSUME Base, OneHolder, NEW p \in Request, Effect(p), NEW q \in Request, Holder(q), q # p,
         NEW k \in {"token", "session"}
  PROVE  Kind(rows', k) \subseteq Kind(rows, k)
<1>1. \A r \in ins[p] : r.kind \notin {"token", "session"}
  BY HoldersInsert DEF OneHolder
<1>2. rows' = rows \/ rows' = (rows \ del[p]) \cup ins[p]
  BY RowsStep DEF CommitStep, Visible
<1> QED
  BY <1>1, <1>2 DEF Kind

\* Refresh tokens: at the deleteMany of another request there is one to wait for.
LEMMA HolderAlone ==
  ASSUME Base, TypeOK', TokensInv, OneHolder, NEW p \in Request, Effect(p), "missed" \notin cause',
         Holder(p)', ~Holder(p), NEW q \in Request, q # p
  PROVE  ~Holder(q)
<1> SUFFICES ASSUME Holder(q) PROVE FALSE
  OBVIOUS
<1>0. /\ TypeOK /\ Apart(p, q) /\ Apart(q, p) /\ Slot(p) /\ Slot(q) /\ Shape(p) /\ Shape(q)
      /\ pc[p] \in Int /\ pc[q] \in Int
  BY AtLabel DEF Base
<1>1. DropStep(p) /\ Label(p) = "dropTokens" /\ job[p].op \in Issuing
  BY HolderMoves
<1>2. Aim(p) \subseteq Aimed(p) /\ Blockers(p) = {}
  BY <1>1 DEF DropStep, WriteStep
<1>3. ASSUME NEW t \in Kind(rows, "token")
      PROVE  FALSE
  <2>1. t \in del[q]
    BY <1>3 DEF OneHolder
  <2>2. t \in Aim(p)
    BY <1>0, <1>1, <1>3, <2>1 DEF Apart, Aim, Visible, Kind
  <2> QED
    BY <1>2, <2>1, <2>2 DEF Blockers, Others
<1>4. ASSUME NEW s \in Request, From(s, {"refresh"}, 5)
      PROVE  FALSE
  <2>1. Token(job[s].n) \in rows
    BY <1>4 DEF TokensInv, Refreshing, Base, Slot
  <2> QED
    BY <1>3, <2>1, TokenItem DEF Kind
<1>5. From(p, {"refresh"}, 5) \/ From(p, {"login", "verify"}, 4)
  <2>1. Label(p) = Line(job[p].op, pc[p]) /\ Standing(job[p].op, pc[p])
    BY <1>0, AtLabel
  <2> QED
    BY <1>0, <1>1, <2>1 DEF Standing, Issuing, From
<1>6. From(q, {"refresh"}, 5) \/ From(q, {"login", "verify"}, 4)
  BY <1>0 DEF Holder, From
<1>7. ASSUME NEW s \in Request, From(s, {"login", "verify"}, 4)
      PROVE  draft[s] # None
  BY <1>7, AccountsAssumption DEF Base, Shape
<1> QED
  BY <1>0, <1>4, <1>5, <1>6, <1>7 DEF Apart

\* At most one request at a time is past the deletion of the refresh tokens.
LEMMA HoldersStep ==
  ASSUME Base, TypeOK', TokensInv, OneHolder, NEW p \in Request, Effect(p), "missed" \notin cause'
  PROVE  OneHolder'
<1>0. TypeOK
  BY DEF Base
<1>1. ASSUME NEW q \in Request, q # p
      PROVE  /\ Holder(q)' <=> Holder(q)
             /\ del'[q] = del[q]
  BY <1>0, <1>1, OthersPointwise DEF Effect, Holder, From
<1>2. ASSUME NEW q \in Request, NEW s \in Request, Holder(q)', Holder(s)'
      PROVE  q = s
  <2>1. CASE Holder(p)' /\ ~Holder(p)
    BY <1>1, <1>2, <2>1, HolderAlone
  <2>2. CASE Holder(p)' => Holder(p)
    BY <1>1, <1>2, <2>2 DEF OneHolder
  <2> QED
    BY <2>1, <2>2
<1>3. ASSUME NEW q \in Request, Holder(q)'
      PROVE  Kind(rows', "token") \subseteq del'[q]
  <2>1. CASE q # p
    <3>1. Kind(rows', "token") \subseteq Kind(rows, "token")
      BY <1>1, <1>3, <2>1, NewRowsOfHolder
    <3>2. Kind(rows, "token") \subseteq del[q]
      BY <1>1, <1>3, <2>1 DEF OneHolder
    <3> QED
      BY <1>1, <2>1, <3>1, <3>2
  <2>2. CASE q = p
    <3>1. pc'[p] # 0 /\ (Holder(p) \/ (DropStep(p) /\ Label(p) = "dropTokens" /\ job[p].op \in Issuing))
      BY <1>3, <2>2, HolderMoves
    <3>2. rows' = rows
      BY <3>1, RowsStep DEF CommitStep, Ended
    <3>3. CASE Holder(p)
      BY <2>2, <3>1, <3>2, <3>3, DelGrows DEF OneHolder
    <3>4. CASE DropStep(p) /\ Label(p) = "dropTokens" /\ job[p].op \in Issuing
      <4>1. Aim(p) \subseteq Aimed(p) /\ del'[p] = del[p] \cup (Aimed(p) \cap rows)
        BY <3>4 DEF DropStep, WriteStep
      <4>2. Kind(rows, "token") \subseteq del[p] \cup Aim(p)
        BY <3>4 DEF Aim, Visible, Kind
      <4>3. Kind(rows, "token") \subseteq rows
        BY DEF Kind
      <4> QED
        BY <2>2, <3>2, <4>1, <4>2, <4>3
    <3> QED
      BY <3>1, <3>3, <3>4
  <2> QED
    BY <2>1, <2>2
<1> QED
  BY <1>2, <1>3 DEF OneHolder

\* A part of a finite set is finite and no larger.
LEMMA Fewer ==
  ASSUME NEW S, IsFiniteSet(S), NEW T, T \subseteq S
  PROVE  /\ IsFiniteSet(T) /\ Cardinality(T) <= Cardinality(S)
         /\ Cardinality(T) \in Nat /\ Cardinality(S) \in Nat
<1>1. T \in SUBSET S
  OBVIOUS
<1>2. IsFiniteSet(T) /\ Cardinality(T) <= Cardinality(S)
  BY <1>1, FS_Subset
<1> QED
  BY <1>2, FS_CardinalityType

\* A request sees the committed sessions, and the one it has inserted.
LEMMA SessionsFinite ==
  ASSUME Base, IsFiniteSet(Kind(rows, "session")), NEW p \in Request
  PROVE  /\ IsFiniteSet(Sessions(p))
         /\ ~AddsSession(p) => Sessions(p) \subseteq Kind(rows, "session")
<1>0. \A r \in ins[p] : r \in Item /\ (r.kind = "session" => AddsSession(p) /\ r.of = new[p])
  BY DEF Base, TypeOK, Shape
<1>1. Sessions(p) \subseteq Kind(rows, "session") \cup {Session(new[p])}
  BY <1>0 DEF Sessions, Visible, Kind, Item, Session
<1>2. IsFiniteSet(Kind(rows, "session") \cup {Session(new[p])})
  BY FS_AddElement
<1>3. ~AddsSession(p) => Sessions(p) \subseteq Kind(rows, "session")
  BY <1>0 DEF Sessions, Visible, Kind
<1> QED
  BY <1>1, <1>2, <1>3, Fewer

\* Who counts and adds sessions is a holder.
LEMMA CountingHolds ==
  ASSUME Base, NEW p \in Request, Label(p) \in {"evict", "addSession"} \/ AddsSession(p)
  PROVE  Holder(p)
<1>1. Label(p) = Line(job[p].op, pc[p]) /\ Standing(job[p].op, pc[p]) /\ pc[p] \in 0..12
  BY AtLabel DEF Base
<1> QED
  BY <1>1 DEF Standing, Holder, AddsSession, From

\* Other requests only take away from what a holder has counted.
LEMMA CountingOthers ==
  ASSUME Base, TypeOK', OneHolder, IsFiniteSet(Kind(rows, "session")), NEW p \in Request, Effect(p),
         NEW q \in Request, q # p, Counting(q)
  PROVE  Counting(q)'
<1>0. TypeOK /\ MaxSessions \in Nat
  BY AccountsAssumption DEF Base
<1>1. /\ job'[q] = job[q] /\ pc'[q] = pc[q] /\ pick'[q] = pick[q] /\ aim'[q] = aim[q]
      /\ ins'[q] = ins[q] /\ del'[q] = del[q]
  BY <1>0, OthersPointwise DEF Effect
<1>2. Label(q)' = Label(q)
  BY <1>0, <1>1, AtLabel, AtLabelNext
<1>3. AddsSession(q)' <=> AddsSession(q)
  BY <1>1 DEF AddsSession, From
<1>4. CASE ~Holder(q)
  BY <1>2, <1>3, <1>4, CountingHolds DEF Counting
<1>5. CASE Holder(q)
  <2>1. Sessions(q)' \subseteq Sessions(q)
    BY <1>1, <1>5, NewRowsOfHolder DEF Sessions, Visible, Kind
  <2>2. IsFiniteSet(Sessions(q))
    BY SessionsFinite
  <2> DEFINE S == Sessions(q)
             T == Sessions(q)'
             x == Session(pick[q])
  <2>3. Cardinality(T) <= Cardinality(S) /\ Cardinality(T) \in Nat /\ Cardinality(S) \in Nat
    BY <2>1, <2>2, Fewer
  <2>4. Cardinality(T \ {x}) <= Cardinality(S \ {x}) /\ Cardinality(T \ {x}) \in Nat /\ Cardinality(S \ {x}) \in Nat
    <3>1. IsFiniteSet(S \ {x}) /\ T \ {x} \subseteq S \ {x}
      BY <2>1, <2>2, FS_RemoveElement
    <3> QED
      BY <3>1, Fewer
  <2> HIDE DEF S, T, x
  <2>5. Label(q) = "evict" => /\ Cardinality(T \ {x}) < MaxSessions
                              /\ aim[q] # None /\ x \in T => x \in aim[q]
    BY <1>0, <2>1, <2>4 DEF Counting, S, T, x
  <2>6. /\ Label(q) = "addSession" => Cardinality(T) < MaxSessions
        /\ AddsSession(q) => Cardinality(T) <= MaxSessions
    BY <1>0, <2>3 DEF Counting, S
  <2>7. Session(pick[q])' = x
    BY <1>1 DEF x, Session
  <2> QED
    BY <1>1, <1>2, <1>3, <2>5, <2>6, <2>7 DEF Counting, T
<1> QED
  BY <1>4, <1>5

\* The statements before those that count, remove and add a session.
LEMMA BeforeCounting ==
  ASSUME TypeOK, TypeOK', NEW p \in Request, job'[p] = job[p], pc'[p] = pc[p] + 1,
         Label(p) \in ReadLabels \cup WriteLabels
  PROVE  /\ Label(p)' = "evict" => Label(p) = "room" /\ ~AddsSession(p)
         /\ Label(p)' = "addSession" => Label(p) = "evict"
         /\ AddsSession(p)' => Label(p) = "addSession"
         /\ Label(p)' \notin {"evict", "addSession"} \/ ~AddsSession(p)'
<1>1. /\ Label(p) = Line(job[p].op, pc[p]) /\ Standing(job[p].op, pc[p]) /\ pc[p] \in 0..12
      /\ Label(p)' = Line(job[p].op, pc'[p]) /\ Standing(job[p].op, pc'[p])
  BY AtLabel, AtLabelNext
<1>2. ASSUME Label(p)' = "evict"
      PROVE  Label(p) = "room" /\ ~AddsSession(p)
  <2>1. \/ job[p].op = "login" /\ pc[p] = 7
        \/ job[p].op = "verify" /\ pc[p] = 8
        \/ job[p].op = "refresh" /\ pc[p] = 9
    BY <1>1, <1>2 DEF Standing
  <2>2. Label(p) \notin (WriteLabels \cup (ReadLabels \ {"room"}))
    BY <1>1, <2>1 DEF Standing, ReadLabels, WriteLabels, DropLabels, AddLabels, Edits
  <2> QED
    BY <2>1, <2>2 DEF AddsSession, From
<1>3. ASSUME Label(p)' = "addSession"
      PROVE  Label(p) = "evict"
  <2>1. \/ job[p].op = "login" /\ pc[p] = 8
        \/ job[p].op = "verify" /\ pc[p] = 9
        \/ job[p].op = "refresh" /\ pc[p] = 10
    BY <1>1, <1>3 DEF Standing
  <2>2. Label(p) \notin (ReadLabels \cup (WriteLabels \ {"evict"}))
    BY <1>1, <2>1 DEF Standing, ReadLabels, WriteLabels, DropLabels, AddLabels, Edits
  <2> QED
    BY <2>2
<1>4. ASSUME AddsSession(p)'
      PROVE  Label(p) = "addSession"
  <2>1. \/ job[p].op = "login" /\ pc[p] >= 9
        \/ job[p].op = "verify" /\ pc[p] >= 10
        \/ job[p].op = "refresh" /\ pc[p] >= 11
    BY <1>1, <1>4 DEF AddsSession, From
  <2>2. Label(p) \notin (ReadLabels \cup (WriteLabels \ {"addSession"}))
    BY <1>1, <2>1 DEF Standing, ReadLabels, WriteLabels, DropLabels, AddLabels, Edits
  <2> QED
    BY <2>2
<1>5. Label(p)' \notin {"evict", "addSession"} \/ ~AddsSession(p)'
  BY <1>2, <1>3, <1>4
<1> QED
  BY <1>2, <1>3, <1>4, <1>5

\* There are as many sessions as numbers of sessions.
LEMMA SessionNumbers ==
  ASSUME TypeOK, NEW p \in Request, IsFiniteSet(Sessions(p)), NEW S, S = {r.of : r \in Sessions(p)}
  PROVE  Cardinality(Sessions(p)) <= Cardinality(S) /\ Cardinality(S) \in Nat
<1>0. \A r \in Sessions(p) : r = Session(r.of)
  BY AimType DEF Sessions, Kind, Session, Item
<1> DEFINE f == [r \in Sessions(p) |-> r.of]
           g == [n \in S |-> Session(n)]
<1>1. f \in Surjection(Sessions(p), S)
  BY DEF Surjection
<1>2. IsFiniteSet(S)
  BY <1>1, FS_Surjection
<1>3. g \in Surjection(S, Sessions(p))
  <2>1. g \in [S -> Sessions(p)]
    BY <1>0
  <2>2. \A r \in Sessions(p) : r.of \in S /\ g[r.of] = r
    BY <1>0
  <2> QED
    BY <2>1, <2>2 DEF Surjection
<1>4. Cardinality(Sessions(p)) <= Cardinality(S)
  BY <1>2, <1>3, FS_Surjection
<1> QED
  BY <1>2, <1>4, FS_CardinalityType

\* The oldest session is chosen from those that are counted.
LEMMA RoomCounts ==
  ASSUME Base, IsFiniteSet(Kind(rows, "session")), Cardinality(Kind(rows, "session")) <= MaxSessions,
         NEW p \in Request, ReadStep(p), Label(p) = "room", ~AddsSession(p)
  PROVE  Cardinality(Sessions(p) \ {Session(pick'[p])}) < MaxSessions
<1> DEFINE S == {r.of : r \in Kind(Visible(p), "session")}
           x == Session(pick'[p])
<1>0. TypeOK /\ MaxSessions \in Nat /\ IsFiniteSet(Sessions(p)) /\ S = {r.of : r \in Sessions(p)}
  BY AccountsAssumption, SessionsFinite DEF Base, Sessions
<1>1. Cardinality(Sessions(p)) <= MaxSessions /\ Cardinality(Sessions(p)) \in Nat
  <2>1. Sessions(p) \subseteq Kind(rows, "session")
    BY SessionsFinite
  <2>2. /\ Cardinality(Sessions(p)) <= Cardinality(Kind(rows, "session"))
        /\ Cardinality(Sessions(p)) \in Nat /\ Cardinality(Kind(rows, "session")) \in Nat
    BY <2>1, Fewer
  <2> QED
    BY <1>0, <2>2
<1>2. Cardinality(Sessions(p)) <= Cardinality(S) /\ Cardinality(S) \in Nat
  BY <1>0, SessionNumbers
<1>3. pick'[p] = IF Cardinality(S) >= MaxSessions THEN CHOOSE n \in S : \A k \in S : n <= k ELSE pick[p]
  BY DEF ReadStep
<1>4. /\ IsFiniteSet(Sessions(p) \ {x})
      /\ Cardinality(Sessions(p) \ {x}) =
           IF x \in Sessions(p) THEN Cardinality(Sessions(p)) - 1 ELSE Cardinality(Sessions(p))
  BY <1>0, FS_RemoveElement
<1>5. CASE Cardinality(S) >= MaxSessions
  <2>1. pick'[p] \in S
    BY <1>0, <1>3, <1>5, OldestSession
  <2>2. PICK r \in Sessions(p) : pick'[p] = r.of
    BY <1>0, <2>1
  <2>3. r = x
    BY <1>0, <2>2, AimType DEF Sessions, Kind, Session, Item
  <2> HIDE DEF x, S
  <2>4. Cardinality(Sessions(p) \ {x}) < MaxSessions
    BY <1>0, <1>1, <1>4, <2>3
  <2> QED
    BY <2>4 DEF x
<1>6. CASE ~(Cardinality(S) >= MaxSessions)
  <2> HIDE DEF x, S
  <2>1. Cardinality(Sessions(p)) < MaxSessions
    BY <1>0, <1>1, <1>2, <1>6
  <2>2. Cardinality(Sessions(p) \ {x}) <= Cardinality(Sessions(p)) /\ Cardinality(Sessions(p) \ {x}) \in Nat
    BY <1>1, <1>4, FS_CardinalityType
  <2>3. Cardinality(Sessions(p) \ {x}) < MaxSessions
    BY <1>0, <1>1, <2>1, <2>2
  <2> QED
    BY <2>3 DEF x
<1> QED
  BY <1>5, <1>6

\* A request counts, removes the oldest session if there is no room, and adds its own.
LEMMA CountingSelf ==
  ASSUME Base, TypeOK', IsFiniteSet(Kind(rows, "session")), Cardinality(Kind(rows, "session")) <= MaxSessions,
         NEW p \in Request, Effect(p), Counting(p)
  PROVE  Counting(p)'
<1>0. TypeOK /\ Slot(p) /\ MaxSessions \in Nat /\ IsFiniteSet(Sessions(p)) /\ (MaxSessions # 0)
  BY AccountsAssumption, SessionsFinite DEF Base
<1>1. CASE RollbackStep(p) \/ CommitStep(p)
  <2>1. pc'[p] = 0 /\ job'[p] = NoJob
    BY <1>1 DEF RollbackStep, CommitStep, Ended
  <2>2. Label(p)' = "free"
    BY <2>1, AtLabelNext DEF Line
  <2>3. ~AddsSession(p)'
    BY <2>1 DEF AddsSession, From, NoJob
  <2> QED
    BY <2>2, <2>3 DEF Counting
<1>2. CASE WaitStep(p)
  <2>1. /\ job'[p] = job[p] /\ pc'[p] = pc[p] /\ pick'[p] = pick[p] /\ aim'[p] = Aim(p)
        /\ ins'[p] = ins[p] /\ del'[p] = del[p] /\ rows' = rows
    BY <1>2 DEF WaitStep
  <2>2. Label(p)' = Label(p)
    BY <1>0, <2>1, AtLabel, AtLabelNext
  <2>3. Sessions(p)' = Sessions(p) /\ Session(pick[p])' = Session(pick[p])
    BY <2>1 DEF Sessions, Visible, Kind, Session
  <2>4. AddsSession(p)' <=> AddsSession(p)
    BY <2>1 DEF AddsSession, From
  <2>5. Label(p) = "evict" /\ Session(pick[p]) \in Sessions(p) => Session(pick[p]) \in Aim(p)
    BY DEF Aim, Sessions, Kind
  <2> QED
    BY <2>1, <2>2, <2>3, <2>4, <2>5 DEF Counting
<1>3. CASE ReadStep(p) /\ ~(job'[p] = job[p] /\ pc'[p] = pc[p] + 1)
  <2>1. job'[p].op \in {"ban", "banUntil", "unban", "loginCode"}
    <3>1. job[p] \in Job /\ Standing(job[p].op, pc[p]) /\ Label(p) = Line(job[p].op, pc[p])
      BY <1>0, AtLabel DEF TypeOK
    <3>2. Label(p) \in {"unlessBanned", "onlyBanned"} => job[p].op \in {"ban", "banUntil", "unban"}
      BY <3>1 DEF Standing
    <3>3. [job[p] EXCEPT !.op = "loginCode"].op = "loginCode"
      BY <3>1 DEF Job
    <3> QED
      BY <1>3, <3>2, <3>3 DEF ReadStep
  <2>2. Label(p)' \notin {"evict", "addSession"}
    BY <2>1, AtLabelNext DEF Standing
  <2>3. ~AddsSession(p)'
    BY <2>1 DEF AddsSession, From
  <2> QED
    BY <2>2, <2>3 DEF Counting
<1>4. CASE ReadStep(p) /\ job'[p] = job[p] /\ pc'[p] = pc[p] + 1
  <2>0. Label(p) \in ReadLabels /\ Label(p) \notin WriteLabels
    BY <1>4, LabelKinds DEF ReadStep
  <2>1. /\ ins'[p] = ins[p] /\ del'[p] = del[p] /\ rows' = rows /\ aim'[p] = aim[p] /\ aim[p] = None
    BY <1>0, <1>4, <2>0 DEF ReadStep, Slot
  <2>2. Sessions(p)' = Sessions(p) /\ Session(pick[p])' = Session(pick'[p])
    BY <2>1 DEF Sessions, Visible, Kind, Session
  <2>3. /\ Label(p)' = "evict" => Label(p) = "room" /\ ~AddsSession(p)
        /\ Label(p)' # "addSession" /\ ~AddsSession(p)'
    <3>1. Label(p) # "evict" /\ Label(p) # "addSession"
      BY <2>0 DEF WriteLabels, DropLabels, AddLabels
    <3> QED
      BY <1>0, <1>4, <2>0, <3>1, BeforeCounting
  <2>4. Label(p)' = "evict" => Cardinality(Sessions(p) \ {Session(pick'[p])}) < MaxSessions
    BY <1>4, <2>3, RoomCounts
  <2> QED
    BY <2>1, <2>2, <2>3, <2>4 DEF Counting
<1>5. CASE DropStep(p) \/ MarkStep(p) \/ UserStep(p) \/ InsertStep(p) \/ EraseStep(p)
  <2>1. /\ job'[p] = job[p] /\ pc'[p] = pc[p] + 1 /\ rows' = rows
        /\ Label(p) \in WriteLabels /\ Label(p) \notin ReadLabels
    BY <1>5, LabelKinds DEF DropStep, MarkStep, UserStep, InsertStep, EraseStep, WriteStep, WriteLabels
  <2>2. /\ Label(p)' # "evict"
        /\ Label(p)' = "addSession" => Label(p) = "evict"
        /\ AddsSession(p)' => Label(p) = "addSession"
        /\ Label(p)' \notin {"evict", "addSession"} \/ ~AddsSession(p)'
    <3>1. Label(p) # "room"
      BY <2>1 DEF ReadLabels
    <3> QED
      BY <1>0, <2>1, <3>1, BeforeCounting
  <2>3. CASE Label(p) = "evict"
    <3>1. DropStep(p)
      BY <1>5, <2>3 DEF MarkStep, UserStep, InsertStep, EraseStep, AddLabels
    <3>2. Sessions(p)' \subseteq Sessions(p) \ Aimed(p)
      BY <2>1, <3>1 DEF DropStep, WriteStep, Sessions, Visible, Kind
    <3>3. Session(pick[p]) \in Sessions(p) => Session(pick[p]) \in Aimed(p)
      BY <2>3 DEF Counting, Aimed, Aim, Sessions, Kind
    <3>4. Sessions(p)' \subseteq Sessions(p) \ {Session(pick[p])}
      BY <3>2, <3>3
    <3> DEFINE T == Sessions(p)'
               S == Sessions(p) \ {Session(pick[p])}
    <3>5. Cardinality(T) <= Cardinality(S) /\ Cardinality(T) \in Nat /\ Cardinality(S) \in Nat
      <4>1. IsFiniteSet(S)
        BY <1>0, FS_RemoveElement
      <4> QED
        BY <3>4, <4>1, Fewer
    <3>6. Cardinality(S) < MaxSessions
      BY <2>3 DEF Counting
    <3> HIDE DEF S, T
    <3>7. Cardinality(T) < MaxSessions
      BY <1>0, <3>5, <3>6
    <3> QED
      BY <2>2, <2>3, <3>7 DEF Counting, T
  <2>4. CASE Label(p) = "addSession"
    <3>1. InsertStep(p) /\ Row(p) = Session(new[p])
      BY <1>5, <2>4 DEF DropStep, MarkStep, UserStep, EraseStep, DropLabels, Row
    <3>2. Sessions(p)' \subseteq Sessions(p) \cup {Row(p)}
      BY <2>1, <3>1 DEF InsertStep, WriteStep, Sessions, Visible, Kind
    <3>3. Cardinality(Sessions(p)) < MaxSessions
      BY <2>4 DEF Counting
    <3> DEFINE T == Sessions(p)'
               S == Sessions(p) \cup {Row(p)}
    <3>4. IsFiniteSet(S) /\ (Cardinality(S) = Cardinality(Sessions(p)) \/ Cardinality(S) = Cardinality(Sessions(p)) + 1)
      BY <1>0, FS_AddElement
    <3>5. Cardinality(T) <= Cardinality(S) /\ Cardinality(T) \in Nat /\ Cardinality(S) \in Nat
      BY <3>2, <3>4, Fewer
    <3>6. Cardinality(Sessions(p)) \in Nat
      BY <1>0, FS_CardinalityType
    <3> HIDE DEF S, T
    <3>7. Cardinality(T) <= MaxSessions
      BY <1>0, <3>3, <3>4, <3>5, <3>6
    <3> QED
      BY <2>2, <2>4, <3>7 DEF Counting, T
  <2>5. CASE Label(p) \notin {"evict", "addSession"}
    BY <2>2, <2>5 DEF Counting
  <2> QED
    BY <2>3, <2>4, <2>5
<1> QED
  BY <1>1, <1>2, <1>3, <1>4, <1>5 DEF Effect

\* A step keeps the limit of sessions (enforceMaxActiveSessions).
LEMMA SessionsStep ==
  ASSUME Base, TypeOK', TokensInv, SessionsInv, NEW p \in Request, Effect(p)
  PROVE  SessionsInv'
<1> SUFFICES ASSUME "missed" \notin cause'
             PROVE  /\ OneHolder'
                    /\ IsFiniteSet(Kind(rows', "session"))
                    /\ Cardinality(Kind(rows', "session")) <= MaxSessions
                    /\ \A q \in Request : Counting(q)'
  BY DEF SessionsInv, Kind
<1>0. MaxSessions \in Nat /\ "missed" \notin cause
  BY Sources, AccountsAssumption
<1>1. /\ OneHolder
      /\ IsFiniteSet(Kind(rows, "session"))
      /\ Cardinality(Kind(rows, "session")) <= MaxSessions
      /\ \A q \in Request : Counting(q)
  BY <1>0 DEF SessionsInv
<1>2. OneHolder'
  BY <1>1, HoldersStep
<1>3. \A q \in Request : Counting(q)'
  BY <1>1, CountingSelf, CountingOthers
<1>4. IsFiniteSet(Kind(rows', "session")) /\ Cardinality(Kind(rows', "session")) <= MaxSessions
  <2>1. CASE CommitStep(p)
    <3>1. Kind(rows', "session") = Sessions(p)
      BY <2>1 DEF CommitStep, Sessions
    <3>2. CASE AddsSession(p)
      BY <1>1, <3>1, <3>2, SessionsFinite DEF Counting
    <3>3. CASE ~AddsSession(p)
      <4>1. Sessions(p) \subseteq Kind(rows, "session")
        BY <1>1, <3>3, SessionsFinite
      <4>2. /\ IsFiniteSet(Sessions(p)) /\ Cardinality(Sessions(p)) <= Cardinality(Kind(rows, "session"))
            /\ Cardinality(Sessions(p)) \in Nat /\ Cardinality(Kind(rows, "session")) \in Nat
        BY <1>1, <4>1, Fewer
      <4> QED
        BY <1>0, <1>1, <3>1, <4>2
    <3> QED
      BY <3>2, <3>3
  <2>2. CASE ~CommitStep(p)
    <3>1. Kind(rows', "session") = Kind(rows, "session")
      BY <2>2, RowsStep DEF Kind
    <3> QED
      BY <1>1, <3>1
  <2> QED
    BY <2>1, <2>2
<1> QED
  BY <1>2, <1>3, <1>4

\* Every step of the system keeps the limit.
LEMMA SessionsNext ==
  ASSUME Base, TypeOK', TokensInv, SessionsInv, [Next]_vars
  PROVE  SessionsInv'
<1>0. TypeOK
  BY DEF Base
<1>1. CASE \E p \in Request : Effect(p)
  BY <1>1, SessionsStep
<1>2. ASSUME NEW p \in Request, BeginStep(p)
      PROVE  SessionsInv'
  <2>1. /\ rows' = rows /\ cause' = cause /\ pc'[p] = 1 /\ pc[p] = 0
        /\ \A q \in Request : del'[q] = del[q] /\ ins'[q] = ins[q] /\ aim'[q] = aim[q] /\ pick'[q] = pick[q]
        /\ \A q \in Request : q # p => job'[q] = job[q] /\ pc'[q] = pc[q]
    BY <1>0, <1>2, OthersPointwise DEF BeginStep
  <2>2. ASSUME NEW q \in Request
        PROVE  Sessions(q)' = Sessions(q) /\ Session(pick[q])' = Session(pick[q])
    BY <2>1 DEF Sessions, Visible, Kind, Session
  <2>3. ~Holder(p)' /\ ~AddsSession(p)' /\ Label(p)' \notin {"evict", "addSession"}
    <3>1. ~Holder(p)' /\ ~AddsSession(p)'
      BY <2>1 DEF Holder, AddsSession, From
    <3>2. Label(p)' \notin {"evict", "addSession"}
      BY <2>1, AtLabelNext DEF Standing
    <3> QED
      BY <3>1, <3>2
  <2>4. ASSUME NEW q \in Request, q # p
        PROVE  /\ Holder(q)' <=> Holder(q)
               /\ AddsSession(q)' <=> AddsSession(q)
               /\ Label(q)' = Label(q)
    <3>1. (Holder(q)' <=> Holder(q)) /\ (AddsSession(q)' <=> AddsSession(q))
      BY <2>1, <2>4 DEF Holder, AddsSession, From
    <3>2. Label(q)' = Label(q)
      BY <1>0, <2>1, <2>4, AtLabel, AtLabelNext
    <3> QED
      BY <3>1, <3>2
  <2>5. ASSUME NEW q \in Request, Counting(q)
        PROVE  Counting(q)'
    <3>1. CASE q = p
      BY <2>3, <3>1 DEF Counting
    <3>2. CASE q # p
      BY <2>1, <2>2, <2>4, <2>5, <3>2 DEF Counting
    <3> QED
      BY <3>1, <3>2
  <2>6. OneHolder => OneHolder'
    BY <2>1, <2>3, <2>4 DEF OneHolder
  <2> QED
    BY <2>1, <2>5, <2>6 DEF SessionsInv
<1>3. CASE BanRunsOut \/ UNCHANGED vars
  <2>1. rows' = rows /\ cause' = cause /\ UNCHANGED tx
    BY <1>3 DEF BanRunsOut, vars
  <2>2. OneHolder => OneHolder'
    BY <2>1 DEF tx, OneHolder, Holder, From
  <2>3. ASSUME NEW q \in Request, Counting(q)
        PROVE  Counting(q)'
    BY <2>1, <2>3 DEF tx, Counting, Label, Sessions, Visible, AddsSession, From
  <2> QED
    BY <2>1, <2>2, <2>3 DEF SessionsInv
<1> QED
  BY <1>0, <1>1, <1>2, <1>3, NextEffect

\* The limit holds at the start.
LEMMA SessionsInit == Init => SessionsInv
<1> SUFFICES ASSUME Init PROVE SessionsInv
  OBVIOUS
<1>0. MaxSessions \in Nat
  BY AccountsAssumption
<1>1. \A p \in Request : pc[p] = 0 /\ job[p].op = "loginCode"
  BY DEF Init, NoJob
<1>2. \A p \in Request : ~Holder(p) /\ ~AddsSession(p) /\ Label(p) = "free"
  BY <1>1 DEF Holder, AddsSession, From, Label
<1> DEFINE f == [n \in 1..MaxSessions |-> Session(n)]
           S == {Session(n) : n \in 1..MaxSessions}
<1>3. IsFiniteSet(1..MaxSessions) /\ Cardinality(1..MaxSessions) <= MaxSessions /\ Cardinality(1..MaxSessions) \in Nat
  BY <1>0, FS_Interval
<1>4. f \in Surjection(1..MaxSessions, S)
  BY DEF Surjection
<1>5. IsFiniteSet(S) /\ Cardinality(S) <= Cardinality(1..MaxSessions)
  BY <1>3, <1>4, FS_Surjection
<1>6. Kind(rows, "session") \subseteq S
  BY DEF Init, Kind, Code, Roles, Token, Reset, Verified
<1> HIDE DEF S
<1>7. /\ IsFiniteSet(Kind(rows, "session")) /\ Cardinality(Kind(rows, "session")) <= Cardinality(S)
      /\ Cardinality(Kind(rows, "session")) \in Nat /\ Cardinality(S) \in Nat
  BY <1>5, <1>6, Fewer
<1>8. Cardinality(Kind(rows, "session")) <= MaxSessions
  BY <1>0, <1>3, <1>5, <1>7
<1> QED
  BY <1>2, <1>7, <1>8 DEF SessionsInv, OneHolder, Counting

-----------------------------------------------------------------------------
(* Keys: who changes the address, or deletes the user, works alone. *)

KeysInv ==
  "stale" \notin cause =>
    /\ \A p \in Request :
         draft[p] \in User /\ job[p].op \notin {"mail", "adminMail"} => draft[p].mail = user.mail
    /\ \A p, q \in Request : p # q => ~(ChangesKey(p) /\ HasReferring(q))

\* Only a change of the address changes the address.
LEMMA ChangeMail ==
  ASSUME NEW u \in User, NEW j \in Job, Change(j, u) # None, j.op \notin {"mail", "adminMail"},
         j.op \in {"verify", "mail", "adminMail", "ban", "banUntil", "unban", "password", "reset",
                   "activate", "deactivate", "addRole", "removeRole", "adminPassword"} \cup Edits
  PROVE  Change(j, u).mail = u.mail
<1>1. CASE j.op \in Passwords
  BY <1>1 DEF Change, ChangePassword, Passwords, User
<1>a. Activate(u) # None => Activate(u).mail = u.mail
  BY DEF Activate, User
<1>b. /\ Deactivate(u).mail = u.mail /\ MarkEmailAsVerified(u).mail = u.mail
      /\ PermanentlyBanUser(u).mail = u.mail /\ UnbanUser(u).mail = u.mail
  BY DEF Deactivate, MarkEmailAsVerified, PermanentlyBanUser, UnbanUser, User
<1>c. BanUser(u).mail = u.mail
  BY DEF BanUser, User
<1>2. CASE j.op \in {"verify", "activate", "deactivate", "ban", "banUntil", "unban"}
  <2>1. Change(j, u) \in {MarkEmailAsVerified(u), Activate(u), Deactivate(u), PermanentlyBanUser(u), BanUser(u),
                          UnbanUser(u)}
    BY <1>2 DEF Change
  <2> QED
    BY <1>a, <1>b, <1>c, <2>1
<1>3. CASE j.op \in {"addRole", "removeRole"}
  BY <1>3 DEF Change, AddRole, RemoveRole, User
<1>4. CASE j.op \in Edits
  <2>1. Change(j, u) = UpdateUserProfile(j.op, u)
    BY <1>4 DEF Change, Edits
  <2>2. UpdateUserProfile(j.op, u) \in {Activate(u), Deactivate(u), MarkEmailAsVerified(u), BanUser(u), UnbanUser(u)}
    BY <1>4 DEF UpdateUserProfile, Edits
  <2> QED
    BY <1>a, <1>b, <1>c, <2>1, <2>2
<1> QED
  BY <1>1, <1>2, <1>3, <1>4 DEF Passwords

\* The address a request writes is the one it has read, unless it changes it.
LEMMA WrittenMail ==
  ASSUME Base, Typed, KeysInv, NEW p \in Request, UserStep(p), "stale" \notin cause'
  PROVE  /\ job[p].op \notin {"mail", "adminMail"} => draft'[p].mail = user.mail
         /\ job[p].op \in {"mail", "adminMail"} => WillChangeKey(p)
         /\ user # Gone /\ draft'[p] \in User
<1>0. /\ TypeOK /\ Sighted(p) /\ Slot(p) /\ job[p] \in Job
      /\ \A u \in User : u # None /\ u # Gone
      /\ draft[p] \in User \cup {Gone, None}
  BY AccountsAssumption DEF Base, Typed, TypeOK
<1>1. /\ VisibleUser(p) = seen[p] /\ seen[p] \in User /\ draft'[p] = Written(p) /\ Written(p) # None /\ "stale" \notin cause
      /\ Label(p) \in {"write", "touch"} /\ draft'[p] \in User
  BY <1>0, WrittenSecret DEF UserStep
<1>2. user # Gone
  BY <1>0, <1>1 DEF VisibleUser, Slot
<1>3. job[p].op \in {"mail", "adminMail"} => Label(p) = "write"
  <2>1. Label(p) = Line(job[p].op, pc[p]) /\ Standing(job[p].op, pc[p])
    BY <1>0, AtLabel
  <2> QED
    BY <1>1, <2>1 DEF Standing
<1>4. ASSUME job[p].op \notin {"mail", "adminMail"}
      PROVE  draft'[p].mail = user.mail
  <2>1. seen[p].mail = user.mail
    BY <1>0, <1>1, <1>4 DEF VisibleUser, KeysInv
  <2>2. Written(p).mail = seen[p].mail
    BY <1>0, <1>1, <1>4, WriteOps, ChangeMail DEF Written
  <2> QED
    BY <1>1, <2>1, <2>2
<1> QED
  BY <1>1, <1>2, <1>3, <1>4 DEF WillChangeKey

\* A step brings in a referring row only with its insert.
LEMMA Referring ==
  ASSUME Base, NEW p \in Request, Effect(p), HasReferring(p)'
  PROVE  HasReferring(p) \/ (InsertStep(p) /\ Label(p) \in Refers)
<1>0. \A n, m : Used(n).kind = "used" /\ Verified(n, m).kind = "verified" /\ Roles(n).kind = "roles" /\ Code(n, m).kind = "code"
  BY DEF Used, Verified, Roles, Code
<1>1. PICK r \in ins'[p] : r.kind \in {"session", "token", "reset"}
  BY DEF HasReferring
<1>2. CASE InsertStep(p)
  <2>1. r \in ins[p] \/ r = Row(p)
    BY <1>1, <1>2 DEF InsertStep, WriteStep
  <2>2. Row(p).kind = "code" \/ Label(p) \in Refers
    BY <1>0, <1>2 DEF Row, InsertStep, AddLabels, Refers
  <2> QED
    BY <1>1, <1>2, <2>1, <2>2 DEF HasReferring
<1>3. CASE ~InsertStep(p)
  <2>1. r \in ins[p]
    BY <1>0, <1>1, <1>3 DEF Effect, RollbackStep, CommitStep, Ended, ReadStep, WaitStep, DropStep, MarkStep, UserStep,
       EraseStep, WriteStep
  <2> QED
    BY <1>1, <2>1 DEF HasReferring
<1> QED
  BY <1>2, <1>3

\* A change of the key and a row that refers to it are never under way together.
LEMMA KeysStep ==
  ASSUME Base, Typed, KeysInv, NEW p \in Request, Effect(p)
  PROVE  KeysInv'
<1> SUFFICES ASSUME "stale" \notin cause'
             PROVE  /\ \A q \in Request :
                         draft'[q] \in User /\ job'[q].op \notin {"mail", "adminMail"} => draft'[q].mail = user'.mail
                    /\ \A q, s \in Request : q # s => ~(ChangesKey(q)' /\ HasReferring(s)')
  BY DEF KeysInv
<1>0. /\ TypeOK /\ "stale" \notin cause /\ Slot(p) /\ Shape(p)
      /\ draft[p] \in User \cup {Gone, None} /\ \A u \in User : u # None /\ u # Gone
  BY Sources, AccountsAssumption DEF Base, TypeOK
<1>1. ASSUME NEW q \in Request, q # p
      PROVE  /\ draft'[q] = draft[q] /\ job'[q] = job[q] /\ ins'[q] = ins[q]
             /\ draft[q] # None => user' = user
  <2>1. draft'[q] = draft[q] /\ job'[q] = job[q] /\ ins'[q] = ins[q]
    BY <1>0, <1>1, OthersPointwise DEF Effect
  <2>2. ASSUME draft[q] # None
        PROVE  user' = user
    <3>1. Apart(q, p)
      BY <1>1 DEF Base
    <3> QED
      BY <2>2, <3>1, RowsStep DEF Apart, CommitStep, VisibleUser
  <2> QED
    BY <2>1, <2>2
<1>2. draft'[p] # None => user' = user
  BY RowsStep DEF CommitStep, Ended
<1>3. \/ UserStep(p) /\ job'[p] = job[p]
      \/ EraseStep(p) /\ draft'[p] = Gone
      \/ draft'[p] = None
      \/ draft'[p] = draft[p] /\ (job'[p] = job[p] \/ job[p].op \in {"login", "loginCode"})
  <2>1. CASE UserStep(p) \/ EraseStep(p)
    BY <2>1 DEF UserStep, EraseStep, WriteStep
  <2>2. CASE ReadStep(p)
    BY <1>0, <2>2, NextLine DEF ReadStep, RollbackStep, CommitStep, Ended
  <2>3. CASE RollbackStep(p) \/ CommitStep(p) \/ WaitStep(p) \/ DropStep(p) \/ MarkStep(p) \/ InsertStep(p)
    BY <2>3 DEF RollbackStep, CommitStep, Ended, WaitStep, DropStep, MarkStep, InsertStep, WriteStep
  <2> QED
    BY <2>1, <2>2, <2>3 DEF Effect
<1>4. ASSUME NEW q \in Request, draft'[q] \in User, job'[q].op \notin {"mail", "adminMail"}
      PROVE  draft'[q].mail = user'.mail
  <2>1. CASE q # p
    BY <1>0, <1>1, <1>4, <2>1 DEF KeysInv
  <2>2. CASE q = p /\ UserStep(p) /\ job'[p] = job[p]
    BY <1>0, <1>2, <1>4, <2>2, WrittenMail
  <2>3. CASE q = p /\ draft'[p] = draft[p] /\ (job'[p] = job[p] \/ job[p].op \in {"login", "loginCode"})
    BY <1>0, <1>2, <1>4, <2>3 DEF KeysInv
  <2> QED
    BY <1>0, <1>3, <1>4, <2>1, <2>2, <2>3
<1>5. ASSUME NEW q \in Request, NEW s \in Request, q # s, ChangesKey(q)', HasReferring(s)'
      PROVE  FALSE
  <2>1. draft'[q] # None /\ (draft'[q] = Gone \/ user' = Gone \/ draft'[q].mail # user'.mail)
    BY <1>5 DEF ChangesKey
  <2>2. user' = user
    BY <1>1, <1>2, <2>1
  <2>3. CASE q # p
    <3>1. ChangesKey(q)
      BY <1>1, <2>1, <2>2, <2>3 DEF ChangesKey
    <3>2. HasReferring(s) \/ (s = p /\ InsertStep(p) /\ Label(p) \in Refers)
      BY <1>1, <1>5, Referring DEF HasReferring
    <3>3. CASE HasReferring(s)
      BY <1>0, <1>5, <3>1, <3>3 DEF KeysInv
    <3>4. CASE s = p /\ InsertStep(p) /\ Label(p) \in Refers
      <4>1. Blockers(p) = {}
        BY <3>4 DEF InsertStep, WriteStep
      <4> QED
        BY <2>3, <3>1, <3>4, <4>1 DEF Blockers, Others
    <3> QED
      BY <3>2, <3>3, <3>4
  <2>4. CASE q = p
    <3>1. HasReferring(s)
      BY <1>1, <1>5, <2>4 DEF HasReferring
    <3>2. CASE UserStep(p)
      <4>1. WillChangeKey(p)
        BY <1>0, <2>1, <2>2, <2>4, <3>2, WrittenMail
      <4>2. Blockers(p) = {}
        BY <3>2 DEF UserStep, WriteStep
      <4> QED
        BY <1>5, <2>4, <3>1, <4>1, <4>2 DEF Blockers, Others
    <3>3. CASE EraseStep(p)
      <4>1. WillChangeKey(p) /\ Blockers(p) = {}
        BY <3>3 DEF EraseStep, WriteStep, WillChangeKey
      <4> QED
        BY <1>5, <2>4, <3>1, <4>1 DEF Blockers, Others
    <3>4. CASE draft'[p] = draft[p]
      <4>1. ChangesKey(p)
        BY <2>1, <2>2, <2>4, <3>4 DEF ChangesKey
      <4> QED
        BY <1>0, <1>5, <2>4, <3>1, <4>1 DEF KeysInv
    <3> QED
      BY <1>3, <2>1, <2>4, <3>2, <3>3, <3>4
  <2> QED
    BY <2>3, <2>4
<1> QED
  BY <1>4, <1>5

\* Every step keeps them apart.
LEMMA KeysNext == Base /\ Typed /\ KeysInv /\ [Next]_vars => KeysInv'
<1> SUFFICES ASSUME Base, Typed, KeysInv, [Next]_vars PROVE KeysInv'
  OBVIOUS
<1>0. TypeOK
  BY DEF Base
<1>1. CASE \E p \in Request : Effect(p)
  BY <1>1, KeysStep
<1>2. ASSUME NEW p \in Request, BeginStep(p)
      PROVE  KeysInv'
  <2>1. /\ \A q \in Request : draft'[q] = draft[q] /\ ins'[q] = ins[q] /\ (q # p => job'[q] = job[q])
        /\ user' = user /\ cause' = cause /\ draft[p] = None /\ None \notin User
    BY <1>0, <1>2, OthersPointwise, AccountsAssumption DEF BeginStep, Base, Slot
  <2>2. \A q \in Request : (ChangesKey(q)' <=> ChangesKey(q)) /\ (HasReferring(q)' <=> HasReferring(q))
    BY <2>1 DEF ChangesKey, HasReferring
  <2> QED
    BY <2>1, <2>2 DEF KeysInv
<1>3. CASE BanRunsOut \/ UNCHANGED vars
  BY <1>3 DEF BanRunsOut, vars, tx, KeysInv, ChangesKey, HasReferring
<1> QED
  BY <1>0, <1>1, <1>2, <1>3, NextEffect

\* Nothing is under way at the start.
LEMMA KeysInit == Init => KeysInv
<1> SUFFICES ASSUME Init PROVE KeysInv
  OBVIOUS
<1>1. \A p \in Request : draft[p] = None /\ ins[p] = {}
  BY DEF Init
<1> QED
  BY <1>1, AccountsAssumption DEF KeysInv, ChangesKey

-----------------------------------------------------------------------------
(* Circles of waiting transactions. *)

\* With one refresh token, a refresh that has claimed it has nothing to wait for.
OneToken ==
  "missed" \notin cause =>
    /\ \A r, t \in Kind(rows, "token") : r = t
    /\ \A p \in Request : Label(p) = "dropTokens" /\ job[p].op = "refresh" => aim[p] = None

\* The deleteMany after the claim finds no token of another transaction.
LEMMA RefreshDropsFreely ==
  ASSUME Base, TokensInv, OneToken, "missed" \notin cause,
         NEW p \in Request, Label(p) = "dropTokens", job[p].op = "refresh"
  PROVE  Blockers(p) = {}
<1>0. TypeOK /\ Slot(p) /\ Shape(p)
  BY DEF Base
<1>1. pc[p] = 5
  <2>1. Label(p) = Line(job[p].op, pc[p]) /\ Standing(job[p].op, pc[p])
    BY <1>0, AtLabel
  <2> QED
    BY <2>1 DEF Standing
<1>2. Token(job[p].n) \in del[p] /\ Token(job[p].n) \in rows
  BY <1>0, <1>1 DEF TokensInv, Refreshing, From, Slot
<1>3. Kind(rows, "token") \subseteq del[p]
  BY <1>2, TokenItem DEF OneToken, Kind
<1>4. \A r \in ins[p] : r.kind # "token"
  BY <1>0, <1>1 DEF Shape, AddsToken, From
<1>5. Aimed(p) = {}
  BY <1>3, <1>4 DEF Aimed, Aim, OneToken, Visible, Kind
<1> QED
  BY <1>5 DEF Blockers, Refers, WillChangeKey

\* A commit leaves one refresh token at most.
LEMMA OneTokenStep ==
  ASSUME Base, TypeOK', TokensInv, OneHolder, OneToken, "missed" \notin cause, NEW p \in Request, Effect(p)
  PROVE  OneToken'
<1>0. TypeOK /\ Slot(p)
  BY DEF Base
<1>1. \A r, t \in Kind(rows', "token") : r = t
  <2>1. CASE CommitStep(p) /\ Holder(p)
    <3>1. Kind(rows', "token") \subseteq Kind(ins[p], "token")
      BY <2>1 DEF CommitStep, OneHolder, Visible, Kind
    <3>2. \A r \in Kind(ins[p], "token") : r = Token(new[p])
      <4>1. \A r \in ins[p] : r \in Item /\ (r.kind = "token" => r.of = new[p])
        BY <1>0, AtLabel DEF Base, Shape
      <4> QED
        BY <4>1 DEF Kind, Token, Item
    <3> QED
      BY <3>1, <3>2
  <2>2. CASE CommitStep(p) /\ ~Holder(p)
    <3>1. Kind(rows', "token") \subseteq Kind(rows, "token")
      BY <2>2, HoldersInsert DEF CommitStep, Visible, Kind
    <3> QED
      BY <3>1 DEF OneToken
  <2>3. CASE ~CommitStep(p)
    <3>1. rows' = rows
      BY <2>3, RowsStep
    <3> QED
      BY <3>1 DEF OneToken
  <2> QED
    BY <2>1, <2>2, <2>3
<1>2. ASSUME NEW q \in Request, Label(q)' = "dropTokens", job'[q].op = "refresh"
      PROVE  aim'[q] = None
  <2>1. CASE q # p
    <3>1. job'[q] = job[q] /\ pc'[q] = pc[q] /\ aim'[q] = aim[q]
      BY <1>0, <2>1, OthersPointwise DEF Effect
    <3>2. Label(q)' = Label(q)
      BY <1>0, <3>1, AtLabel, AtLabelNext
    <3> QED
      BY <1>2, <3>1, <3>2 DEF OneToken
  <2>2. CASE q = p
    <3>1. CASE RollbackStep(p) \/ CommitStep(p)
      BY <2>2, <3>1 DEF RollbackStep, CommitStep, Ended
    <3>2. CASE ReadStep(p)
      <4>1. Label(p) \notin WriteLabels
        BY <3>2, LabelKinds DEF ReadStep
      <4> QED
        BY <1>0, <2>2, <3>2, <4>1 DEF ReadStep, Slot
    <3>3. CASE WaitStep(p)
      <4>1. job'[p] = job[p] /\ pc'[p] = pc[p] /\ Blockers(p) # {}
        BY <3>3 DEF WaitStep
      <4>2. Label(p)' = Label(p)
        BY <1>0, <4>1, AtLabel, AtLabelNext
      <4> QED
        BY <1>2, <2>2, <4>1, <4>2, RefreshDropsFreely
    <3>4. CASE DropStep(p) \/ MarkStep(p) \/ UserStep(p) \/ InsertStep(p) \/ EraseStep(p)
      BY <2>2, <3>4 DEF DropStep, MarkStep, UserStep, InsertStep, EraseStep, WriteStep
    <3> QED
      BY <3>1, <3>2, <3>3, <3>4 DEF Effect
  <2> QED
    BY <2>1, <2>2
<1> QED
  BY <1>1, <1>2 DEF OneToken, Kind

\* Every step leaves one refresh token at most.
LEMMA OneTokenNext ==
  ASSUME Base, TypeOK', TokensInv, SessionsInv, OneToken, [Next]_vars
  PROVE  OneToken'
<1>0. TypeOK
  BY DEF Base
<1>1. ASSUME NEW p \in Request, Effect(p)
      PROVE  OneToken'
  <2>1. CASE "missed" \in cause'
    BY <2>1 DEF OneToken
  <2>2. CASE "missed" \notin cause'
    <3>1. "missed" \notin cause
      BY <1>1, <2>2, Sources
    <3>2. OneHolder
      BY <3>1 DEF SessionsInv
    <3> QED
      BY <1>1, <3>1, <3>2, OneTokenStep
  <2> QED
    BY <2>1, <2>2
<1>2. ASSUME NEW p \in Request, BeginStep(p)
      PROVE  OneToken'
  <2>1. /\ rows' = rows /\ cause' = cause /\ pc[p] = 0 /\ aim'[p] = aim[p] /\ aim[p] = None
    BY <1>2 DEF BeginStep, Base, Slot
  <2>2. ASSUME NEW q \in Request, q # p
        PROVE  job'[q] = job[q] /\ aim'[q] = aim[q] /\ Label(q)' = Label(q)
    <3>1. job'[q] = job[q] /\ pc'[q] = pc[q] /\ aim'[q] = aim[q]
      BY <1>0, <1>2, <2>2, OthersPointwise DEF BeginStep
    <3>2. Label(q)' = Label(q)
      BY <1>0, <3>1, AtLabel, AtLabelNext
    <3> QED
      BY <3>1, <3>2
  <2> QED
    BY <2>1, <2>2 DEF OneToken
<1>3. CASE BanRunsOut \/ UNCHANGED vars
  BY <1>3 DEF BanRunsOut, vars, tx, OneToken, Label
<1> QED
  BY <1>0, <1>1, <1>2, <1>3, NextEffect

\* There is one refresh token at most at the start.
LEMMA OneTokenInit == Init => OneToken
<1> SUFFICES ASSUME Init PROVE OneToken
  OBVIOUS
<1>1. \A p \in Request : aim[p] = None
  BY DEF Init
<1>2. \A r \in Kind(rows, "token") : r = Token(MaxSessions)
  BY DEF Init, Kind, Code, Roles, Token, Reset, Verified, Session
<1> QED
  BY <1>1, <1>2 DEF OneToken

\* The common order in which transactions take their rows.
Rank(l) ==
  CASE l \in {"dropCodes", "markCode"} -> 0
    [] l \in {"write", "touch", "erase"} -> 1
    [] l \in {"dropResets", "useReset"} -> 2
    [] l = "claim" -> 3
    [] l = "dropTokens" -> 4
    [] l \in {"addToken", "addSession", "addReset"} -> 5
    [] l \in {"dropOthers", "dropSessions", "dropOwn"} -> 6
    [] OTHER -> 7

\* Where a request can wait that has written already.
LEMMA WaitsAfter ==
  ASSUME Base, NEW s \in Request, Label(s) \in WriteLabels, job[s].op \notin AgainstOrder
  PROVE  /\ DropsTokens(s) => \/ Label(s) \in {"addToken", "addSession", "dropOwn", "evict", "dropSessions"}
                              \/ Label(s) = "dropTokens" /\ job[s].op = "refresh"
         /\ DropsSessions(s) => Label(s) = "addSession" \/ (Label(s) = "evict" /\ Holder(s))
         /\ DropsLinks(s) => Label(s) \in {"addReset", "dropTokens", "dropSessions"}
         /\ DropsCodes(s) => Label(s) = "addCode" \/ Rank(Label(s)) > 0
         /\ WritesUser(s) => Label(s) = "touch" \/ Rank(Label(s)) > 1
         /\ HasReferring(s) => Label(s) = "addSession" \/ Rank(Label(s)) > 5
         /\ draft[s] # Gone
         /\ WritesUser(s) /\ job[s].op \in {"mail", "adminMail"} => Rank(Label(s)) = 6
         /\ Label(s) = "addSession" => HasReferring(s)
         /\ WillChangeKey(s) => draft[s] = None
<1>0. TypeOK /\ Shape(s) /\ Label(s) = Line(job[s].op, pc[s]) /\ Standing(job[s].op, pc[s]) /\ pc[s] \in 0..12
  BY AtLabel DEF Base
<1>1. DropsTokens(s) => \/ Label(s) \in {"addToken", "addSession", "dropOwn", "evict", "dropSessions"}
                        \/ Label(s) = "dropTokens" /\ job[s].op = "refresh"
  BY <1>0 DEF DropsTokens, From, Standing, WriteLabels, DropLabels, AddLabels, AgainstOrder, Edits
<1>2. DropsSessions(s) => Label(s) = "addSession" \/ (Label(s) = "evict" /\ Holder(s))
  BY <1>0 DEF DropsSessions, Holder, From, Standing, WriteLabels, DropLabels, AddLabels, AgainstOrder, Edits
<1>3. DropsLinks(s) => Label(s) \in {"addReset", "dropTokens", "dropSessions"}
  BY <1>0 DEF DropsLinks, From, Standing, WriteLabels, DropLabels, AddLabels, AgainstOrder, Edits
<1>4. DropsCodes(s) => Label(s) = "addCode" \/ Label(s) \in {"write", "touch", "dropTokens", "addToken", "evict", "addSession"}
  BY <1>0 DEF DropsCodes, From, Standing, WriteLabels, DropLabels, AddLabels, AgainstOrder, Edits
<1>5. WritesUser(s) => Label(s) \in {"touch", "useReset", "dropTokens", "addToken", "evict", "addSession", "dropOthers", "dropSessions"}
  BY <1>0 DEF WritesUser, From, Standing, WriteLabels, DropLabels, AddLabels, AgainstOrder, Edits
<1>6. HasReferring(s) => Label(s) \in {"addSession", "dropOwn", "evict"}
  <2>1. HasReferring(s) => AddsToken(s) \/ AddsSession(s) \/ AddsLink(s)
    BY <1>0 DEF HasReferring, Shape
  <2> QED
    BY <1>0, <2>1 DEF AddsToken, AddsSession, AddsLink, From, Standing, WriteLabels, DropLabels, AddLabels, AgainstOrder, Edits
<1>7. draft[s] # Gone
  <2>1. draft[s] = Gone => job[s].op = "delete" /\ WritesUser(s)
    BY <1>0, AccountsAssumption DEF Shape
  <2> QED
    BY <1>0, <1>5, <2>1 DEF Standing
<1>8. WritesUser(s) /\ job[s].op \in {"mail", "adminMail"} => Label(s) \in {"dropOthers", "dropSessions"}
  BY <1>0, <1>5 DEF Standing
<1>9. Label(s) = "addSession" => HasReferring(s)
  <2>1. Label(s) = "addSession" => AddsToken(s)
    BY <1>0 DEF Standing, AddsToken, From
  <2> QED
    BY <1>0, <2>1, TokenItem DEF Shape, HasReferring
<1>10. WillChangeKey(s) => draft[s] = None
  BY <1>0, <1>5 DEF WillChangeKey, Shape
<1> QED
  BY <1>1, <1>2, <1>3, <1>4, <1>5, <1>6, <1>7, <1>8, <1>9, <1>10 DEF Rank

\* A request that waits in the common order is at a statement past its own.
LEMMA Rises ==
  ASSUME Base, TokensInv, SessionsInv, OneToken, KeysInv, cause = {},
         NEW p \in Request, NEW q \in Blockers(p), Blockers(q) # {},
         job[p].op \notin AgainstOrder, job[q].op \notin AgainstOrder
  PROVE  Rank(Label(p)) < Rank(Label(q))
<1>0. /\ TypeOK /\ q \in Request /\ q # p /\ Slot(p) /\ Slot(q) /\ Shape(p) /\ Shape(q)
      /\ OneHolder /\ Apart(p, q) /\ Apart(q, p)
  BY DEF Base, SessionsInv, Blockers, Others
<1>1. Label(p) \in WriteLabels /\ Label(q) \in WriteLabels
  BY <1>0, BlockedWrites
<1>2. Label(q) # "addSession" /\ Label(q) # "addCode"
  <2>1. Label(q) \in {"addSession", "addCode"} => Aimed(q) = {}
    BY <1>0, AimedKinds DEF Target
  <2>2. \A x \in Others(q) : ~(ChangesKey(x) /\ HasReferring(q))
    BY <1>0 DEF KeysInv, Others
  <2>3. Label(q) = "addSession" => HasReferring(q)
    BY <1>0, <1>1, WaitsAfter
  <2> QED
    BY <2>1, <2>2, <2>3 DEF Blockers, Refers, WillChangeKey
<1>3. ~(Label(q) = "dropTokens" /\ job[q].op = "refresh")
  BY <1>0, RefreshDropsFreely
<1>4. draft[q] # None => Label(q) # "touch"
  <2> SUFFICES ASSUME draft[q] # None, Label(q) = "touch" PROVE FALSE
    OBVIOUS
  <2>1. \A x \in Others(q) : draft[x] = None
    BY <1>0 DEF Base, Apart, Others
  <2>2. ASSUME NEW x \in Others(q), NEW r \in del[x], r \in Aimed(q)
        PROVE  FALSE
    <3>1. r.kind = "roles"
      BY <1>0, <2>2, AimedKinds DEF Target
    <3> QED
      BY <2>1, <2>2, <3>1 DEF Base, Shape, Others
  <2> QED
    BY <2>1, <2>2 DEF Blockers, Refers, WillChangeKey
<1>5. /\ DropsTokens(q) => Label(q) \in {"addToken", "dropOwn", "evict", "dropSessions"}
      /\ DropsSessions(q) => Label(q) = "evict" /\ Holder(q)
      /\ DropsLinks(q) => Label(q) \in {"addReset", "dropTokens", "dropSessions"}
      /\ DropsCodes(q) => Rank(Label(q)) > 0
      /\ draft[q] # None => Rank(Label(q)) > 1
      /\ HasReferring(q) => Rank(Label(q)) > 5
      /\ ChangesKey(q) => Rank(Label(q)) = 6
  <2>1. ChangesKey(q) => WritesUser(q) /\ job[q].op \in {"mail", "adminMail"}
    <3> SUFFICES ASSUME ChangesKey(q) PROVE WritesUser(q) /\ job[q].op \in {"mail", "adminMail"}
      OBVIOUS
    <3>1. draft[q] # Gone
      BY <1>0, <1>1, WaitsAfter
    <3>2. draft[q] # None /\ user # Gone /\ draft[q].mail # user.mail
      BY <1>0, <3>1 DEF ChangesKey, Slot
    <3>3. draft[q] \in User
      BY <1>0, <3>1, <3>2 DEF TypeOK
    <3> QED
      BY <1>0, <3>2, <3>3 DEF Shape, KeysInv
  <2>2. draft[q] # None => WritesUser(q)
    BY <1>0 DEF Shape
  <2> QED
    BY <1>0, <1>1, <1>2, <1>3, <1>4, <2>1, <2>2, WaitsAfter
<1>6. CASE del[q] \cap Aimed(p) # {}
  <2>1. PICK r : r \in del[q] /\ r \in Aimed(p)
    BY <1>6
  <2>2. r.kind \in Target(Label(p))
    BY <1>0, <2>1, AimedKinds
  <2>3. /\ r.kind = "token" => DropsTokens(q)
        /\ r.kind = "session" => DropsSessions(q)
        /\ r.kind \in {"reset", "used"} => DropsLinks(q)
        /\ r.kind \in {"code", "verified"} => DropsCodes(q)
        /\ r.kind = "roles" => draft[q] # None
    BY <1>0, <2>1 DEF Shape
  <2>4. CASE Label(p) \in {"dropTokens", "claim"}
    BY <1>5, <2>2, <2>3, <2>4 DEF Target, Rank
  <2>5. CASE Label(p) = "evict"
    <3>1. Label(q) = "evict" /\ Holder(q)
      BY <1>5, <2>2, <2>3, <2>5 DEF Target
    <3>2. Holder(p)
      BY <2>5, CountingHolds
    <3> QED
      BY <1>0, <3>1, <3>2 DEF OneHolder
  <2>6. CASE Label(p) \in {"dropSessions", "dropOthers", "dropOwn"}
    BY <1>5, <2>2, <2>3, <2>6 DEF Target, Rank
  <2>7. CASE Label(p) \in {"dropResets", "useReset"}
    BY <1>5, <2>2, <2>3, <2>7 DEF Target, Rank
  <2>8. CASE Label(p) \in {"dropCodes", "markCode"}
    BY <1>5, <2>2, <2>3, <2>8 DEF Target, Rank
  <2>9. CASE Label(p) \in {"write", "touch", "erase"}
    BY <1>5, <2>2, <2>3, <2>9 DEF Target, Rank
  <2>10. CASE Label(p) \in {"addToken", "addSession", "addReset", "addCode"}
    BY <2>2, <2>10 DEF Target
  <2> QED
    BY <1>1, <2>4, <2>5, <2>6, <2>7, <2>8, <2>9, <2>10 DEF WriteLabels, DropLabels, AddLabels
<1>7. CASE Label(p) \in {"write", "touch", "erase"} /\ draft[q] # None
  BY <1>5, <1>7 DEF Rank
<1>8. CASE Label(p) \in Refers /\ ChangesKey(q)
  BY <1>5, <1>8 DEF Rank, Refers
<1>9. CASE WillChangeKey(p) /\ HasReferring(q)
  BY <1>5, <1>9 DEF Rank, WillChangeKey
<1> QED
  BY <1>6, <1>7, <1>8, <1>9 DEF Blockers

\* A circle in the common order would have no last statement.
LEMMA CirclesOrdered ==
  ASSUME Base, TokensInv, SessionsInv, OneToken, KeysInv
  PROVE  CirclesNeedDisorder
<1> SUFFICES ASSUME cause = {}, NEW p \in Request, InCircle(p),
                    \A q \in Request : InCircle(q) => job[q].op \notin AgainstOrder
             PROVE  FALSE
  BY DEF CirclesNeedDisorder
<1>1. PICK S \in SUBSET Request : p \in S /\ \A q \in S : Blockers(q) \cap S # {}
  BY DEF InCircle
<1>2. \A q \in S : job[q].op \notin AgainstOrder /\ Blockers(q) # {}
  BY <1>1 DEF InCircle
<1> DEFINE H == {7 - Rank(Label(q)) : q \in S}
<1>3. \A q \in S : Rank(Label(q)) \in 0..7
  BY DEF Rank
<1>4. H \subseteq Nat /\ H # {}
  BY <1>1, <1>3
<1>5. PICK n \in H : \A k \in H : n <= k
  BY <1>4, LeastNumber
<1>6. PICK q \in S : n = 7 - Rank(Label(q))
  BY <1>5
<1>7. PICK s \in S : s \in Blockers(q)
  BY <1>1
<1>8. Rank(Label(q)) < Rank(Label(s))
  BY <1>2, <1>6, <1>7, Rises
<1>9. 7 - Rank(Label(s)) \in H
  BY <1>7
<1> HIDE DEF H
<1>10. 7 - Rank(Label(q)) <= 7 - Rank(Label(s))
  BY <1>5, <1>6, <1>9
<1> QED
  BY <1>3, <1>6, <1>7, <1>8, <1>10

-----------------------------------------------------------------------------
(* The theorems. *)

AllInv ==
  /\ Typed /\ Base
  /\ TokensInv /\ RefreshOnce
  /\ SecretsInv /\ ResettingInv /\ ResetOnce
  /\ BansInv
  /\ SessionsInv
  /\ OneToken /\ KeysInv

\* The inductive invariant holds at the start.
LEMMA AllInit == Init => AllInv
<1> SUFFICES ASSUME Init PROVE AllInv
  OBVIOUS
<1>1. RefreshOnce
  BY DEF Init, RefreshOnce
<1>2. BansInv
  <2>1. \A p \in Request : draft[p] = None
    BY DEF Init
  <2> QED
    BY <2>1, AccountsAssumption DEF BansInv
<1> QED
  BY <1>1, <1>2, TypedInit, BaseInit, TokensInit, LinksInit, SessionsInit, OneTokenInit, KeysInit DEF AllInv

\* Every step keeps the inductive invariant.
LEMMA AllNext == AllInv /\ [Next]_vars => AllInv'
<1> SUFFICES ASSUME AllInv, [Next]_vars PROVE AllInv'
  OBVIOUS
<1>0. /\ Typed /\ Base /\ TokensInv /\ RefreshOnce /\ SecretsInv /\ ResettingInv /\ ResetOnce /\ BansInv
      /\ SessionsInv /\ OneToken /\ KeysInv
  BY DEF AllInv
<1>1. Typed'
  BY <1>0, TypedNext
<1>2. TypeOK'
  BY <1>1 DEF Typed
<1>3. Base' /\ BansInv'
  BY <1>0, BaseNext, BansNext
<1>4. TokensInv' /\ RefreshOnce'
  BY <1>0, <1>2, TokensNext
<1>5. SecretsInv' /\ ResettingInv' /\ ResetOnce'
  BY <1>0, <1>2, LinksNext
<1>6. SessionsInv' /\ OneToken' /\ KeysInv'
  BY <1>0, <1>2, SessionsNext, OneTokenNext, KeysNext
<1> QED
  BY <1>1, <1>3, <1>4, <1>5, <1>6 DEF AllInv

\* The inductive invariant: locks and keys, tokens, links, bans, the count of sessions.
THEOREM AllAlways == Spec => []AllInv
BY AllInit, AllNext, PTL DEF Spec

\* The variables keep their types.
THEOREM TypeCorrect == Spec => []TypeOK
<1>1. AllInv => TypeOK
  BY DEF AllInv, Base
<1> QED
  BY <1>1, AllAlways, PTL

\* A refresh token gives one new session, for any number of requests that present it
\* (RefreshTokenCommandHandler).
THEOREM TokenRefreshesOnce == Spec => []RefreshOnce
<1>1. AllInv => RefreshOnce
  BY DEF AllInv
<1> QED
  BY <1>1, AllAlways, PTL

\* A link resets the password once, unless somebody wrote back a stale user
\* (AuthService.resetPassword).
THEOREM LinkResetsOnce == Spec => []ResetOnce
<1>1. AllInv => ResetOnce
  BY DEF AllInv
<1> QED
  BY <1>1, AllAlways, PTL

\* The limit of sessions is kept for every limit and any number of logins and refreshes,
\* unless one of them has missed a refresh token (SessionService.enforceMaxActiveSessions).
THEOREM LimitKept == Spec => []SessionLimit
<1>1. AllInv => SessionLimit
  BY DEF AllInv, SessionsInv, SessionLimit
<1> QED
  BY <1>1, AllAlways, PTL

\* Transactions wait in a circle only when one of them takes its rows against the common
\* order, or after a stale write or a missed token.
THEOREM CirclesHaveCause == Spec => []CirclesNeedDisorder
<1>1. AllInv => CirclesNeedDisorder
  BY CirclesOrdered DEF AllInv
<1> QED
  BY <1>1, AllAlways, PTL

\* A ban ends by its date, by an unban or with the account, unless somebody wrote back a
\* stale user (UserService, the User entity).
THEOREM BansStand == Spec => BanStands
<1>1. AllInv /\ [Next]_vars => [BanKept]_vars
  BY BanStep DEF AllInv
<1>2. BanStands <=> [][BanKept]_vars
  BY PTL DEF BanStands, BanKept
<1> QED
  BY <1>1, <1>2, AllAlways, PTL DEF Spec

=============================================================================
