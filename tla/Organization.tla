----------------------------- MODULE Organization -----------------------------
(***************************************************************************)
(* Users, roles and companies under concurrent requests: the commands of   *)
(* the user, company and auth controllers that change what somebody may    *)
(* do.  A token carries the roles and the company its user had when it was *)
(* issued; guards decide on these claims, handlers on the rows.            *)
(*                                                                         *)
(* A request reads and decides in one step and writes in another, so that  *)
(* every other request can come in between: rows are read once, and whole  *)
(* rows are written back (UserRepository.update, CompanyRepository.update).*)
(* The write is one step, because it starts with the row of the user and   *)
(* so holds it until the commit; Accounts has the statements one by one.   *)
(* Left out: bots, roles made by an administrator, the dates of bans,      *)
(* names, addresses and hosts of users and companies.                      *)
(***************************************************************************)
EXTENDS Hierarchy

CONSTANTS
  User, Company,
  Gone,          \* no row
  Idle,          \* a free request slot
  Request,       \* request slots of the server
  Grant,         \* the roles that requests name
  Staff, Firms,  \* the rows at the beginning
  MaxRequests    \* bound of the model: requests in a behaviour

UserRow == [roles : SUBSET Role, company : Company \cup {None}, active : BOOLEAN, reactivable : BOOLEAN]
FirmRow == [active : BOOLEAN, parent : Company \cup {None}]
Claims(u) == [roles |-> u.roles, company |-> u.company]
Token == [roles : SUBSET Role, company : Company \cup {None}]

\* At the beginning everybody's company is there and open, and who is active is not banned;
\* the last line says that a marker is none of the things it stands beside.
ASSUME OrganizationAssumption ==
  /\ Grant \subseteq Role
  /\ MaxRequests \in Nat
  /\ Staff \in [User -> UserRow \cup {Gone}] /\ Firms \in [Company -> FirmRow \cup {Gone}]
  /\ \A u \in User : Staff[u] # Gone =>
       /\ Staff[u].active => Staff[u].reactivable
       /\ Staff[u].company # None => Firms[Staff[u].company] # Gone /\ Firms[Staff[u].company].active
  /\ None \notin Company \cup Token /\ Gone \notin UserRow \cup FirmRow

VARIABLES
  user, company,  \* committed rows, or Gone
  tokens,         \* the claims in the sessions of each user
  req,            \* what a request has read and will write
  asked,          \* requests so far
  cause           \* history: races that a user went through

vars == <<user, company, tokens, req, asked, cause>>

Users == {u \in User : user[u] # Gone}
Companies == {c \in Company : company[c] # Gone}
Members(c) == {u \in Users : user[u].company = c}
Handled(c) == {u \in Members(c) : user[u].active /\ user[u].reactivable}
Banned(u) == ~ u.active /\ ~ u.reactivable

\* What a request keeps: who asks and his row, the rows it has read and those it will write,
\* whom it signs out, the tokens that go and come, and whether a sign-in looked at the company.
SomeRows(f, S, T) == DOMAIN f \subseteq S /\ f \in [DOMAIN f -> T]
IsRequest(w) ==
  /\ w.by \in User /\ w.me \in UserRow /\ w.out \subseteq User
  /\ SomeRows(w.users, User, UserRow \cup {Gone}) /\ w.saw \in [DOMAIN w.users -> UserRow \cup {Gone}]
  /\ SomeRows(w.firms, Company, FirmRow \cup {Gone}) /\ w.knew \in [Company -> FirmRow \cup {Gone}]
  /\ {w.old, w.new} \subseteq Token \cup {None} /\ w.looked \in BOOLEAN

TypeOK ==
  /\ user \in [User -> UserRow \cup {Gone}]
  /\ company \in [Company -> FirmRow \cup {Gone}]
  /\ tokens \in [User -> SUBSET Token]
  /\ DOMAIN req = Request /\ \A q \in Request : req[q] # Idle => IsRequest(req[q])
  /\ asked \in 0..MaxRequests
  /\ cause \in [User -> SUBSET {"stale", "missed", "profile", "unseen"}]

Init ==
  /\ user = Staff /\ company = Firms
  /\ tokens = [u \in User |-> IF Staff[u] = Gone THEN {} ELSE {Claims(Staff[u])}]
  /\ req = [q \in Request |-> Idle]
  /\ asked = 0
  /\ cause = [u \in User |-> {}]

(***************************** Asking **************************************)
\* The request of x is decided: new rows of users and companies, the users to sign out,
\* and the token that goes and the one that comes.
Conclude(q, x, users, firms, out, old, new, looked) ==
  /\ req' = [req EXCEPT ![q] = [by |-> x, me |-> user[x], saw |-> [u \in DOMAIN users |-> user[u]], knew |-> company,
                                users |-> users, firms |-> firms, out |-> out, old |-> old, new |-> new,
                                looked |-> looked]]
  /\ asked' = asked + 1
  /\ UNCHANGED <<user, company, tokens, cause>>
Decide(q, x, users, firms, out, old, new) == Conclude(q, x, users, firms, out, old, new, TRUE)

Nothing == <<>>
Only(k, row) == [n \in {k} |-> row]
ChangeUser(q, x, u, row, out) == Decide(q, x, Only(u, row), Nothing, out, None, None)
ChangeCompany(q, x, c, row) == Decide(q, x, Nothing, Only(c, row), {}, None, None)

\* The guards of a request of x with token t: active, in a company unless root, with a role.
SignedIn(x, t, roles) ==
  /\ x \in Users /\ t \in tokens[x] /\ user[x].active
  /\ IsRoot(t) \/ t.company # None
  /\ t.roles \cap roles # {}

AssignRole(q) ==
  \E x \in User, u \in Users, r \in Grant : \E t \in tokens[x] :
    /\ SignedIn(x, t, {"root", "admin"})
    /\ CanAssign(user[x], user[u], r, x = u, t.company)
    /\ ChangeUser(q, x, u, [user[u] EXCEPT !.roles = @ \cup {r}], {u})

RemoveRole(q) ==
  \E x \in User, u \in Users, r \in Grant : \E t \in tokens[x] :
    /\ SignedIn(x, t, {"root", "admin", "manager"})
    /\ user[u].active /\ CanUnassign(user[x], user[u], r, x = u)
    /\ ChangeUser(q, x, u, [user[u] EXCEPT !.roles = @ \ {r}], {u})

SetActive(q) ==
  \E x \in User, u \in Users, on \in BOOLEAN : \E t \in tokens[x] :
    /\ SignedIn(x, t, {"root", "admin"})
    /\ CanActivate(user[x], user[u]) /\ CanModify(user[x], user[u], x = u)
    /\ on => user[u].active \/ user[u].reactivable
    /\ ChangeUser(q, x, u, [user[u] EXCEPT !.active = on], {u})

BanUser(q) ==
  \E x \in User, u \in Users : \E t \in tokens[x] :
    /\ SignedIn(x, t, {"root"}) /\ x # u
    /\ TrueRoot(user[x]) /\ ~ Banned(user[u]) /\ CanModify(user[x], user[u], FALSE)
    /\ ChangeUser(q, x, u, [user[u] EXCEPT !.active = FALSE, !.reactivable = FALSE], {u})

UnbanUser(q) ==
  \E x \in User, u \in Users : \E t \in tokens[x] :
    /\ SignedIn(x, t, {"root"}) /\ x # u
    /\ TrueRoot(user[x]) /\ Banned(user[u])
    /\ user[u].company # None => company[user[u].company].active
    /\ ChangeUser(q, x, u, [user[u] EXCEPT !.reactivable = TRUE], {})

\* The profile can activate, deactivate, ban and unban as well, and nobody is signed out.  The guard names
\* more roles than these, but asks for user:write, which the seed gives to these only.
EditProfile(q) ==
  \E x \in User, u \in Users : \E t \in tokens[x] :
    /\ SignedIn(x, t, {"root", "admin", "manager"})
    /\ CanAccess(user[x], user[u], x = u) /\ CanModify(user[x], user[u], x = u)
    /\ \E row \in {user[u], [user[u] EXCEPT !.active = FALSE], [user[u] EXCEPT !.active = @ \/ user[u].reactivable],
                   [user[u] EXCEPT !.active = FALSE, !.reactivable = FALSE], [user[u] EXCEPT !.reactivable = TRUE]} :
         ChangeUser(q, x, u, row, {})

DeleteUser(q) ==
  \E x \in User, u \in Users : \E t \in tokens[x] :
    /\ SignedIn(x, t, {"root", "admin", "manager"})
    /\ CanDelete(user[x], user[u])
    /\ ChangeUser(q, x, u, Gone, {u})

\* The company found by its name need not be active; nobody is signed in.
Register(q) ==
  \E x \in User, u \in User \ Users, r \in Grant, to \in Companies \cup {None}, on \in BOOLEAN : \E t \in tokens[x] :
    /\ SignedIn(x, t, {"root", "admin", "manager"})
    /\ r \notin Root /\ CanInvite(t, r, to)
    /\ ChangeUser(q, x, u, [roles |-> {r}, company |-> to, active |-> on, reactivable |-> TRUE], {})

JoinCompany(q) ==
  \E x \in User, u \in Users, to \in Companies : \E t \in tokens[x] :
    /\ SignedIn(x, t, {"root", "admin"})
    /\ user[u].active /\ CanJoin(user[x], user[u], to, company[to].parent)
    /\ ChangeUser(q, x, u, [user[u] EXCEPT !.company = to], {u})

(* Faulty: the former sessions go on. *)
LeaveQuietly(q) ==
  \E x \in User, u \in Users : \E t \in tokens[x] :
    /\ SignedIn(x, t, {"root", "admin"})
    /\ CanLeave(user[x], user[u])
    /\ ChangeUser(q, x, u, [user[u] EXCEPT !.company = None], {})

LeaveCompany(q) ==
  \E x \in User, u \in Users : \E t \in tokens[x] :
    /\ SignedIn(x, t, {"root", "admin"})
    /\ CanLeave(user[x], user[u])
    /\ ChangeUser(q, x, u, [user[u] EXCEPT !.company = None], {u})

\* Root users move themselves; only the session they use gets new claims.
Move(q, x, t, row) == Decide(q, x, Only(x, row), Nothing, {}, t, Claims(row))
SwitchCompany(q) ==
  \E x \in User, to \in Companies : \E t \in tokens[x] :
    /\ SignedIn(x, t, Root)
    /\ AccessRoot(user[x])
    /\ Move(q, x, t, [user[x] EXCEPT !.company = to])
ExitCompany(q) ==
  \E x \in User : \E t \in tokens[x] :
    /\ SignedIn(x, t, Root)
    /\ AccessRoot(user[x]) /\ user[x].company # None
    /\ Move(q, x, t, [user[x] EXCEPT !.company = None])

(* Faulty: the company is not looked at. *)
LoginAnyCompany(q) ==
  \E x \in Users :
    /\ user[x].active
    /\ Decide(q, x, Only(x, user[x]), Nothing, {}, None, Claims(user[x]))

\* A sign-in ends no session.
SignIn(q, x, users, looked) == Conclude(q, x, users, Nothing, {}, None, Claims(user[x]), looked)
OpenTo(u) == u.company # None /\ ~ IsRoot(u) => company[u.company].active

\* The date of the login is written, and with it the whole row.  An error of the look at the company
\* counts as a success; where the company is open that makes no difference.
Login(q) ==
  \E x \in Users :
    /\ user[x].active
    /\ \/ OpenTo(user[x]) /\ SignIn(q, x, Only(x, user[x]), TRUE)
       \/ ~ OpenTo(user[x]) /\ SignIn(q, x, Only(x, user[x]), FALSE)

\* Whoever has a code is signed in, active or not and whatever became of his company.  Root can have a code
\* sent to anybody.  Only the code of an address is written into the row.
VerifyEmail(q) == \E x \in Users : SignIn(q, x, Only(x, user[x]), FALSE)
VerifyOtp(q) == \E x \in Users : SignIn(q, x, Nothing, FALSE)

Refresh(q) ==
  \E x \in Users : \E t \in tokens[x] :
    /\ ~ Banned(user[x])
    /\ Decide(q, x, Nothing, Nothing, {}, t, Claims(user[x]))

CreateCompany(q) ==
  \E x \in User, c \in Company \ Companies, p \in Companies \cup {None} : \E t \in tokens[x] :
    /\ SignedIn(x, t, {"root"})
    /\ ChangeCompany(q, x, c, [active |-> TRUE, parent |-> p])

\* An inactive company keeps its parent; its other columns can be changed.
UpdateCompany(q) ==
  \E x \in User, c \in Companies, p \in Companies \cup {None} : \E t \in tokens[x] :
    /\ SignedIn(x, t, {"root", "admin"})
    /\ CanEditCompany(user[x], c)
    /\ company[c].active \/ p = company[c].parent
    /\ ChangeCompany(q, x, c, [company[c] EXCEPT !.parent = p])

DeleteCompany(q) ==
  \E x \in User, c \in Companies : \E t \in tokens[x] :
    /\ SignedIn(x, t, {"root"})
    /\ Members(c) = {} /\ \A d \in Companies : company[d].parent # c
    /\ ChangeCompany(q, x, c, Gone)

\* A root user who has switched into the company is a member like any other.
CloseCompany(q) ==
  \E x \in User, c \in Companies : \E t \in tokens[x] :
    /\ SignedIn(x, t, {"root"})
    /\ TrueRoot(user[x]) /\ company[c].active
    /\ Decide(q, x, [u \in Handled(c) |-> [user[u] EXCEPT !.active = FALSE]],
              Only(c, [company[c] EXCEPT !.active = FALSE]), Handled(c), None, None)

\* Whoever is inactive and not banned comes back, whatever made him inactive.
OpenCompany(q) ==
  \E x \in User, c \in Companies : \E t \in tokens[x] :
    /\ SignedIn(x, t, {"root"})
    /\ TrueRoot(user[x]) /\ ~ company[c].active
    /\ Decide(q, x, [u \in {v \in Members(c) : ~ user[v].active /\ user[v].reactivable} |-> [user[u] EXCEPT !.active = TRUE]],
              Only(c, [company[c] EXCEPT !.active = TRUE]), {}, None, None)

Ask(q) ==
  /\ req[q] = Idle /\ asked < MaxRequests
  /\ \/ AssignRole(q) \/ RemoveRole(q) \/ SetActive(q) \/ BanUser(q) \/ UnbanUser(q) \/ EditProfile(q)
     \/ DeleteUser(q) \/ Register(q) \/ JoinCompany(q) \/ LeaveCompany(q)
     \/ SwitchCompany(q) \/ ExitCompany(q) \/ Login(q) \/ VerifyEmail(q) \/ VerifyOtp(q) \/ Refresh(q)
     \/ CreateCompany(q) \/ UpdateCompany(q) \/ DeleteCompany(q) \/ CloseCompany(q) \/ OpenCompany(q)

(***************************** Writing *************************************)
Written(f, old) == [k \in DOMAIN old |-> IF k \in DOMAIN f THEN f[k] ELSE old[k]]

\* What refers to a company that is deleted is set to null.
NextCompany(w) ==
  LET new == Written(w.firms, company)
  IN  [c \in Company |-> IF new[c] # Gone /\ new[c].parent \in Company /\ new[new[c].parent] = Gone
                         THEN [new[c] EXCEPT !.parent = None] ELSE new[c]]
NextUser(w, firms) ==
  LET new == Written(w.users, user)
  IN  [u \in User |-> IF new[u] # Gone /\ new[u].company \in Company /\ firms[new[u].company] = Gone
                      THEN [new[u] EXCEPT !.company = None] ELSE new[u]]

\* An update or a deletion finds its row, an insertion finds none, and a reference finds its row.
Possible(w) ==
  /\ \A u \in DOMAIN w.users : (w.saw[u] = Gone) = (user[u] = Gone)
  /\ \A c \in DOMAIN w.firms : (w.knew[c] = Gone) = (company[c] = Gone)
  /\ \A u \in DOMAIN w.users : w.users[u] # Gone => w.users[u].company \in Companies \cup {None}
  /\ \A c \in DOMAIN w.firms : w.firms[c] # Gone => w.firms[c].parent \in Companies \cup {None}
  /\ w.old # None => w.old \in tokens[w.by]
  /\ w.new # None => w.by \in Users

\* Sessions go with their user.
NextTokens(w, users) ==
  [u \in User |-> (IF users[u] = Gone \/ u \in w.out THEN {} ELSE tokens[u] \ (IF u = w.by THEN {w.old} ELSE {}))
                    \cup (IF u = w.by /\ w.new # None THEN {w.new} ELSE {})]

\* The users written back as they no longer were, or taken out of a deleted company,
\* or given a token for what they were.
Stale(w, users) ==
  {u \in DOMAIN w.users : w.saw[u] # user[u]}
    \cup {u \in Users \ DOMAIN w.users : users[u] # user[u]}
    \cup (IF w.new # None /\ w.me # user[w.by] THEN {w.by} ELSE {})
\* The members a closing company did not know of, or of one written back as it no longer was,
\* and who signs in while his company is changed.
Missed(w) ==
  {u \in Users \ w.out : \E c \in DOMAIN w.firms : w.firms[c] # Gone /\ ~ w.firms[c].active /\ u \in Handled(c)}
    \cup {u \in {w.by} : w.new # None /\ \E c \in Company : c = w.me.company /\ w.knew[c] # company[c]}
\* Who signs in to a closed company that nobody looked at.
Unseen(w) == {u \in {w.by} : w.new # None /\ ~ w.looked /\ w.me.company # None /\ ~ w.knew[w.me.company].active}
\* The users whose profile made them active, signed in, in a company that is closed.
Reopened(w) ==
  {u \in DOMAIN w.users : /\ w.users[u] # Gone /\ w.users[u].active /\ user[u] # Gone /\ ~ user[u].active
                          /\ u \notin w.out /\ w.firms = Nothing}

Commit(q) ==
  LET w == req[q]
      firms == NextCompany(w)
      users == NextUser(w, firms)
      raced == [stale |-> Stale(w, users), missed |-> Missed(w), profile |-> Reopened(w),
                unseen |-> Unseen(w)]
  IN  /\ w # Idle /\ Possible(w)
      /\ company' = firms
      /\ user' = users
      /\ tokens' = NextTokens(w, users)
      /\ cause' = [u \in User |-> IF users[u] = Gone THEN {}
                                  ELSE cause[u] \cup {k \in DOMAIN raced : u \in raced[k]}]
      /\ req' = [req EXCEPT ![q] = Idle]
      /\ UNCHANGED asked

\* A statement fails or the transaction takes too long: nothing is written.
Fail(q) ==
  /\ req[q] # Idle
  /\ req' = [req EXCEPT ![q] = Idle]
  /\ UNCHANGED <<user, company, tokens, asked, cause>>

Next == \E q \in Request : Ask(q) \/ Commit(q) \/ Fail(q)
Spec == Init /\ [][Next]_vars

(***************************** Properties **********************************)
\* Guards decide on the roles and the company in the token.  Every command that changes either signs
\* the user out, so the claims of a session are those of the row, but for root users who move
\* themselves and for rows written back stale (switch-company, assign-role, remove-role,
\* assign-user-to-company, remove-user-from-company, refresh-token).
ClaimsAreCurrent ==
  \A u \in User : \A t \in tokens[u] :
    \/ "stale" \in cause[u]
    \/ user[u] # Gone /\ (IsRoot(user[u]) \/ t = Claims(user[u]))

\* Nobody acts in the name of a company that was closed: its members were signed out, and whoever joined or was
\* registered since cannot sign in with a password.  But for rows written back stale, members the closing did not
\* know of, users a profile edit made active again with the sessions they had, and users who sign in where nobody
\* looks at the company: with the code of an address or of the second factor, or after an error of the look
\* (deactivate-company, validateCompanyActive, verify-email, verify-otp).
ClosedIsQuiet ==
  \A u \in Users :
    \/ cause[u] # {} \/ IsRoot(user[u]) \/ user[u].company = None
    \/ company[user[u].company].active \/ ~ user[u].active \/ tokens[u] = {}

\* What a user below root decides to change of somebody: that one is of his company or in none, and not above him,
\* does not rise above him, nor leave for a company that is not a subsidiary.  The decisions on claims, on two
\* orders of roles and on companies agree on this in all commands together, as long as the claims are no remains
\* of a race (UserAuthorizationService, UserRoleHierarchyService, InvitationRulesService).
AuthorityIsGiven ==
  [][\A q \in Request : req[q] = Idle /\ req'[q] # Idle =>
       LET w == req'[q]
       IN  \/ IsRoot(w.me) \/ cause[w.by] # {}
           \/ \A u \in DOMAIN w.users : w.users[u] = w.saw[u] \/
                /\ w.saw[u] = Gone \/ (Level(w.me) <= Level(w.saw[u]) /\ w.saw[u].company \in {None, w.me.company})
                /\ \/ w.users[u] = Gone
                   \/ /\ Level(w.me) <= Level(w.users[u])
                      /\ \/ w.users[u].company \in {None, w.me.company}
                         \/ w.knew[w.users[u].company].parent = w.me.company]_vars
=============================================================================
