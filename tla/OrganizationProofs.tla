-------------------------- MODULE OrganizationProofs --------------------------
(***************************************************************************)
(* What roles, companies and tokens add up to under concurrent requests,   *)
(* for every number of users, companies and requests: who is changed by    *)
(* whom, what the claims of a token are worth, and who still acts in a     *)
(* company that was closed.                                                *)
(***************************************************************************)
EXTENDS Organization, TLAPS

-----------------------------------------------------------------------------
(* The order of the roles (ROLE_HIERARCHY_ORDER).                           *)

LEMMA Places ==
  /\ \A r \in Role : Place[r] \in 1..8
  /\ \A r \in Role \ Root : Place[r] >= 4
  /\ Place["admin"] = 4
BY DEF Place, Role, Root

\* A set of places with the last one in it has a least element.
LEMMA LeastIsLeast ==
  ASSUME NEW S \in SUBSET (1..9), 9 \in S
  PROVE  Least(S) \in S /\ \A m \in S : Least(S) <= m
<1>1. \E n \in S : \A m \in S : n <= m
  <2>1. CASE 1 \in S
    BY <2>1
  <2>2. CASE 1 \notin S /\ 2 \in S
    BY <2>2
  <2>3. CASE 1 \notin S /\ 2 \notin S /\ 3 \in S
    BY <2>3
  <2>4. CASE 1 \notin S /\ 2 \notin S /\ 3 \notin S /\ 4 \in S
    BY <2>4
  <2>5. CASE 1 \notin S /\ 2 \notin S /\ 3 \notin S /\ 4 \notin S /\ 5 \in S
    BY <2>5
  <2>6. CASE 1 \notin S /\ 2 \notin S /\ 3 \notin S /\ 4 \notin S /\ 5 \notin S /\ 6 \in S
    BY <2>6
  <2>7. CASE 1 \notin S /\ 2 \notin S /\ 3 \notin S /\ 4 \notin S /\ 5 \notin S /\ 6 \notin S /\ 7 \in S
    BY <2>7
  <2>8. CASE \A n \in 1..7 : n \notin S
    BY <2>8
  <2> QED
    BY <2>1, <2>2, <2>3, <2>4, <2>5, <2>6, <2>7, <2>8
<1> QED
  BY <1>1 DEF Least

\* The level of a user is the place of his first role.
LEMMA Levels ==
  ASSUME NEW x, x.roles \subseteq Role
  PROVE  /\ Level(x) \in 1..9
         /\ \A r \in x.roles : Level(x) <= Place[r]
         /\ Level(x) = 9 \/ \E r \in x.roles : Level(x) = Place[r]
<1> DEFINE S == {Place[r] : r \in x.roles} \cup {9}
<1>1. S \in SUBSET (1..9) /\ 9 \in S
  BY Places
<1>2. Least(S) \in S /\ \A m \in S : Least(S) <= m
  BY <1>1, LeastIsLeast
<1>3. Level(x) = Least(S)
  BY DEF Level
<1> QED
  BY <1>1, <1>2, <1>3

\* Nobody rises by losing a role.
LEMMA FewerRoles ==
  ASSUME NEW x, NEW y, x.roles \subseteq Role, y.roles \subseteq x.roles
  PROVE  Level(x) <= Level(y)
<1>1. \A r \in y.roles : r \in x.roles
  OBVIOUS
<1>2. Level(x) \in 1..9 /\ \A r \in x.roles : Level(x) <= Place[r]
  BY Levels
<1>3. Level(y) = 9 \/ \E r \in y.roles : Level(y) = Place[r]
  BY <1>1, Levels
<1> QED
  BY <1>1, <1>2, <1>3

\* With one more role a user gets to its place at most.
LEMMA OneMoreRole ==
  ASSUME NEW x, NEW y, NEW r \in Role, x.roles \subseteq Role, y.roles = x.roles \cup {r},
         NEW n \in 1..9, n <= Level(x), n <= Place[r]
  PROVE  n <= Level(y)
<1>1. y.roles \subseteq Role
  OBVIOUS
<1>2. Level(y) = 9 \/ \E s \in y.roles : Level(y) = Place[s]
  BY <1>1, Levels
<1>3. \A s \in x.roles : n <= Place[s]
  BY Levels, Places
<1> QED
  BY <1>2, <1>3

\* An administrator who is not root is at the place of administrators.
LEMMA AdminLevel ==
  ASSUME NEW x, x.roles \subseteq Role, IsAdmin(x), ~ IsRoot(x)
  PROVE  Level(x) = 4
<1>1. \A r \in x.roles : Place[r] >= 4
  BY Places DEF IsRoot
<1>2. Level(x) <= 4 /\ Level(x) \in 1..9
  BY Levels, Places DEF IsAdmin
<1> QED
  BY <1>1, <1>2, Levels

-----------------------------------------------------------------------------
(* What a request has decided to write.                                     *)

\* Active means not banned.
RowOK(r) == r # Gone /\ r.active => r.reactivable

\* The claims of u are what they were, and he does not become active but by his profile or
\* with his company; whoever signs in writes his row back.
Kept(w, u) ==
  /\ w.saw[u] # Gone
  /\ w.users[u].roles = w.saw[u].roles /\ w.users[u].company = w.saw[u].company
  /\ w.users[u].active => \/ w.saw[u].active \/ w.firms = Nothing
                          \/ \E c \in DOMAIN w.firms :
                               c = w.users[u].company /\ w.firms[c] # Gone /\ w.firms[c].active
  /\ w.new # None => w.users[u] = w.saw[u]

\* A root user who moves himself.
Moves(w, u) == w.saw[u] # Gone /\ IsRoot(w.saw[u]) /\ w.users[u].roles = w.saw[u].roles

\* Each user that is written is deleted, signed out, new, as before to the guards, or root;
\* a token that is issued has the claims of the row that is written or read.
RequestOK(w) ==
  /\ DOMAIN w.users = {} \/ \A c \in DOMAIN w.firms : w.firms[c] # Gone
  /\ \A u \in DOMAIN w.users :
       /\ RowOK(w.users[u])
       /\ w.users[u] = Gone \/ u \in w.out \/ w.saw[u] = Gone \/ Kept(w, u) \/ Moves(w, u)
  /\ w.new # None =>
       /\ w.out = {} /\ DOMAIN w.users \subseteq {w.by} /\ w.firms = Nothing
       /\ w.by \notin DOMAIN w.users => w.new = Claims(w.me) /\ (w.old # None \/ ~ w.looked)
       /\ w.by \in DOMAIN w.users =>
            /\ w.saw[w.by] = w.me /\ w.users[w.by] # Gone /\ w.new = Claims(w.users[w.by])
            /\ \/ IsRoot(w.me) /\ w.users[w.by].roles = w.me.roles
               \/ /\ w.users[w.by] = w.me
                  /\ w.looked /\ w.me.company # None => w.knew[w.me.company] # Gone /\ w.knew[w.me.company].active

\* Authority, as AuthorityIsGiven has it, over what a request has decided.
Entitled(w) ==
  \A u \in DOMAIN w.users : w.users[u] = w.saw[u] \/
    /\ w.saw[u] = Gone \/ (Level(w.me) <= Level(w.saw[u]) /\ w.saw[u].company \in {None, w.me.company})
    /\ \/ w.users[u] = Gone
       \/ /\ Level(w.me) <= Level(w.users[u])
          /\ \/ w.users[u].company \in {None, w.me.company}
             \/ w.knew[w.users[u].company].parent = w.me.company

\* Rows: nobody is left of who is deleted, and everybody's company is there.
RowsOK ==
  /\ \A u \in User : user[u] = Gone => tokens[u] = {} /\ cause[u] = {}
  /\ \A u \in Users : RowOK(user[u]) /\ user[u].company \in Companies \cup {None}

Inv ==
  /\ TypeOK /\ RowsOK
  /\ \A q \in Request : req[q] # Idle => RequestOK(req[q])

\* What is true once q has asked.
Asked(q) ==
  /\ UNCHANGED <<user, company, tokens, cause>> /\ asked' \in 0..MaxRequests
  /\ DOMAIN req' = Request /\ \A s \in Request \ {q} : req'[s] = req[s]
  /\ IsRequest(req'[q]) /\ RequestOK(req'[q])

\* The request that Conclude makes, and Decide.
LEMMA ConcludeForm ==
  ASSUME Inv, NEW q \in Request, asked < MaxRequests,
         NEW x, NEW users, NEW firms, NEW out, NEW old, NEW new, NEW looked,
         Conclude(q, x, users, firms, out, old, new, looked)
  PROVE  /\ UNCHANGED <<user, company, tokens, cause>> /\ asked' \in 0..MaxRequests
         /\ DOMAIN req' = Request /\ \A s \in Request \ {q} : req'[s] = req[s]
         /\ req'[q] = [by |-> x, me |-> user[x], saw |-> [u \in DOMAIN users |-> user[u]], knew |-> company,
                       users |-> users, firms |-> firms, out |-> out, old |-> old, new |-> new,
                       looked |-> looked]
BY OrganizationAssumption DEF Inv, TypeOK, Conclude

LEMMA DecideForm ==
  ASSUME Inv, NEW q \in Request, asked < MaxRequests,
         NEW x, NEW users, NEW firms, NEW out, NEW old, NEW new,
         Decide(q, x, users, firms, out, old, new)
  PROVE  /\ UNCHANGED <<user, company, tokens, cause>> /\ asked' \in 0..MaxRequests
         /\ DOMAIN req' = Request /\ \A s \in Request \ {q} : req'[s] = req[s]
         /\ req'[q] = [by |-> x, me |-> user[x], saw |-> [u \in DOMAIN users |-> user[u]], knew |-> company,
                       users |-> users, firms |-> firms, out |-> out, old |-> old, new |-> new,
                       looked |-> TRUE]
BY OrganizationAssumption DEF Inv, TypeOK, Conclude, Decide

\* One row of a user is written.
LEMMA ChangeUserAsked ==
  ASSUME Inv, NEW q \in Request, asked < MaxRequests, NEW x \in Users, NEW u \in User,
         NEW row \in UserRow \cup {Gone}, NEW out \in SUBSET {u}, ChangeUser(q, x, u, row, out),
         RowOK(row),
         \/ row = Gone \/ u \in out \/ user[u] = Gone
         \/ row.roles = user[u].roles /\ row.company = user[u].company
  PROVE  /\ Asked(q)
         /\ req'[q].by = x /\ req'[q].me = user[x]
         /\ (\/ row = user[u]
             \/ /\ user[u] = Gone \/ (Level(user[x]) <= Level(user[u]) /\ user[u].company \in {None, user[x].company})
                /\ \/ row = Gone
                   \/ /\ Level(user[x]) <= Level(row)
                      /\ \/ row.company \in {None, user[x].company}
                         \/ company[row.company].parent = user[x].company)
            => Entitled(req'[q])
<1> DEFINE w == req'[q]
<1>1. TypeOK /\ x \in User /\ user[x] \in UserRow
  BY DEF Inv, TypeOK, Users
<1>2. DOMAIN Only(u, row) = {u} /\ Only(u, row)[u] = row
  BY DEF Only
<1>3. /\ UNCHANGED <<user, company, tokens, cause>> /\ asked' \in 0..MaxRequests
      /\ DOMAIN req' = Request /\ \A s \in Request \ {q} : req'[s] = req[s]
      /\ w = [by |-> x, me |-> user[x], saw |-> [v \in DOMAIN Only(u, row) |-> user[v]], knew |-> company,
              users |-> Only(u, row), firms |-> Nothing, out |-> out, old |-> None, new |-> None,
              looked |-> TRUE]
  BY DecideForm DEF ChangeUser
<1>4. /\ w.by = x /\ w.me = user[x] /\ w.knew = company /\ w.out = out /\ w.old = None /\ w.new = None /\ w.looked = TRUE
      /\ w.firms = Nothing /\ w.users = Only(u, row) /\ w.saw = [v \in {u} |-> user[v]]
  BY <1>2, <1>3
<1>5. DOMAIN w.users = {u} /\ w.users[u] = row /\ w.saw[u] = user[u]
  BY <1>2, <1>4
<1>6. DOMAIN Nothing = {}
  BY DEF Nothing
<1>7. IsRequest(w)
  <2>1. Only(u, row) \in [{u} -> UserRow \cup {Gone}]
    BY DEF Only
  <2>2. w.saw \in [{u} -> UserRow \cup {Gone}]
    BY <1>1, <1>4 DEF TypeOK
  <2>3. SomeRows(Nothing, Company, FirmRow \cup {Gone})
    BY <1>6 DEF SomeRows, Nothing
  <2> QED
    BY <1>1, <1>4, <1>5, <2>1, <2>2, <2>3 DEF IsRequest, SomeRows, TypeOK
<1>8. RequestOK(w)
  <2>1. user[u] # Gone /\ row # Gone /\ row.roles = user[u].roles /\ row.company = user[u].company => Kept(w, u)
    BY <1>4, <1>5 DEF Kept
  <2> QED
    BY <1>4, <1>5, <1>6, <2>1 DEF RequestOK
<1>9. Asked(q)
  BY <1>3, <1>7, <1>8 DEF Asked
<1> HIDE DEF w
<1> QED
  BY <1>4, <1>5, <1>9 DEF Entitled, w

-----------------------------------------------------------------------------
(* The commands: each of them decides within the authority of whoever asks. *)

\* The decision is that of a root user, a victim of a race, or somebody entitled to it.
Fair(q) == IsRoot(req'[q].me) \/ cause[req'[q].by] # {} \/ Entitled(req'[q])

\* The claims of who is signed in are those of his row, below root and without a race.
LEMMA Claimed ==
  ASSUME Inv, ClaimsAreCurrent, NEW x \in User, NEW t \in tokens[x], NEW roles, SignedIn(x, t, roles)
  PROVE  /\ x \in Users /\ user[x] \in UserRow /\ user[x].active
         /\ cause[x] = {} /\ ~ IsRoot(user[x]) =>
              t.roles = user[x].roles /\ t.company = user[x].company /\ t.company # None
<1>1. x \in Users /\ user[x] \in UserRow /\ user[x].active
  BY DEF Inv, TypeOK, SignedIn, Users
<1>2. cause[x] = {} /\ ~ IsRoot(user[x]) => t = Claims(user[x])
  BY DEF ClaimsAreCurrent
<1>3. t = Claims(user[x]) => t.roles = user[x].roles /\ t.company = user[x].company
  BY DEF Claims
<1>4. t.roles = user[x].roles /\ ~ IsRoot(user[x]) => t.company # None
  BY DEF SignedIn, IsRoot
<1> QED
  BY <1>1, <1>2, <1>3, <1>4

\* A row with one column changed.
LEMMA RowForms ==
  ASSUME NEW r \in UserRow
  PROVE  /\ r.roles \subseteq Role /\ r.company \in Company \cup {None}
         /\ r.active \in BOOLEAN /\ r.reactivable \in BOOLEAN
         /\ \A S \in SUBSET Role :
              /\ [r EXCEPT !.roles = S] \in UserRow /\ [r EXCEPT !.roles = S].roles = S
              /\ [r EXCEPT !.roles = S].company = r.company /\ [r EXCEPT !.roles = S].active = r.active
              /\ [r EXCEPT !.roles = S].reactivable = r.reactivable
         /\ \A c \in Company \cup {None} :
              /\ [r EXCEPT !.company = c] \in UserRow /\ [r EXCEPT !.company = c].company = c
              /\ [r EXCEPT !.company = c].roles = r.roles /\ [r EXCEPT !.company = c].active = r.active
              /\ [r EXCEPT !.company = c].reactivable = r.reactivable
         /\ \A b \in BOOLEAN :
              /\ [r EXCEPT !.active = b] \in UserRow /\ [r EXCEPT !.active = b].active = b
              /\ [r EXCEPT !.active = b].roles = r.roles /\ [r EXCEPT !.active = b].company = r.company
              /\ [r EXCEPT !.active = b].reactivable = r.reactivable
              /\ [r EXCEPT !.reactivable = b] \in UserRow /\ [r EXCEPT !.reactivable = b].reactivable = b
              /\ [r EXCEPT !.reactivable = b].roles = r.roles /\ [r EXCEPT !.reactivable = b].company = r.company
              /\ [r EXCEPT !.reactivable = b].active = r.active
BY DEF UserRow

LEMMA RowFacts ==
  ASSUME Inv, NEW u \in Users
  PROVE  /\ u \in User /\ user[u] \in UserRow /\ user[u] # Gone
         /\ user[u].active => user[u].reactivable
         /\ user[u].company \in Companies \cup {None}
BY DEF Inv, TypeOK, RowsOK, RowOK, Users

\* assign-role: an administrator gives nobody more than an administrator has.
LEMMA AssignRoleFair ==
  ASSUME Inv, ClaimsAreCurrent, NEW q \in Request, asked < MaxRequests, AssignRole(q)
  PROVE  Asked(q) /\ Fair(q)
<1>1. PICK x \in User, u \in Users, r \in Grant : \E t \in tokens[x] :
        /\ SignedIn(x, t, {"root", "admin"})
        /\ CanAssign(user[x], user[u], r, x = u, t.company)
        /\ ChangeUser(q, x, u, [user[u] EXCEPT !.roles = @ \cup {r}], {u})
  BY DEF AssignRole
<1>2. PICK t \in tokens[x] :
        /\ SignedIn(x, t, {"root", "admin"})
        /\ CanAssign(user[x], user[u], r, x = u, t.company)
        /\ ChangeUser(q, x, u, [user[u] EXCEPT !.roles = @ \cup {r}], {u})
  BY <1>1
<1> DEFINE row == [user[u] EXCEPT !.roles = @ \cup {r}]
<1>3. /\ x \in Users /\ user[x] \in UserRow
      /\ cause[x] = {} /\ ~ IsRoot(user[x]) =>
           t.roles = user[x].roles /\ t.company = user[x].company /\ t.company # None
  BY <1>2, Claimed
<1>4. u \in User /\ user[u] \in UserRow /\ user[u] # Gone /\ RowOK(user[u]) /\ r \in Role
  BY RowFacts, OrganizationAssumption DEF RowOK
<1>5. /\ row \in UserRow /\ row.roles = user[u].roles \cup {r} /\ row.company = user[u].company
      /\ row.active = user[u].active /\ row.reactivable = user[u].reactivable
  BY <1>4, RowForms
<1>6. row # Gone /\ RowOK(row)
  BY <1>4, <1>5, OrganizationAssumption DEF RowOK
<1> HIDE DEF row
<1>7. ChangeUser(q, x, u, row, {u})
  BY <1>2 DEF row
<1>8. ASSUME cause[x] = {}, ~ IsRoot(user[x])
      PROVE  /\ Level(user[x]) <= Level(user[u]) /\ user[u].company \in {None, user[x].company}
             /\ Level(user[x]) <= Level(row) /\ row.company \in {None, user[x].company}
  <2>1. IsAdmin(user[x]) /\ CanModify(user[x], user[u], x = u) /\ ValidAssignment(user[x], user[u], r)
    BY <1>2, <1>3, <1>8 DEF CanAssign
  <2>2. Level(user[x]) <= Level(user[u])
    BY <1>8, <2>1 DEF CanModify, CanManage
  <2>3. user[u].company \in {None, user[x].company}
    BY <1>3, <1>8, <2>1 DEF ValidAssignment
  <2>4. Level(user[x]) = 4 /\ Place[r] >= 4
    BY <1>3, <1>4, <1>8, <2>1, AdminLevel, RowForms, Places DEF ValidAssignment
  <2>5. Level(user[x]) <= Level(row)
    BY <1>4, <1>5, <2>2, <2>4, RowForms, OneMoreRole, Places
  <2> QED
    BY <1>5, <2>2, <2>3, <2>5
<1>9. /\ Asked(q) /\ req'[q].by = x /\ req'[q].me = user[x]
      /\ ((/\ Level(user[x]) <= Level(user[u]) /\ user[u].company \in {None, user[x].company}
           /\ Level(user[x]) <= Level(row) /\ row.company \in {None, user[x].company}) => Entitled(req'[q]))
  BY <1>3, <1>4, <1>5, <1>6, <1>7, ChangeUserAsked
<1> QED
  BY <1>8, <1>9 DEF Fair

\* unassign-role, set-active: the one who is changed keeps his company and gains no role.
LEMMA RemoveRoleFair ==
  ASSUME Inv, ClaimsAreCurrent, NEW q \in Request, asked < MaxRequests, RemoveRole(q)
  PROVE  Asked(q) /\ Fair(q)
<1>1. PICK x \in User, u \in Users, r \in Grant : \E t \in tokens[x] :
        /\ SignedIn(x, t, {"root", "admin", "manager"})
        /\ user[u].active /\ CanUnassign(user[x], user[u], r, x = u)
        /\ ChangeUser(q, x, u, [user[u] EXCEPT !.roles = @ \ {r}], {u})
  BY DEF RemoveRole
<1> DEFINE row == [user[u] EXCEPT !.roles = @ \ {r}]
<1>2. x \in Users /\ user[x] \in UserRow
  BY <1>1, Claimed
<1>3. u \in User /\ user[u] \in UserRow /\ user[u] # Gone /\ RowOK(user[u])
  BY RowFacts DEF RowOK
<1>4. /\ row \in UserRow /\ row.roles = user[u].roles \ {r} /\ row.company = user[u].company
      /\ row.active = user[u].active /\ row.reactivable = user[u].reactivable
  <2>1. user[u].roles \subseteq Role
    BY <1>3, RowForms
  <2>2. user[u].roles \ {r} \in SUBSET Role
    BY <2>1
  <2> QED
    BY <1>3, <2>2, RowForms
<1>5. row # Gone /\ RowOK(row)
  BY <1>3, <1>4, OrganizationAssumption DEF RowOK
<1> HIDE DEF row
<1>6. ChangeUser(q, x, u, row, {u})
  BY <1>1 DEF row
<1>7. ASSUME ~ IsRoot(user[x])
      PROVE  /\ Level(user[x]) <= Level(user[u]) /\ user[u].company \in {None, user[x].company}
             /\ Level(user[x]) <= Level(row) /\ row.company \in {None, user[x].company}
  <2>1. CanModify(user[x], user[u], x = u) /\ user[x].company = user[u].company
    BY <1>1, <1>7 DEF CanUnassign
  <2>2. Level(user[x]) <= Level(user[u])
    BY <1>7, <2>1 DEF CanModify, CanManage
  <2>3. Level(user[u]) <= Level(row)
    BY <1>3, <1>4, RowForms, FewerRoles
  <2>4. Level(user[x]) \in 1..9 /\ Level(user[u]) \in 1..9 /\ Level(row) \in 1..9
    BY <1>2, <1>3, <1>4, RowForms, Levels
  <2> QED
    BY <1>4, <2>1, <2>2, <2>3, <2>4
<1>8. /\ Asked(q) /\ req'[q].by = x /\ req'[q].me = user[x]
      /\ ((/\ Level(user[x]) <= Level(user[u]) /\ user[u].company \in {None, user[x].company}
           /\ Level(user[x]) <= Level(row) /\ row.company \in {None, user[x].company}) => Entitled(req'[q]))
  BY <1>2, <1>3, <1>4, <1>5, <1>6, ChangeUserAsked
<1> QED
  BY <1>7, <1>8 DEF Fair

\* The level of a user depends on his roles only.
LEMMA SameRoles ==
  ASSUME NEW x, NEW y, x.roles = y.roles
  PROVE  Level(x) = Level(y)
BY DEF Level

\* set-active, ban, unban, profile: roles and company stay as they are.
LEMMA StateChangeFair ==
  ASSUME Inv, NEW q \in Request, asked < MaxRequests, NEW x \in Users, NEW u \in Users,
         NEW row \in UserRow, row.roles = user[u].roles, row.company = user[u].company, RowOK(row),
         NEW out \in SUBSET {u}, ChangeUser(q, x, u, row, out),
         \/ IsRoot(user[x])
         \/ Level(user[x]) <= Level(user[u]) /\ user[u].company \in {None, user[x].company}
  PROVE  Asked(q) /\ Fair(q)
<1>1. u \in User /\ Level(row) = Level(user[u])
  BY SameRoles DEF Users
<1>2. /\ Asked(q) /\ req'[q].by = x /\ req'[q].me = user[x]
      /\ ((/\ Level(user[x]) <= Level(user[u]) /\ user[u].company \in {None, user[x].company}
           /\ Level(user[x]) <= Level(row) /\ row.company \in {None, user[x].company}) => Entitled(req'[q]))
  BY <1>1, ChangeUserAsked
<1> QED
  BY <1>1, <1>2 DEF Fair

LEMMA ActivationFair ==
  ASSUME Inv, ClaimsAreCurrent, NEW q \in Request, asked < MaxRequests,
         SetActive(q) \/ BanUser(q) \/ UnbanUser(q) \/ EditProfile(q)
  PROVE  Asked(q) /\ Fair(q)
<1>1. CASE SetActive(q)
  <2>1. PICK x \in User, u \in Users, on \in BOOLEAN : \E t \in tokens[x] :
          /\ SignedIn(x, t, {"root", "admin"})
          /\ CanActivate(user[x], user[u]) /\ CanModify(user[x], user[u], x = u)
          /\ on => user[u].active \/ user[u].reactivable
          /\ ChangeUser(q, x, u, [user[u] EXCEPT !.active = on], {u})
    BY <1>1 DEF SetActive
  <2> DEFINE row == [user[u] EXCEPT !.active = on]
  <2>2. x \in Users
    BY <2>1, Claimed
  <2>3. user[u] \in UserRow /\ (user[u].active => user[u].reactivable)
    BY RowFacts
  <2>4. /\ row \in UserRow /\ row.roles = user[u].roles /\ row.company = user[u].company
        /\ row.active = on /\ row.reactivable = user[u].reactivable
    BY <2>3 DEF UserRow
  <2>5. RowOK(row)
    BY <2>1, <2>3, <2>4 DEF RowOK
  <2>6. IsRoot(user[x]) \/ (Level(user[x]) <= Level(user[u]) /\ user[u].company \in {None, user[x].company})
    BY <2>1 DEF CanActivate, CanModify, CanManage
  <2> HIDE DEF row
  <2>7. ChangeUser(q, x, u, row, {u})
    BY <2>1 DEF row
  <2> QED
    BY <2>2, <2>4, <2>5, <2>6, <2>7, StateChangeFair
<1>2. CASE BanUser(q)
  <2>1. PICK x \in User, u \in Users : \E t \in tokens[x] :
          /\ SignedIn(x, t, {"root"}) /\ TrueRoot(user[x])
          /\ ChangeUser(q, x, u, [user[u] EXCEPT !.active = FALSE, !.reactivable = FALSE], {u})
    BY <1>2 DEF BanUser
  <2> DEFINE row == [user[u] EXCEPT !.active = FALSE, !.reactivable = FALSE]
  <2>2. x \in Users
    BY <2>1, Claimed
  <2>3. user[u] \in UserRow
    BY RowFacts
  <2>4. row \in UserRow /\ row.roles = user[u].roles /\ row.company = user[u].company /\ row.active = FALSE
    BY <2>3 DEF UserRow
  <2>5. RowOK(row) /\ IsRoot(user[x])
    BY <2>1, <2>4 DEF RowOK, TrueRoot, AccessRoot
  <2> HIDE DEF row
  <2>6. ChangeUser(q, x, u, row, {u})
    BY <2>1 DEF row
  <2> QED
    BY <2>2, <2>4, <2>5, <2>6, StateChangeFair
<1>3. CASE UnbanUser(q)
  <2>1. PICK x \in User, u \in Users : \E t \in tokens[x] :
          /\ SignedIn(x, t, {"root"}) /\ TrueRoot(user[x])
          /\ ChangeUser(q, x, u, [user[u] EXCEPT !.reactivable = TRUE], {})
    BY <1>3 DEF UnbanUser
  <2> DEFINE row == [user[u] EXCEPT !.reactivable = TRUE]
  <2>2. x \in Users
    BY <2>1, Claimed
  <2>3. user[u] \in UserRow
    BY RowFacts
  <2>4. row \in UserRow /\ row.roles = user[u].roles /\ row.company = user[u].company /\ row.reactivable = TRUE
    BY <2>3, RowForms
  <2>5. RowOK(row) /\ IsRoot(user[x])
    BY <2>1, <2>4 DEF RowOK, TrueRoot, AccessRoot
  <2> HIDE DEF row
  <2>6. ChangeUser(q, x, u, row, {}) /\ {} \in SUBSET {u}
    BY <2>1 DEF row
  <2> QED
    BY <2>2, <2>4, <2>5, <2>6, StateChangeFair
<1>4. CASE EditProfile(q)
  <2>1. PICK x \in User, u \in Users : \E t \in tokens[x] :
          /\ SignedIn(x, t, {"root", "admin", "manager"})
          /\ CanAccess(user[x], user[u], x = u) /\ CanModify(user[x], user[u], x = u)
          /\ \E row \in {user[u], [user[u] EXCEPT !.active = FALSE], [user[u] EXCEPT !.active = @ \/ user[u].reactivable],
                         [user[u] EXCEPT !.active = FALSE, !.reactivable = FALSE], [user[u] EXCEPT !.reactivable = TRUE]} :
               ChangeUser(q, x, u, row, {})
    BY <1>4 DEF EditProfile
  <2>2. x \in Users /\ user[x] \in UserRow
    BY <2>1, Claimed
  <2>3. user[u] \in UserRow /\ (user[u].active => user[u].reactivable)
    BY RowFacts
  <2>4. PICK row \in {user[u], [user[u] EXCEPT !.active = FALSE], [user[u] EXCEPT !.active = @ \/ user[u].reactivable],
                      [user[u] EXCEPT !.active = FALSE, !.reactivable = FALSE], [user[u] EXCEPT !.reactivable = TRUE]} :
          ChangeUser(q, x, u, row, {})
    BY <2>1
  <2>5. row \in UserRow /\ row.roles = user[u].roles /\ row.company = user[u].company /\ RowOK(row)
    <3>1. user[u].active \in BOOLEAN /\ user[u].reactivable \in BOOLEAN
      BY <2>3, RowForms
    <3>2. (user[u].active \/ user[u].reactivable) \in BOOLEAN
      OBVIOUS
    <3>3. [user[u] EXCEPT !.active = @ \/ user[u].reactivable] = [user[u] EXCEPT !.active = user[u].active \/ user[u].reactivable]
      BY <2>3 DEF UserRow
    <3>4. CASE row = user[u]
      BY <2>3, <3>4 DEF RowOK
    <3>5. CASE row = [user[u] EXCEPT !.active = FALSE]
      BY <2>3, <3>5, RowForms DEF RowOK
    <3>6. CASE row = [user[u] EXCEPT !.active = user[u].active \/ user[u].reactivable]
      <4>1. PICK b \in BOOLEAN : b = (user[u].active \/ user[u].reactivable)
        BY <3>2
      <4>2. row = [user[u] EXCEPT !.active = b]
        BY <3>6, <4>1
      <4>3. /\ row \in UserRow /\ row.roles = user[u].roles /\ row.company = user[u].company
            /\ row.active = b /\ row.reactivable = user[u].reactivable
        BY <2>3, <4>2 DEF UserRow
      <4> QED
        BY <2>3, <4>1, <4>3 DEF RowOK
    <3>7. CASE row = [user[u] EXCEPT !.active = FALSE, !.reactivable = FALSE]
      BY <2>3, <3>7 DEF RowOK, UserRow
    <3>8. CASE row = [user[u] EXCEPT !.reactivable = TRUE]
      BY <2>3, <3>8, RowForms DEF RowOK
    <3> QED
      BY <2>4, <3>3, <3>4, <3>5, <3>6, <3>7, <3>8
  <2>6. IsRoot(user[x]) \/ (Level(user[x]) <= Level(user[u]) /\ user[u].company \in {None, user[x].company})
    <3> SUFFICES ASSUME ~ IsRoot(user[x])
                 PROVE  Level(user[x]) <= Level(user[u]) /\ user[u].company \in {None, user[x].company}
      OBVIOUS
    <3>1. ~ AccessRoot(user[x])
      BY DEF AccessRoot
    <3>2. user[u].company = user[x].company
      BY <2>1, <3>1 DEF CanAccess
    <3>3. Level(user[x]) <= Level(user[u])
      BY <2>1 DEF CanModify, CanManage
    <3> QED
      BY <3>2, <3>3
  <2>7. {} \in SUBSET {u}
    OBVIOUS
  <2> QED
    BY <2>2, <2>4, <2>5, <2>6, <2>7, StateChangeFair
<1> QED
  BY <1>1, <1>2, <1>3, <1>4

LEMMA DeleteUserFair ==
  ASSUME Inv, ClaimsAreCurrent, NEW q \in Request, asked < MaxRequests, DeleteUser(q)
  PROVE  Asked(q) /\ Fair(q)
<1>1. PICK x \in User, u \in Users : \E t \in tokens[x] :
        /\ SignedIn(x, t, {"root", "admin", "manager"})
        /\ CanDelete(user[x], user[u])
        /\ ChangeUser(q, x, u, Gone, {u})
  BY DEF DeleteUser
<1>2. x \in Users /\ u \in User
  BY <1>1, Claimed, RowFacts
<1>3. IsRoot(user[x]) \/ (Level(user[x]) <= Level(user[u]) /\ user[u].company \in {None, user[x].company})
  BY <1>1 DEF CanDelete, CanManage
<1>4. RowOK(Gone)
  BY DEF RowOK
<1>5. /\ Asked(q) /\ req'[q].by = x /\ req'[q].me = user[x]
      /\ (Level(user[x]) <= Level(user[u]) /\ user[u].company \in {None, user[x].company}) => Entitled(req'[q])
  BY <1>1, <1>2, <1>4, ChangeUserAsked
<1> QED
  BY <1>3, <1>5 DEF Fair

\* Whoever invites has a role that comes no later than the one he gives.
LEMMA InviterRole ==
  ASSUME NEW roles \in SUBSET Role, roles \cap Root = {}, NEW r, r \in Invitable[InviteRole(roles)]
  PROVE  /\ InviteRole(roles) \in roles /\ InviteRole(roles) # "root"
         /\ r \in Role /\ Place[InviteRole(roles)] <= Place[r]
<1> DEFINE known == roles \ {"host"}
           by == InviteRole(roles)
<1>1. CASE known = {}
  <2>1. by = "guest"
    BY <1>1 DEF InviteRole
  <2>2. Invitable["guest"] = {}
    BY DEF Invitable
  <2> QED
    BY <2>1, <2>2
<1>2. CASE known # {}
  <2>1. \E k \in known : \A s \in known : Place[k] <= Place[s]
    <3> DEFINE S == {Place[k] : k \in known} \cup {9}
    <3>1. S \in SUBSET (1..9) /\ 9 \in S
      BY Places
    <3>2. PICK n \in S : \A m \in S : n <= m
      BY <3>1, LeastIsLeast
    <3>3. PICK k \in known : TRUE
      BY <1>2
    <3>4. k \in Role /\ Place[k] \in S
      BY <3>3
    <3>5. n <= Place[k] /\ Place[k] \in 1..8 /\ n \in 1..9
      BY <3>1, <3>2, <3>4, Places
    <3>6. n # 9
      BY <3>5
    <3>7. PICK j \in known : Place[j] = n
      BY <3>2, <3>6
    <3> QED
      BY <3>2, <3>7
  <2>2. by = CHOOSE k \in known : \A s \in known : Place[k] <= Place[s]
    BY <1>2 DEF InviteRole
  <2>3. by \in known
    BY <2>1, <2>2
  <2>4. by \in {"admin", "manager", "sales_agent", "guest"}
    BY <2>3 DEF Role, Root
  <2>5. CASE by = "admin"
    BY <2>3, <2>5 DEF Invitable, Place, Role
  <2>6. CASE by = "manager"
    BY <2>3, <2>6 DEF Invitable, Place, Role
  <2>7. CASE by \in {"sales_agent", "guest"}
    BY <2>7 DEF Invitable
  <2> QED
    BY <2>4, <2>5, <2>6, <2>7
<1> QED
  BY <1>1, <1>2

\* register: decided from the claims alone, which are those of the row but after a race.
LEMMA RegisterFair ==
  ASSUME Inv, ClaimsAreCurrent, NEW q \in Request, asked < MaxRequests, Register(q)
  PROVE  Asked(q) /\ Fair(q)
<1>1. PICK x \in User, u \in User \ Users, r \in Grant, to \in Companies \cup {None}, on \in BOOLEAN :
        \E t \in tokens[x] :
          /\ SignedIn(x, t, {"root", "admin", "manager"})
          /\ r \notin Root /\ CanInvite(t, r, to)
          /\ ChangeUser(q, x, u, [roles |-> {r}, company |-> to, active |-> on, reactivable |-> TRUE], {})
  BY DEF Register
<1>2. PICK t \in tokens[x] :
          /\ SignedIn(x, t, {"root", "admin", "manager"})
          /\ r \notin Root /\ CanInvite(t, r, to)
          /\ ChangeUser(q, x, u, [roles |-> {r}, company |-> to, active |-> on, reactivable |-> TRUE], {})
  BY <1>1
<1> DEFINE row == [roles |-> {r}, company |-> to, active |-> on, reactivable |-> TRUE]
<1>3. /\ x \in Users /\ user[x] \in UserRow
      /\ cause[x] = {} /\ ~ IsRoot(user[x]) => t.roles = user[x].roles /\ t.company = user[x].company
  BY <1>2, Claimed
<1>4. user[u] = Gone /\ r \in Role
  BY OrganizationAssumption DEF Users
<1>5. row \in UserRow /\ row.roles = {r} /\ row.company = to /\ RowOK(row)
  BY <1>4 DEF UserRow, Companies, RowOK
<1> HIDE DEF row
<1>6. ChangeUser(q, x, u, row, {}) /\ {} \in SUBSET {u}
  BY <1>2 DEF row
<1>7. ASSUME cause[x] = {}, ~ IsRoot(user[x])
      PROVE  Level(user[x]) <= Level(row) /\ row.company \in {None, user[x].company}
  <2>1. user[x].roles \in SUBSET Role /\ user[x].roles \cap Root = {}
    BY <1>3, <1>7, RowForms DEF IsRoot
  <2> DEFINE by == InviteRole(user[x].roles)
  <2>2. r \in Invitable[by] /\ (by # "root" => to = user[x].company)
    BY <1>2, <1>3, <1>7 DEF CanInvite
  <2>3. by \in user[x].roles /\ by # "root" /\ Place[by] <= Place[r]
    BY <2>1, <2>2, InviterRole
  <2>4. Level(user[x]) <= Place[by] /\ Level(user[x]) \in 1..9
    BY <2>1, <2>3, Levels
  <2>5. Level(row) = 9 \/ Level(row) = Place[r]
    BY <1>4, <1>5, Levels
  <2>6. Place[by] \in 1..8 /\ Place[r] \in 1..8
    BY <1>4, <2>1, <2>3, Places
  <2> HIDE DEF by
  <2> QED
    BY <1>5, <2>2, <2>3, <2>4, <2>5, <2>6
<1>8. /\ Asked(q) /\ req'[q].by = x /\ req'[q].me = user[x]
      /\ (Level(user[x]) <= Level(row) /\ row.company \in {None, user[x].company}) => Entitled(req'[q])
  BY <1>3, <1>4, <1>5, <1>6, ChangeUserAsked
<1> QED
  BY <1>7, <1>8 DEF Fair

\* assign-user-to-company, remove-user-from-company.
LEMMA MembershipFair ==
  ASSUME Inv, ClaimsAreCurrent, NEW q \in Request, asked < MaxRequests, JoinCompany(q) \/ LeaveCompany(q)
  PROVE  Asked(q) /\ Fair(q)
<1>1. PICK x \in User, u \in Users, to \in Company \cup {None} :
        /\ \E t \in tokens[x] : SignedIn(x, t, {"root", "admin"})
        /\ ChangeUser(q, x, u, [user[u] EXCEPT !.company = to], {u})
        /\ CanManage(user[x], user[u])
        /\ \/ IsRoot(user[x])
           \/ /\ user[u].company \in {None, user[x].company}
              /\ to = None \/ to = user[x].company \/ company[to].parent = user[x].company
  <2>1. CASE JoinCompany(q)
    <3>1. PICK x \in User, u \in Users, to \in Companies : \E t \in tokens[x] :
            /\ SignedIn(x, t, {"root", "admin"})
            /\ CanJoin(user[x], user[u], to, company[to].parent)
            /\ ChangeUser(q, x, u, [user[u] EXCEPT !.company = to], {u})
      BY <2>1 DEF JoinCompany
    <3>2. to \in Company
      BY DEF Companies
    <3> QED
      BY <3>1, <3>2 DEF CanJoin
  <2>2. CASE LeaveCompany(q)
    BY <2>2 DEF LeaveCompany, CanLeave
  <2> QED
    BY <2>1, <2>2
<1> DEFINE row == [user[u] EXCEPT !.company = to]
<1>2. x \in Users /\ u \in User
  BY <1>1, Claimed, RowFacts
<1>3. user[u] \in UserRow /\ (user[u].active => user[u].reactivable)
  BY RowFacts
<1>4. /\ row \in UserRow /\ row.roles = user[u].roles /\ row.company = to
      /\ row.active = user[u].active /\ row.reactivable = user[u].reactivable
  BY <1>3 DEF UserRow
<1>5. RowOK(row)
  BY <1>3, <1>4 DEF RowOK
<1> HIDE DEF row
<1>6. ChangeUser(q, x, u, row, {u})
  BY <1>1 DEF row
<1>7. Level(row) = Level(user[u])
  BY <1>4, SameRoles
<1>8. /\ Asked(q) /\ req'[q].by = x /\ req'[q].me = user[x]
      /\ ((/\ Level(user[x]) <= Level(user[u]) /\ user[u].company \in {None, user[x].company}
           /\ Level(user[x]) <= Level(row)
           /\ \/ row.company \in {None, user[x].company}
              \/ company[row.company].parent = user[x].company) => Entitled(req'[q]))
  BY <1>2, <1>4, <1>5, <1>6, ChangeUserAsked
<1> QED
  BY <1>1, <1>4, <1>7, <1>8 DEF Fair, CanManage

\* What a request keeps is typed.
LEMMA RequestTyped ==
  ASSUME Inv, NEW w, w.by \in Users, w.me = user[w.by], w.out \subseteq User,
         SomeRows(w.users, User, UserRow \cup {Gone}), w.saw = [u \in DOMAIN w.users |-> user[u]],
         SomeRows(w.firms, Company, FirmRow \cup {Gone}), w.knew = company,
         w.old \in Token \cup {None}, w.new \in Token \cup {None}, w.looked \in BOOLEAN
  PROVE  IsRequest(w)
<1>1. w.by \in User /\ w.me \in UserRow
  BY RowFacts
<1>2. w.saw \in [DOMAIN w.users -> UserRow \cup {Gone}]
  BY DEF SomeRows, Inv, TypeOK
<1>3. w.knew \in [Company -> FirmRow \cup {Gone}]
  BY DEF Inv, TypeOK
<1> QED
  BY <1>1, <1>2, <1>3 DEF IsRequest

\* No row of a user, no company.
LEMMA NothingForm ==
  /\ DOMAIN Nothing = {}
  /\ \A S, T : SomeRows(Nothing, S, T)
BY DEF Nothing, SomeRows

LEMMA OnlyForm ==
  ASSUME NEW k, NEW row
  PROVE  /\ DOMAIN Only(k, row) = {k} /\ Only(k, row)[k] = row
         /\ \A S, T : k \in S /\ row \in T => SomeRows(Only(k, row), S, T)
BY DEF Only, SomeRows

LEMMA ClaimsForm ==
  ASSUME NEW row \in UserRow PROVE Claims(row) \in Token /\ Claims(row) # None
BY OrganizationAssumption DEF UserRow, Claims, Token

\* switch-company, exit-company: a root user moves himself.
LEMMA MoveFair ==
  ASSUME Inv, ClaimsAreCurrent, NEW q \in Request, asked < MaxRequests, SwitchCompany(q) \/ ExitCompany(q)
  PROVE  Asked(q) /\ Fair(q)
<1>1. PICK x \in User, to \in Company \cup {None} : \E t \in tokens[x] :
        SignedIn(x, t, Root) /\ IsRoot(user[x]) /\ Move(q, x, t, [user[x] EXCEPT !.company = to])
  BY DEF SwitchCompany, ExitCompany, AccessRoot, Companies
<1>2. PICK t \in tokens[x] :
        SignedIn(x, t, Root) /\ IsRoot(user[x]) /\ Move(q, x, t, [user[x] EXCEPT !.company = to])
  BY <1>1
<1> DEFINE row == [user[x] EXCEPT !.company = to]
<1>3. x \in Users /\ user[x] \in UserRow /\ t \in Token /\ user[x] # Gone /\ (user[x].active => user[x].reactivable)
  BY <1>2, Claimed, RowFacts DEF Inv, TypeOK
<1>4. /\ row \in UserRow /\ row.roles = user[x].roles /\ row.company = to
      /\ row.active = user[x].active /\ row.reactivable = user[x].reactivable
  BY <1>3 DEF UserRow
<1>5. RowOK(row) /\ row # Gone /\ Claims(row) \in Token
  BY <1>3, <1>4, ClaimsForm, OrganizationAssumption DEF RowOK
<1> HIDE DEF row
<1>6. Decide(q, x, Only(x, row), Nothing, {}, t, Claims(row))
  BY <1>2 DEF Move, row
<1>7. SomeRows(Only(x, row), User, UserRow \cup {Gone}) /\ SomeRows(Nothing, Company, FirmRow \cup {Gone})
  BY <1>4, OnlyForm, NothingForm
<1> DEFINE w == req'[q]
<1>8. /\ UNCHANGED <<user, company, tokens, cause>> /\ asked' \in 0..MaxRequests
      /\ DOMAIN req' = Request /\ \A s \in Request \ {q} : req'[s] = req[s]
      /\ w = [by |-> x, me |-> user[x], saw |-> [u \in DOMAIN Only(x, row) |-> user[u]], knew |-> company,
               users |-> Only(x, row), firms |-> Nothing, out |-> {}, old |-> t, new |-> Claims(row), looked |-> TRUE]
  BY <1>6, DecideForm
<1>8a. /\ w.by = x /\ w.me = user[x] /\ w.saw = [u \in DOMAIN Only(x, row) |-> user[u]] /\ w.knew = company
       /\ w.users = Only(x, row) /\ w.firms = Nothing /\ w.out = {} /\ w.old = t /\ w.new = Claims(row) /\ w.looked = TRUE
  BY <1>8
<1> HIDE DEF w
<1>11. IsRequest(w)
  BY <1>3, <1>5, <1>7, <1>8, RequestTyped
<1>9. DOMAIN w.users = {x} /\ w.users[x] = row /\ w.saw[x] = user[x] /\ DOMAIN w.firms = {}
  <2>1. DOMAIN Only(x, row) = {x} /\ Only(x, row)[x] = row
    BY OnlyForm
  <2>2. DOMAIN w.users = {x} /\ w.users[x] = row
    BY <1>8, <2>1
  <2>3. w.saw[x] = user[x]
    BY <1>8, <2>1
  <2>4. DOMAIN w.firms = {}
    BY <1>8, NothingForm
  <2> QED
    BY <2>2, <2>3, <2>4
<1>10. RequestOK(w)
  <2>1. Moves(w, x)
    BY <1>2, <1>3, <1>4, <1>9 DEF Moves
  <2> QED
    BY <1>2, <1>4, <1>5, <1>8, <1>9, <2>1 DEF RequestOK
<1> QED
  BY <1>2, <1>8, <1>10, <1>11 DEF Asked, Fair, w

\* Whoever signs in writes his row back as it was, or none; where his row is written and the company looked at,
\* the company is open or he is root.
LEMMA SignInFair ==
  ASSUME Inv, NEW q \in Request, asked < MaxRequests, NEW x \in Users, NEW users, NEW looked \in BOOLEAN,
         SignIn(q, x, users, looked), users = Only(x, user[x]) \/ (users = Nothing /\ ~ looked),
         looked => OpenTo(user[x])
  PROVE  Asked(q) /\ Fair(q)
<1>1. /\ user[x] \in UserRow /\ user[x] # Gone /\ RowOK(user[x]) /\ user[x].company \in Companies \cup {None}
      /\ x \in User /\ Claims(user[x]) \in Token
  BY RowFacts, ClaimsForm DEF RowOK
<1>2. /\ DOMAIN users \subseteq {x} /\ \A u \in DOMAIN users : users[u] = user[u]
      /\ x \notin DOMAIN users => ~ looked
      /\ SomeRows(users, User, UserRow \cup {Gone})
  <2>1. CASE users = Only(x, user[x])
    <3>1. DOMAIN users = {x} /\ users[x] = user[x]
      BY <2>1, OnlyForm
    <3>2. SomeRows(users, User, UserRow \cup {Gone})
      BY <1>1, <2>1, OnlyForm
    <3> QED
      BY <3>1, <3>2
  <2>2. CASE users = Nothing /\ ~ looked
    BY <2>2, NothingForm
  <2> QED
    BY <2>1, <2>2
<1> DEFINE w == req'[q]
<1>3. /\ UNCHANGED <<user, company, tokens, cause>> /\ asked' \in 0..MaxRequests
      /\ DOMAIN req' = Request /\ \A s \in Request \ {q} : req'[s] = req[s]
      /\ w = [by |-> x, me |-> user[x], saw |-> [u \in DOMAIN users |-> user[u]], knew |-> company,
              users |-> users, firms |-> Nothing, out |-> {}, old |-> None, new |-> Claims(user[x]), looked |-> looked]
  BY ConcludeForm DEF SignIn
<1>4. /\ w.by = x /\ w.me = user[x] /\ w.saw = [u \in DOMAIN users |-> user[u]] /\ w.knew = company
      /\ w.users = users /\ w.firms = Nothing /\ w.out = {} /\ w.old = None /\ w.new = Claims(user[x])
      /\ w.looked = looked
  BY <1>3
<1> HIDE DEF w
<1>5. IsRequest(w)
  BY <1>1, <1>2, <1>4, NothingForm, RequestTyped
<1>6. RequestOK(w)
  <2>1. \A u \in DOMAIN w.users : u = x /\ w.users[u] = user[u] /\ w.saw[u] = user[u]
    BY <1>2, <1>4
  <2>2. \A u \in DOMAIN w.users : RowOK(w.users[u]) /\ Kept(w, u)
    BY <1>1, <1>4, <2>1 DEF Kept
  <2>3. DOMAIN w.firms = {}
    BY <1>4, NothingForm
  <2>4. w.by \notin DOMAIN w.users => ~ w.looked
    BY <1>2, <1>4
  <2>5. w.by \in DOMAIN w.users =>
          /\ w.saw[w.by] = w.me /\ w.users[w.by] = w.me
          /\ \/ IsRoot(w.me)
             \/ w.looked /\ w.me.company # None => w.knew[w.me.company] # Gone /\ w.knew[w.me.company].active
    BY <1>1, <1>4, <2>1 DEF OpenTo, Companies
  <2> QED
    BY <1>1, <1>2, <1>4, <2>1, <2>2, <2>3, <2>4, <2>5 DEF RequestOK
<1>7. Entitled(w)
  BY <1>2, <1>4 DEF Entitled
<1> QED
  BY <1>3, <1>5, <1>6, <1>7 DEF Asked, Fair, w

LEMMA TokenFair ==
  ASSUME Inv, ClaimsAreCurrent, NEW q \in Request, asked < MaxRequests,
         Login(q) \/ VerifyEmail(q) \/ VerifyOtp(q) \/ Refresh(q)
  PROVE  Asked(q) /\ Fair(q)
<1>1. CASE Login(q) \/ VerifyEmail(q) \/ VerifyOtp(q)
  <2>1. PICK x \in Users, looked \in BOOLEAN :
          /\ SignIn(q, x, Only(x, user[x]), looked) \/ (SignIn(q, x, Nothing, looked) /\ ~ looked)
          /\ looked => OpenTo(user[x])
    BY <1>1 DEF Login, VerifyEmail, VerifyOtp
  <2> QED
    BY <2>1, SignInFair
<1>2. CASE Refresh(q)
  <2>1. PICK x \in Users : \E t \in tokens[x] : Decide(q, x, Nothing, Nothing, {}, t, Claims(user[x]))
    BY <1>2 DEF Refresh
  <2>2. PICK t \in tokens[x] : Decide(q, x, Nothing, Nothing, {}, t, Claims(user[x]))
    BY <2>1
  <2>3. user[x] \in UserRow /\ x \in User /\ Claims(user[x]) \in Token
    BY RowFacts, ClaimsForm
  <2>4. t \in Token /\ t # None
    BY <2>3, OrganizationAssumption DEF Inv, TypeOK
  <2> DEFINE w == req'[q]
  <2>5. /\ UNCHANGED <<user, company, tokens, cause>> /\ asked' \in 0..MaxRequests
        /\ DOMAIN req' = Request /\ \A s \in Request \ {q} : req'[s] = req[s]
        /\ w = [by |-> x, me |-> user[x], saw |-> [u \in DOMAIN Nothing |-> user[u]], knew |-> company,
                 users |-> Nothing, firms |-> Nothing, out |-> {}, old |-> t, new |-> Claims(user[x]), looked |-> TRUE]
    BY <2>2, DecideForm
  <2>5a. /\ w.by = x /\ w.me = user[x] /\ w.saw = [u \in DOMAIN Nothing |-> user[u]] /\ w.knew = company
         /\ w.users = Nothing /\ w.firms = Nothing /\ w.out = {} /\ w.old = t /\ w.new = Claims(user[x]) /\ w.looked = TRUE
    BY <2>5
  <2> HIDE DEF w
  <2>8. IsRequest(w)
    BY <2>3, <2>4, <2>5, NothingForm, RequestTyped
  <2>6. DOMAIN w.users = {}
    BY <2>5, NothingForm
  <2>7. RequestOK(w) /\ Entitled(w)
    BY <2>4, <2>5, <2>6 DEF RequestOK, Entitled
  <2> QED
    BY <2>5, <2>7, <2>8 DEF Asked, Fair, w
<1> QED
  BY <1>1, <1>2

\* create, update and delete a company: no user is written.
LEMMA CompanyFair ==
  ASSUME Inv, ClaimsAreCurrent, NEW q \in Request, asked < MaxRequests,
         CreateCompany(q) \/ UpdateCompany(q) \/ DeleteCompany(q)
  PROVE  Asked(q) /\ Fair(q)
<1>1. PICK x \in Users, c \in Company, row \in FirmRow \cup {Gone} : ChangeCompany(q, x, c, row)
  <2>1. CASE CreateCompany(q)
    <3>1. PICK x \in User, c \in Company, p \in Companies \cup {None} : \E t \in tokens[x] :
            SignedIn(x, t, {"root"}) /\ ChangeCompany(q, x, c, [active |-> TRUE, parent |-> p])
      BY <2>1 DEF CreateCompany
    <3>2. x \in Users /\ [active |-> TRUE, parent |-> p] \in FirmRow
      BY <3>1, Claimed DEF FirmRow, Companies
    <3> QED
      BY <3>1, <3>2
  <2>2. CASE UpdateCompany(q)
    <3>1. PICK x \in User, c \in Companies, p \in Companies \cup {None} : \E t \in tokens[x] :
            SignedIn(x, t, {"root", "admin"}) /\ ChangeCompany(q, x, c, [company[c] EXCEPT !.parent = p])
      BY <2>2 DEF UpdateCompany
    <3>2. x \in Users /\ c \in Company /\ company[c] \in FirmRow
      BY <3>1, Claimed DEF Inv, TypeOK, Companies
    <3>3. [company[c] EXCEPT !.parent = p] \in FirmRow
      BY <3>2 DEF FirmRow, Companies
    <3> QED
      BY <3>1, <3>2, <3>3
  <2>3. CASE DeleteCompany(q)
    <3>1. PICK x \in User, c \in Companies : \E t \in tokens[x] :
            SignedIn(x, t, {"root"}) /\ ChangeCompany(q, x, c, Gone)
      BY <2>3 DEF DeleteCompany
    <3>2. x \in Users /\ c \in Company
      BY <3>1, Claimed DEF Companies
    <3> QED
      BY <3>1, <3>2
  <2> QED
    BY <2>1, <2>2, <2>3
<1> DEFINE w == req'[q]
<1>2. SomeRows(Nothing, User, UserRow \cup {Gone}) /\ SomeRows(Only(c, row), Company, FirmRow \cup {Gone})
  BY OnlyForm, NothingForm
<1>3. Decide(q, x, Nothing, Only(c, row), {}, None, None)
  BY <1>1 DEF ChangeCompany
<1>4. /\ UNCHANGED <<user, company, tokens, cause>> /\ asked' \in 0..MaxRequests
      /\ DOMAIN req' = Request /\ \A s \in Request \ {q} : req'[s] = req[s]
      /\ w = [by |-> x, me |-> user[x], saw |-> [u \in DOMAIN Nothing |-> user[u]], knew |-> company,
               users |-> Nothing, firms |-> Only(c, row), out |-> {}, old |-> None, new |-> None, looked |-> TRUE]
  BY <1>3, DecideForm
<1>4a. /\ w.by = x /\ w.me = user[x] /\ w.saw = [u \in DOMAIN Nothing |-> user[u]] /\ w.knew = company
       /\ w.users = Nothing /\ w.firms = Only(c, row) /\ w.out = {} /\ w.old = None /\ w.new = None /\ w.looked = TRUE
  BY <1>4
<1> HIDE DEF w
<1>6. IsRequest(w)
  BY <1>1, <1>2, <1>4, RequestTyped
<1>5. RequestOK(w) /\ Entitled(w)
  BY <1>4, NothingForm DEF RequestOK, Entitled
<1> QED
  BY <1>4, <1>5, <1>6 DEF Asked, Fair, w

\* deactivate-company: whoever is made inactive is signed out.
LEMMA CloseFair ==
  ASSUME Inv, ClaimsAreCurrent, NEW q \in Request, asked < MaxRequests, CloseCompany(q)
  PROVE  Asked(q) /\ Fair(q)
<1>1. PICK x \in User, c \in Companies : \E t \in tokens[x] :
        /\ SignedIn(x, t, {"root"})
        /\ TrueRoot(user[x]) /\ company[c].active
        /\ Decide(q, x, [u \in Handled(c) |-> [user[u] EXCEPT !.active = FALSE]],
                  Only(c, [company[c] EXCEPT !.active = FALSE]), Handled(c), None, None)
  BY DEF CloseCompany
<1> DEFINE users == [u \in Handled(c) |-> [user[u] EXCEPT !.active = FALSE]]
           row == [company[c] EXCEPT !.active = FALSE]
           w == req'[q]
<1>2. x \in Users /\ IsRoot(user[x])
  BY <1>1, Claimed DEF TrueRoot, AccessRoot
<1>3. c \in Company /\ row \in FirmRow /\ row # Gone
  <2>1. c \in Company /\ company[c] \in FirmRow
    BY DEF Companies, Inv, TypeOK
  <2>2. row \in FirmRow
    BY <2>1 DEF FirmRow
  <2> QED
    BY <2>1, <2>2, OrganizationAssumption
<1>4. /\ DOMAIN users = Handled(c) /\ Handled(c) \subseteq User
      /\ \A u \in Handled(c) : users[u] \in UserRow /\ RowOK(users[u])
  <2>1. \A u \in Handled(c) : u \in Users
    BY DEF Handled, Members
  <2>2. ASSUME NEW u \in Handled(c) PROVE users[u] \in UserRow /\ RowOK(users[u])
    <3>1. user[u] \in UserRow
      BY <2>1, RowFacts
    <3>2. users[u] \in UserRow /\ ~ users[u].active
      BY <3>1 DEF UserRow
    <3> QED
      BY <3>2 DEF RowOK
  <2> QED
    BY <2>1, <2>2 DEF Users
<1>5. Decide(q, x, users, Only(c, row), Handled(c), None, None)
  BY <1>1
<1>6. SomeRows(users, User, UserRow \cup {Gone})
  BY <1>4 DEF SomeRows
<1> HIDE DEF users, row
<1>7. SomeRows(Only(c, row), Company, FirmRow \cup {Gone}) /\ DOMAIN Only(c, row) = {c} /\ Only(c, row)[c] = row
  BY <1>3, OnlyForm
<1>8. /\ UNCHANGED <<user, company, tokens, cause>> /\ asked' \in 0..MaxRequests
      /\ DOMAIN req' = Request /\ \A s \in Request \ {q} : req'[s] = req[s]
      /\ w = [by |-> x, me |-> user[x], saw |-> [u \in DOMAIN users |-> user[u]], knew |-> company,
              users |-> users, firms |-> Only(c, row), out |-> Handled(c), old |-> None, new |-> None, looked |-> TRUE]
  BY <1>5, DecideForm
<1>9. /\ w.by = x /\ w.me = user[x] /\ w.saw = [u \in DOMAIN users |-> user[u]] /\ w.knew = company
      /\ w.users = users /\ w.firms = Only(c, row) /\ w.out = Handled(c) /\ w.old = None /\ w.new = None /\ w.looked = TRUE
  BY <1>8
<1> HIDE DEF w
<1>10. IsRequest(w)
  BY <1>2, <1>4, <1>6, <1>7, <1>9, RequestTyped
<1>11. RequestOK(w)
  BY <1>3, <1>4, <1>7, <1>9 DEF RequestOK
<1> QED
  BY <1>2, <1>8, <1>9, <1>10, <1>11 DEF Asked, Fair, w

\* reactivate-company: whoever is made active is a member of the company that is opened.
LEMMA OpenFair ==
  ASSUME Inv, ClaimsAreCurrent, NEW q \in Request, asked < MaxRequests, OpenCompany(q)
  PROVE  Asked(q) /\ Fair(q)
<1>1. PICK x \in User, c \in Companies : \E t \in tokens[x] :
        /\ SignedIn(x, t, {"root"})
        /\ TrueRoot(user[x])
        /\ Decide(q, x, [u \in {v \in Members(c) : ~ user[v].active /\ user[v].reactivable} |-> [user[u] EXCEPT !.active = TRUE]],
                  Only(c, [company[c] EXCEPT !.active = TRUE]), {}, None, None)
  BY DEF OpenCompany
<1> DEFINE S == {v \in Members(c) : ~ user[v].active /\ user[v].reactivable}
           users == [u \in S |-> [user[u] EXCEPT !.active = TRUE]]
           row == [company[c] EXCEPT !.active = TRUE]
           w == req'[q]
<1>2. x \in Users /\ IsRoot(user[x])
  BY <1>1, Claimed DEF TrueRoot, AccessRoot
<1>3. c \in Company /\ row \in FirmRow /\ row # Gone /\ row.active
  <2>1. c \in Company /\ company[c] \in FirmRow
    BY DEF Companies, Inv, TypeOK
  <2>2. row \in FirmRow /\ row.active
    BY <2>1 DEF FirmRow
  <2> QED
    BY <2>1, <2>2, OrganizationAssumption
<1>4. /\ DOMAIN users = S /\ S \subseteq User
      /\ \A u \in S : /\ users[u] \in UserRow /\ RowOK(users[u]) /\ user[u] # Gone /\ users[u].company = c
                      /\ users[u].roles = user[u].roles /\ users[u].company = user[u].company
  <2>1. \A u \in S : u \in Users /\ user[u].company = c /\ user[u].reactivable
    BY DEF Members
  <2>2. ASSUME NEW u \in S
        PROVE  /\ users[u] \in UserRow /\ RowOK(users[u]) /\ user[u] # Gone /\ users[u].company = c
               /\ users[u].roles = user[u].roles /\ users[u].company = user[u].company
    <3>1. user[u] \in UserRow /\ user[u] # Gone
      BY <2>1, RowFacts
    <3>2. /\ users[u] \in UserRow /\ users[u].roles = user[u].roles /\ users[u].company = user[u].company
          /\ users[u].reactivable = user[u].reactivable
      BY <3>1 DEF UserRow
    <3> QED
      BY <2>1, <3>1, <3>2 DEF RowOK
  <2> QED
    BY <2>1, <2>2 DEF Users
<1>5. Decide(q, x, users, Only(c, row), {}, None, None)
  BY <1>1
<1>6. SomeRows(users, User, UserRow \cup {Gone})
  BY <1>4 DEF SomeRows
<1> HIDE DEF users, row, S
<1>7. SomeRows(Only(c, row), Company, FirmRow \cup {Gone}) /\ DOMAIN Only(c, row) = {c} /\ Only(c, row)[c] = row
  BY <1>3, OnlyForm
<1>8. /\ UNCHANGED <<user, company, tokens, cause>> /\ asked' \in 0..MaxRequests
      /\ DOMAIN req' = Request /\ \A s \in Request \ {q} : req'[s] = req[s]
      /\ w = [by |-> x, me |-> user[x], saw |-> [u \in DOMAIN users |-> user[u]], knew |-> company,
              users |-> users, firms |-> Only(c, row), out |-> {}, old |-> None, new |-> None, looked |-> TRUE]
  BY <1>5, DecideForm
<1>9. /\ w.by = x /\ w.me = user[x] /\ w.saw = [u \in DOMAIN users |-> user[u]] /\ w.knew = company
      /\ w.users = users /\ w.firms = Only(c, row) /\ w.out = {} /\ w.old = None /\ w.new = None /\ w.looked = TRUE
  BY <1>8
<1> HIDE DEF w
<1>10. IsRequest(w)
  BY <1>2, <1>4, <1>6, <1>7, <1>9, RequestTyped
<1>11. ASSUME NEW u \in DOMAIN w.users PROVE RowOK(w.users[u]) /\ Kept(w, u)
  <2>1. u \in S /\ w.users[u] = users[u] /\ w.saw[u] = user[u]
    BY <1>4, <1>9
  <2>2. \E d \in DOMAIN w.firms : d = w.users[u].company /\ w.firms[d] # Gone /\ w.firms[d].active
    BY <1>3, <1>4, <1>7, <1>9, <2>1
  <2> QED
    BY <1>4, <1>9, <2>1, <2>2 DEF Kept
<1>12. RequestOK(w)
  BY <1>3, <1>7, <1>9, <1>11 DEF RequestOK
<1> QED
  BY <1>2, <1>8, <1>9, <1>10, <1>12 DEF Asked, Fair, w

\* Whatever is asked: nothing changes yet, and it is decided fairly.
LEMMA AskFair ==
  ASSUME Inv, ClaimsAreCurrent, NEW q \in Request, Ask(q)
  PROVE  Asked(q) /\ Fair(q)
BY AssignRoleFair, RemoveRoleFair, ActivationFair, DeleteUserFair, RegisterFair, MembershipFair,
   MoveFair, TokenFair, CompanyFair, CloseFair, OpenFair DEF Ask

-----------------------------------------------------------------------------
(* Writing: what a commit makes of each company, user, token and race.      *)

LEMMA CommitRequest ==
  ASSUME Inv, NEW q \in Request, Commit(q)
  PROVE  /\ req[q] # Idle /\ IsRequest(req[q]) /\ RequestOK(req[q]) /\ Possible(req[q])
         /\ company' = NextCompany(req[q]) /\ user' = NextUser(req[q], company')
         /\ tokens' = NextTokens(req[q], user') /\ asked' = asked
         /\ DOMAIN req' = Request /\ req'[q] = Idle /\ \A s \in Request \ {q} : req'[s] = req[s]
BY DEF Commit, Inv, TypeOK

\* A company that is written is as the request has it, and the others stay, but for the parents.
LEMMA CommitCompany ==
  ASSUME Inv, NEW q \in Request, Commit(q)
  PROVE  /\ company' \in [Company -> FirmRow \cup {Gone}]
         /\ \A c \in Company :
              /\ c \in DOMAIN req[q].firms =>
                   /\ company'[c] = Gone <=> req[q].firms[c] = Gone
                   /\ company'[c] # Gone => company'[c].active = req[q].firms[c].active
              /\ c \notin DOMAIN req[q].firms =>
                   /\ company'[c] = Gone <=> company[c] = Gone
                   /\ company'[c] # Gone => company'[c].active = company[c].active
<1> DEFINE w == req[q]
           new == Written(w.firms, company)
<1>1. company' = NextCompany(w) /\ IsRequest(w)
  BY CommitRequest
<1>2. company \in [Company -> FirmRow \cup {Gone}]
  BY DEF Inv, TypeOK
<1>3. DOMAIN w.firms \subseteq Company /\ \A c \in DOMAIN w.firms : w.firms[c] \in FirmRow \cup {Gone}
  BY <1>1 DEF IsRequest, SomeRows
<1>4. \A c \in Company : new[c] = IF c \in DOMAIN w.firms THEN w.firms[c] ELSE company[c]
  BY <1>2 DEF Written
<1>5. \A c \in Company : new[c] \in FirmRow \cup {Gone}
  BY <1>2, <1>3, <1>4
<1> HIDE DEF new
<1>6. company' = [c \in Company |-> IF new[c] # Gone /\ new[c].parent \in Company /\ new[new[c].parent] = Gone
                                    THEN [new[c] EXCEPT !.parent = None] ELSE new[c]]
  BY <1>1 DEF NextCompany, new
<1>7. ASSUME NEW c \in Company
      PROVE  /\ company'[c] \in FirmRow \cup {Gone}
             /\ company'[c] = Gone <=> new[c] = Gone
             /\ company'[c] # Gone => company'[c].active = new[c].active
  <2>1. CASE company'[c] = new[c]
    BY <1>5, <2>1
  <2>2. CASE company'[c] # new[c]
    <3>1. new[c] \in FirmRow /\ new[c] # Gone /\ company'[c] = [new[c] EXCEPT !.parent = None]
      BY <1>5, <1>6, <2>2
    <3>2. company'[c] \in FirmRow /\ company'[c].active = new[c].active
      BY <3>1 DEF FirmRow
    <3> QED
      BY <3>1, <3>2, OrganizationAssumption
  <2> QED
    BY <2>1, <2>2
<1>8. DOMAIN company' = Company /\ company' = [c \in Company |-> company'[c]]
  BY <1>6
<1>9. company' \in [Company -> FirmRow \cup {Gone}]
  BY <1>7, <1>8
<1> QED
  BY <1>4, <1>7, <1>9

\* A user that is written is as the request has it, and his company is there; of the others some
\* lose a company that is deleted.
LEMMA CommitUser ==
  ASSUME Inv, NEW q \in Request, Commit(q)
  PROVE  /\ user' \in [User -> UserRow \cup {Gone}]
         /\ \A u \in User :
              /\ u \in DOMAIN req[q].users => user'[u] = req[q].users[u]
              /\ u \notin DOMAIN req[q].users => /\ user'[u] = Gone <=> user[u] = Gone
                                                 /\ RowOK(user'[u])
              /\ user'[u] # Gone => user'[u].company \in Company \cup {None}
              /\ user'[u] # Gone /\ user'[u].company # None => company'[user'[u].company] # Gone
<1> DEFINE w == req[q]
           new == Written(w.users, user)
<1>1. user' = NextUser(w, company') /\ IsRequest(w) /\ RequestOK(w) /\ Possible(w)
  BY CommitRequest
<1>2. user \in [User -> UserRow \cup {Gone}]
  BY DEF Inv, TypeOK
<1>3. DOMAIN w.users \subseteq User /\ \A u \in DOMAIN w.users : w.users[u] \in UserRow \cup {Gone}
  BY <1>1 DEF IsRequest, SomeRows
<1>4. \A u \in User : new[u] = IF u \in DOMAIN w.users THEN w.users[u] ELSE user[u]
  BY <1>2 DEF Written
<1>5. \A u \in User : new[u] \in UserRow \cup {Gone}
  BY <1>2, <1>3, <1>4
<1> HIDE DEF new
<1>6. user' = [u \in User |-> IF new[u] # Gone /\ new[u].company \in Company /\ company'[new[u].company] = Gone
                              THEN [new[u] EXCEPT !.company = None] ELSE new[u]]
  BY <1>1 DEF NextUser, new
<1>7. ASSUME NEW u \in User, u \in DOMAIN w.users, w.users[u] # Gone
      PROVE  w.users[u].company \in Company => company'[w.users[u].company] # Gone
  <2>1. w.users[u].company \in Companies \cup {None}
    BY <1>1, <1>7 DEF Possible
  <2>2. \A c \in DOMAIN w.firms : w.firms[c] # Gone
    BY <1>1, <1>7 DEF RequestOK
  <2> QED
    BY <2>1, <2>2, CommitCompany, OrganizationAssumption DEF Companies
<1>8. ASSUME NEW u \in User
      PROVE  /\ user'[u] \in UserRow \cup {Gone}
             /\ user'[u] = Gone <=> new[u] = Gone
             /\ user'[u] # Gone => /\ user'[u].company \in Company \cup {None}
                                   /\ user'[u].company # None => company'[user'[u].company] # Gone
             /\ RowOK(new[u]) => RowOK(user'[u])
  <2>1. CASE new[u] = Gone
    BY <1>6, <2>1 DEF RowOK
  <2>2. CASE new[u] # Gone /\ new[u].company \in Company /\ company'[new[u].company] = Gone
    <3>1. new[u] \in UserRow /\ user'[u] = [new[u] EXCEPT !.company = None]
      BY <1>5, <1>6, <2>2
    <3>2. /\ user'[u] \in UserRow /\ user'[u].company = None
          /\ user'[u].active = new[u].active /\ user'[u].reactivable = new[u].reactivable
      BY <3>1 DEF UserRow
    <3>3. user'[u] # Gone
      BY <3>2, OrganizationAssumption
    <3>4. RowOK(new[u]) => RowOK(user'[u])
      BY <2>2, <3>2, <3>3 DEF RowOK
    <3> QED
      BY <2>2, <3>2, <3>3, <3>4
  <2>3. CASE new[u] # Gone /\ ~ (new[u].company \in Company /\ company'[new[u].company] = Gone)
    <3>1. new[u] \in UserRow /\ user'[u] = new[u]
      BY <1>5, <1>6, <2>3
    <3>2. new[u].company \in Company \cup {None}
      BY <3>1 DEF UserRow
    <3> QED
      BY <2>3, <3>1, <3>2
  <2> QED
    BY <2>1, <2>2, <2>3
<1>9. DOMAIN user' = User /\ user' = [u \in User |-> user'[u]]
  BY <1>6
<1>10. user' \in [User -> UserRow \cup {Gone}]
  BY <1>8, <1>9
<1>11. ASSUME NEW u \in User, u \in DOMAIN w.users PROVE user'[u] = w.users[u]
  BY <1>4, <1>6, <1>7, <1>11
<1>12. ASSUME NEW u \in User, u \notin DOMAIN w.users
       PROVE  (user'[u] = Gone <=> user[u] = Gone) /\ RowOK(user'[u])
  <2>1. new[u] = user[u] /\ RowOK(user[u])
    BY <1>4, <1>12 DEF Inv, RowsOK, Users, RowOK
  <2> QED
    BY <1>8, <2>1
<1> HIDE DEF w
<1>13. ASSUME NEW u \in User
       PROVE  /\ u \in DOMAIN w.users => user'[u] = w.users[u]
              /\ u \notin DOMAIN w.users => /\ user'[u] = Gone <=> user[u] = Gone
                                            /\ RowOK(user'[u])
              /\ user'[u] # Gone => user'[u].company \in Company \cup {None}
              /\ user'[u] # Gone /\ user'[u].company # None => company'[user'[u].company] # Gone
  <2>1. u \in DOMAIN w.users => user'[u] = w.users[u]
    BY <1>11
  <2>2. u \notin DOMAIN w.users => (user'[u] = Gone <=> user[u] = Gone) /\ RowOK(user'[u])
    BY <1>12
  <2>3. /\ user'[u] # Gone => user'[u].company \in Company \cup {None}
        /\ user'[u] # Gone /\ user'[u].company # None => company'[user'[u].company] # Gone
    BY <1>8
  <2> QED
    BY <2>1, <2>2, <2>3
<1> QED
  BY <1>10, <1>13 DEF w

\* A token is the one that was issued, or one of before that nothing has ended.
LEMMA CommitTokens ==
  ASSUME Inv, NEW q \in Request, Commit(q)
  PROVE  /\ tokens' \in [User -> SUBSET Token]
         /\ \A u \in User : \A t \in tokens'[u] :
              /\ user'[u] # Gone
              /\ \/ t \in tokens[u] /\ u \notin req[q].out
                 \/ u = req[q].by /\ t = req[q].new /\ req[q].new # None
<1> DEFINE w == req[q]
<1>1. tokens' = NextTokens(w, user') /\ IsRequest(w) /\ RequestOK(w) /\ Possible(w)
  BY CommitRequest
<1>2. tokens \in [User -> SUBSET Token]
  BY DEF Inv, TypeOK
<1>3. w.new \in Token \cup {None} /\ w.by \in User
  BY <1>1 DEF IsRequest
<1>4. w.new # None => user'[w.by] # Gone
  BY <1>1, <1>3, CommitUser DEF RequestOK, Possible, Users
<1> HIDE DEF w
<1>5. tokens' = [u \in User |-> (IF user'[u] = Gone \/ u \in w.out THEN {} ELSE tokens[u] \ (IF u = w.by THEN {w.old} ELSE {}))
                    \cup (IF u = w.by /\ w.new # None THEN {w.new} ELSE {})]
  BY <1>1 DEF NextTokens
<1>6. ASSUME NEW u \in User, NEW t, t \in tokens'[u]
      PROVE  /\ t \in Token /\ user'[u] # Gone
             /\ \/ t \in tokens[u] /\ u \notin w.out
                \/ u = w.by /\ t = w.new /\ w.new # None
  BY <1>2, <1>3, <1>4, <1>5, <1>6
<1>7. \A u \in User : tokens'[u] \subseteq Token
  BY <1>6
<1>8. tokens' \in [User -> SUBSET Token]
  <2>1. DOMAIN tokens' = User /\ tokens' = [u \in User |-> tokens'[u]]
    BY <1>5
  <2> QED
    BY <1>7, <2>1
<1> QED
  BY <1>6, <1>8 DEF w

\* A race is remembered as long as the user is there.
LEMMA CommitCause ==
  ASSUME Inv, NEW q \in Request, Commit(q)
  PROVE  /\ cause' \in [User -> SUBSET {"stale", "missed", "profile", "unseen"}]
         /\ \A u \in User :
              /\ user'[u] = Gone => cause'[u] = {}
              /\ user'[u] # Gone =>
                   /\ cause[u] \subseteq cause'[u]
                   /\ u \in Stale(req[q], user') => "stale" \in cause'[u]
                   /\ u \in Missed(req[q]) => "missed" \in cause'[u]
                   /\ u \in Reopened(req[q]) => "profile" \in cause'[u]
                   /\ u \in Unseen(req[q]) => "unseen" \in cause'[u]
<1> DEFINE w == req[q]
           raced == [stale |-> Stale(w, user'), missed |-> Missed(w), profile |-> Reopened(w), unseen |-> Unseen(w)]
<1>1. cause' = [u \in User |-> IF user'[u] = Gone THEN {} ELSE cause[u] \cup {k \in DOMAIN raced : u \in raced[k]}]
  BY DEF Commit
<1>2. DOMAIN raced = {"stale", "missed", "profile", "unseen"}
  OBVIOUS
<1>3. raced["stale"] = Stale(w, user') /\ raced["missed"] = Missed(w) /\ raced["profile"] = Reopened(w)
      /\ raced["unseen"] = Unseen(w)
  OBVIOUS
<1>4. cause \in [User -> SUBSET {"stale", "missed", "profile", "unseen"}]
  BY DEF Inv, TypeOK
<1> HIDE DEF raced
<1>5. ASSUME NEW u \in User
      PROVE  /\ cause'[u] \subseteq {"stale", "missed", "profile", "unseen"}
             /\ user'[u] = Gone => cause'[u] = {}
             /\ user'[u] # Gone => /\ cause[u] \subseteq cause'[u]
                                   /\ \A k \in {"stale", "missed", "profile", "unseen"} : u \in raced[k] => k \in cause'[u]
  BY <1>1, <1>2, <1>4
<1>6. DOMAIN cause' = User /\ cause' = [u \in User |-> cause'[u]]
  BY <1>1
<1>7. cause' \in [User -> SUBSET {"stale", "missed", "profile", "unseen"}]
  BY <1>5, <1>6
<1> QED
  BY <1>3, <1>5, <1>7

-----------------------------------------------------------------------------
(* The inductive invariant.                                                 *)

LEMMA Initially ==
  ASSUME Init
  PROVE  Inv /\ ClaimsAreCurrent /\ ClosedIsQuiet
<1>1. /\ user \in [User -> UserRow \cup {Gone}] /\ company \in [Company -> FirmRow \cup {Gone}]
      /\ user = Staff /\ company = Firms
      /\ DOMAIN req = Request /\ \A q \in Request : req[q] = Idle
      /\ asked \in 0..MaxRequests
      /\ cause \in [User -> SUBSET {"stale", "missed", "profile", "unseen"}] /\ \A u \in User : cause[u] = {}
  BY OrganizationAssumption DEF Init
<1>2. \A u \in User : tokens[u] = IF user[u] = Gone THEN {} ELSE {Claims(user[u])}
  BY DEF Init
<1>3. \A u \in Users : u \in User /\ user[u] \in UserRow /\ user[u] # Gone
  BY <1>1 DEF Users
<1>4. tokens \in [User -> SUBSET Token]
  <2>1. DOMAIN tokens = User /\ tokens = [u \in User |-> tokens[u]]
    BY DEF Init
  <2>2. \A u \in User : tokens[u] \subseteq Token
    BY <1>2, <1>3, ClaimsForm DEF Users
  <2> QED
    BY <2>1, <2>2
<1>5. TypeOK
  BY <1>1, <1>4 DEF TypeOK
<1>6. RowsOK
  <2>1. ASSUME NEW u \in Users PROVE RowOK(user[u]) /\ user[u].company \in Companies \cup {None}
    <3>1. user[u].company \in Company \cup {None}
      BY <1>3 DEF UserRow
    <3> QED
      BY <1>1, <1>3, <3>1, OrganizationAssumption DEF RowOK, Companies
  <2> QED
    BY <1>1, <1>2, <2>1 DEF RowsOK
<1>7. ClaimsAreCurrent
  BY <1>2 DEF ClaimsAreCurrent
<1>8. ClosedIsQuiet
  BY <1>1, <1>3, OrganizationAssumption DEF ClosedIsQuiet
<1> QED
  BY <1>1, <1>5, <1>6, <1>7, <1>8 DEF Inv

\* A step that leaves the rows alone.
LEMMA RowsStay ==
  ASSUME Inv, ClaimsAreCurrent, ClosedIsQuiet, NEW q \in Request,
         UNCHANGED <<user, company, tokens, cause>>, asked' \in 0..MaxRequests,
         DOMAIN req' = Request, \A s \in Request \ {q} : req'[s] = req[s],
         req'[q] # Idle => IsRequest(req'[q]) /\ RequestOK(req'[q])
  PROVE  (Inv /\ ClaimsAreCurrent /\ ClosedIsQuiet)'
<1>1. \A s \in Request : req'[s] # Idle => IsRequest(req'[s]) /\ RequestOK(req'[s])
  BY DEF Inv, TypeOK
<1>2. TypeOK'
  <2>1. \A s \in Request : (req[s] # Idle => IsRequest(req[s]))'
    BY <1>1 DEF IsRequest, SomeRows
  <2> QED
    BY <2>1 DEF Inv, TypeOK
<1>3. RowsOK'
  BY DEF Inv, RowsOK, RowOK, Users, Companies
<1>4. Inv'
  BY <1>1, <1>2, <1>3 DEF Inv, RequestOK, RowOK, Kept, Moves, IsRoot, Claims, Nothing
<1>5. ClaimsAreCurrent'
  BY DEF ClaimsAreCurrent, IsRoot, Claims
<1>6. ClosedIsQuiet'
  BY DEF ClosedIsQuiet, IsRoot, Users
<1> QED
  BY <1>4, <1>5, <1>6

LEMMA CommitKeepsInv ==
  ASSUME Inv, NEW q \in Request, Commit(q)
  PROVE  Inv'
<1>1. /\ DOMAIN req' = Request /\ req'[q] = Idle /\ \A s \in Request \ {q} : req'[s] = req[s]
      /\ asked' = asked
  BY CommitRequest
<1>2. \A s \in Request : req'[s] # Idle => IsRequest(req'[s]) /\ RequestOK(req'[s])
  BY <1>1 DEF Inv, TypeOK
<1>3. TypeOK'
  <2>1. \A s \in Request : (req[s] # Idle => IsRequest(req[s]))'
    BY <1>2 DEF IsRequest, SomeRows
  <2>2. asked' \in 0..MaxRequests
    BY <1>1 DEF Inv, TypeOK
  <2> QED
    BY <1>1, <2>1, <2>2, CommitUser, CommitCompany, CommitTokens, CommitCause DEF TypeOK
<1>4. RowsOK'
  <2>1. ASSUME NEW u \in User, user'[u] = Gone PROVE tokens'[u] = {} /\ cause'[u] = {}
    BY <2>1, CommitTokens, CommitCause
  <2>2. ASSUME NEW u \in User, user'[u] # Gone
        PROVE  RowOK(user'[u]) /\ user'[u].company \in {c \in Company : company'[c] # Gone} \cup {None}
    <3>1. RowOK(user'[u])
      BY CommitUser, CommitRequest DEF RequestOK
    <3>2. /\ user'[u].company \in Company \cup {None}
          /\ user'[u].company # None => company'[user'[u].company] # Gone
      BY <2>2, CommitUser
    <3> QED
      BY <3>1, <3>2
  <2> QED
    BY <2>1, <2>2 DEF RowsOK, Users, Companies, RowOK
<1> QED
  BY <1>2, <1>3, <1>4 DEF Inv, RequestOK, RowOK, Kept, Moves, IsRoot, Claims, Nothing

\* The claims of a token that a commit leaves or issues.
LEMMA CommitKeepsClaims ==
  ASSUME Inv, ClaimsAreCurrent, NEW q \in Request, Commit(q)
  PROVE  ClaimsAreCurrent'
<1> DEFINE w == req[q]
<1> SUFFICES ASSUME NEW u \in User, NEW t \in tokens'[u], "stale" \notin cause'[u]
             PROVE  user'[u] # Gone /\ (IsRoot(user'[u]) \/ t = Claims(user'[u]))
  BY DEF ClaimsAreCurrent, IsRoot, Claims
<1>1. /\ user'[u] # Gone
      /\ \/ t \in tokens[u] /\ u \notin w.out
         \/ u = w.by /\ t = w.new /\ w.new # None
  BY CommitTokens
<1>2. IsRequest(w) /\ RequestOK(w) /\ Possible(w)
  BY CommitRequest
<1>3. "stale" \notin cause[u] /\ u \notin Stale(w, user')
  BY <1>1, CommitCause
<1>4. /\ u \in DOMAIN w.users => user'[u] = w.users[u] /\ w.saw[u] = user[u]
      /\ u \notin DOMAIN w.users => user'[u] = user[u]
      /\ u = w.by /\ w.new # None => w.me = user[u]
  BY <1>1, <1>3, CommitUser DEF Stale, Users
<1> HIDE DEF w
<1>5. CASE u = w.by /\ t = w.new /\ w.new # None
  BY <1>1, <1>2, <1>4, <1>5 DEF RequestOK
<1>6. CASE t \in tokens[u] /\ u \notin w.out
  <2>1. user[u] # Gone /\ (IsRoot(user[u]) \/ t = Claims(user[u]))
    BY <1>3, <1>6 DEF ClaimsAreCurrent
  <2>2. CASE u \notin DOMAIN w.users
    BY <1>4, <2>1, <2>2
  <2>3. CASE u \in DOMAIN w.users
    <3>1. Kept(w, u) \/ Moves(w, u)
      BY <1>1, <1>2, <1>4, <1>6, <2>1, <2>3 DEF RequestOK
    <3>2. CASE Kept(w, u)
      <4>1. user'[u].roles = user[u].roles /\ user'[u].company = user[u].company
        BY <1>4, <2>3, <3>2 DEF Kept
      <4> QED
        BY <1>1, <2>1, <4>1 DEF IsRoot, Claims
    <3>3. CASE Moves(w, u)
      BY <1>1, <1>4, <2>3, <3>3 DEF Moves, IsRoot
    <3> QED
      BY <3>1, <3>2, <3>3
  <2> QED
    BY <2>2, <2>3
<1> QED
  BY <1>1, <1>5, <1>6

\* Whoever is active, below root and in a closed company after a commit without a race: it was so before,
\* or the commit has signed him out.
LEMMA CommitKeepsQuiet ==
  ASSUME Inv, ClosedIsQuiet, NEW q \in Request, Commit(q)
  PROVE  ClosedIsQuiet'
<1> DEFINE w == req[q]
<1> SUFFICES ASSUME NEW u \in User, user'[u] # Gone, cause'[u] = {}, ~ IsRoot(user'[u]), user'[u].company # None,
                    ~ company'[user'[u].company].active, user'[u].active,
                    NEW t \in tokens'[u]
             PROVE  FALSE
  BY DEF ClosedIsQuiet, IsRoot, Users
<1> DEFINE c == user'[u].company
<1>1. \/ t \in tokens[u] /\ u \notin w.out
      \/ u = w.by /\ t = w.new /\ w.new # None
  BY CommitTokens
<1>2. IsRequest(w) /\ RequestOK(w) /\ Possible(w)
  BY CommitRequest
<1>3. cause[u] = {} /\ u \notin Stale(w, user') /\ u \notin Missed(w) /\ u \notin Reopened(w) /\ u \notin Unseen(w)
  BY CommitCause
<1>4. /\ u \in DOMAIN w.users => user'[u] = w.users[u] /\ w.saw[u] = user[u]
      /\ u \notin DOMAIN w.users => user'[u] = user[u]
      /\ u = w.by /\ w.new # None => w.me = user[u]
  BY <1>3, CommitUser DEF Stale, Users
<1>5. c \in Company /\ company'[c] # Gone /\ ~ company'[c].active
  BY CommitUser
<1>6. /\ c \in DOMAIN w.firms => w.firms[c] # Gone /\ ~ w.firms[c].active
      /\ c \notin DOMAIN w.firms => company[c] # Gone /\ ~ company[c].active
  <2>1. company'[c].active \in BOOLEAN
    BY <1>5, CommitCompany DEF FirmRow
  <2> QED
    BY <1>5, CommitCompany
<1> HIDE DEF w
\* Whoever was active in this company before has no token left.
<1>7. ASSUME user[u] # Gone, user[u].active, user[u].company = c, ~ IsRoot(user[u])
      PROVE  (tokens[u] = {} \/ u \in w.out) /\ (w.firms = Nothing => tokens[u] = {})
  <2>1. u \in Handled(c)
    BY <1>7, RowFacts DEF Handled, Members, Users
  <2>2. CASE c \in DOMAIN w.firms
    <3>1. u \in w.out
      BY <1>3, <1>6, <2>1, <2>2 DEF Missed, Handled, Members
    <3> QED
      BY <2>2, <3>1, NothingForm
  <2>3. CASE c \notin DOMAIN w.firms
    <3>1. tokens[u] = {}
      BY <1>3, <1>5, <1>6, <1>7, <2>3 DEF ClosedIsQuiet, Users
    <3> QED
      BY <3>1
  <2> QED
    BY <2>2, <2>3
<1>8. CASE t \in tokens[u] /\ u \notin w.out
  <2>1. user[u] # Gone
    BY <1>8 DEF Inv, RowsOK
  <2>2. CASE u \notin DOMAIN w.users
    BY <1>4, <1>7, <1>8, <2>2
  <2>3. CASE u \in DOMAIN w.users
    <3>1. Kept(w, u) \/ Moves(w, u)
      BY <1>2, <1>4, <1>8, <2>1, <2>3 DEF RequestOK
    <3>2. ~ Moves(w, u)
      BY <1>4, <2>3 DEF Moves, IsRoot
    <3>3. /\ user[u].roles = user'[u].roles /\ user[u].company = c /\ ~ IsRoot(user[u])
          /\ \/ user[u].active \/ w.firms = Nothing
             \/ \E d \in DOMAIN w.firms : d = c /\ w.firms[d] # Gone /\ w.firms[d].active
      BY <1>4, <2>3, <3>1, <3>2 DEF Kept, IsRoot
    <3>4. CASE user[u].active
      BY <1>7, <1>8, <2>1, <3>3, <3>4
    <3>5. CASE ~ user[u].active /\ w.firms = Nothing
      BY <1>3, <1>4, <1>8, <2>1, <2>3, <3>5 DEF Reopened
    <3> QED
      BY <1>6, <3>3, <3>4, <3>5
  <2> QED
    BY <2>2, <2>3
<1>9. CASE u = w.by /\ t = w.new /\ w.new # None
  <2>1. w.out = {} /\ w.firms = Nothing /\ c \notin DOMAIN w.firms
    BY <1>2, <1>9, NothingForm DEF RequestOK
  \* Who signs in to this company has looked at it: it was open, and no longer is.
  <2>2. w.me.company = c => w.looked \/ w.knew[c].active
    BY <1>3, <1>5, <1>9, OrganizationAssumption DEF Unseen
  <2>3. w.me.company = c => w.knew[c] = company[c]
    BY <1>3, <1>5, <1>9 DEF Missed
  <2>4. CASE u \notin DOMAIN w.users /\ w.old # None
    <3>1. w.old \in tokens[u]
      BY <1>2, <1>9, <2>4 DEF Possible
    <3> QED
      BY <1>4, <1>7, <2>1, <2>4, <3>1
  <2>5. CASE u \notin DOMAIN w.users /\ ~ w.looked
    BY <1>4, <1>6, <1>9, <2>1, <2>2, <2>3, <2>5
  <2>6. CASE u \in DOMAIN w.users
    <3>1. /\ w.users[u] = w.me
          /\ w.looked /\ w.me.company # None => w.knew[w.me.company] # Gone /\ w.knew[w.me.company].active
      BY <1>2, <1>4, <1>9, <2>6 DEF RequestOK, IsRoot
    <3>2. w.me.company = c /\ c # None
      BY <1>4, <2>6, <3>1
    <3> QED
      BY <1>6, <2>1, <2>2, <2>3, <3>1, <3>2
  <2>7. u \in DOMAIN w.users \/ w.old # None \/ ~ w.looked
    BY <1>2, <1>9 DEF RequestOK
  <2> QED
    BY <2>4, <2>5, <2>6, <2>7
<1> QED
  BY <1>1, <1>8, <1>9

\* Every step keeps the rows in order, the claims current and closed companies quiet.
LEMMA StepKeeps ==
  ASSUME Inv, ClaimsAreCurrent, ClosedIsQuiet, [Next]_vars
  PROVE  (Inv /\ ClaimsAreCurrent /\ ClosedIsQuiet)'
<1>1. ASSUME NEW q \in Request, Ask(q)
      PROVE  (Inv /\ ClaimsAreCurrent /\ ClosedIsQuiet)'
  BY <1>1, AskFair, RowsStay DEF Asked
<1>2. ASSUME NEW q \in Request, Commit(q)
      PROVE  (Inv /\ ClaimsAreCurrent /\ ClosedIsQuiet)'
  BY <1>2, CommitKeepsInv, CommitKeepsClaims, CommitKeepsQuiet
<1>3. ASSUME NEW q \in Request, Fail(q)
      PROVE  (Inv /\ ClaimsAreCurrent /\ ClosedIsQuiet)'
  <2>1. /\ UNCHANGED <<user, company, tokens, cause>> /\ asked' \in 0..MaxRequests
        /\ DOMAIN req' = Request /\ req'[q] = Idle /\ \A s \in Request \ {q} : req'[s] = req[s]
    BY <1>3 DEF Fail, Inv, TypeOK
  <2> QED
    BY <2>1, RowsStay
<1>4. CASE UNCHANGED vars
  BY <1>4 DEF vars, Inv, TypeOK, RowsOK, RowOK, Users, Companies, IsRequest, SomeRows, RequestOK, Kept, Moves,
              Nothing, ClaimsAreCurrent, ClosedIsQuiet, IsRoot, Claims
<1> QED
  BY <1>1, <1>2, <1>3, <1>4 DEF Next

-----------------------------------------------------------------------------
(* The theorems.                                                            *)

LEMMA Always == Spec => [](Inv /\ ClaimsAreCurrent /\ ClosedIsQuiet)
<1>1. Init => Inv /\ ClaimsAreCurrent /\ ClosedIsQuiet
  BY Initially
<1>2. (Inv /\ ClaimsAreCurrent /\ ClosedIsQuiet) /\ [Next]_vars => (Inv /\ ClaimsAreCurrent /\ ClosedIsQuiet)'
  BY StepKeeps
<1> QED
  BY <1>1, <1>2, PTL DEF Spec

\* Rows, tokens and requests keep their types, however requests interleave.
THEOREM TypeCorrect == Spec => []TypeOK
<1>1. Inv => TypeOK
  BY DEF Inv
<1> QED
  BY <1>1, Always, PTL

\* Nobody is left of a user who is deleted, whoever is active is not banned, and everybody's company is there
\* (the foreign keys of User, and BanUser against activation).
THEOREM RowsAreSound == Spec => []RowsOK
<1>1. Inv => RowsOK
  BY DEF Inv
<1> QED
  BY <1>1, Always, PTL

\* The claims of a session are those of the row, but for root users and for rows written back stale.
THEOREM ClaimsStayCurrent == Spec => []ClaimsAreCurrent
BY Always, PTL

\* Nobody below root acts in a company that was closed, but after one of the three races or a sign-in for which
\* nobody looked at the company.
THEOREM ClosedStaysQuiet == Spec => []ClosedIsQuiet
BY Always, PTL

\* Whatever is decided of somebody is within the authority of whoever decides it.
THEOREM AuthorityIsKept == Spec => AuthorityIsGiven
<1> DEFINE Decided ==
      \A q \in Request : req[q] = Idle /\ req'[q] # Idle =>
       LET w == req'[q]
       IN  \/ IsRoot(w.me) \/ cause[w.by] # {}
           \/ \A u \in DOMAIN w.users : w.users[u] = w.saw[u] \/
                /\ w.saw[u] = Gone \/ (Level(w.me) <= Level(w.saw[u]) /\ w.saw[u].company \in {None, w.me.company})
                /\ \/ w.users[u] = Gone
                   \/ /\ Level(w.me) <= Level(w.users[u])
                      /\ \/ w.users[u].company \in {None, w.me.company}
                         \/ w.knew[w.users[u].company].parent = w.me.company
<1>1. ASSUME Inv, ClaimsAreCurrent, [Next]_vars PROVE [Decided]_vars
  <2>1. ASSUME NEW s \in Request, Ask(s) PROVE Decided
    <3>1. Asked(s) /\ Fair(s)
      BY <1>1, <2>1, AskFair
    <3>2. cause' = cause /\ \A q \in Request \ {s} : req'[q] = req[q]
      BY <3>1 DEF Asked
    <3> SUFFICES ASSUME NEW q \in Request, req[q] = Idle, req'[q] # Idle
                 PROVE  IsRoot(req'[q].me) \/ cause[req'[q].by] # {} \/ Entitled(req'[q])
      BY DEF Entitled
    <3> QED
      BY <3>1, <3>2 DEF Fair
  <2>2. ASSUME NEW s \in Request, Commit(s) \/ Fail(s) PROVE Decided
    <3>1. \A q \in Request : req'[q] = req[q] \/ req'[q] = Idle
      BY <1>1, <2>2, CommitRequest DEF Fail, Inv, TypeOK
    <3> QED
      BY <3>1
  <2> QED
    BY <1>1, <2>1, <2>2 DEF Next
<1>2. Inv /\ ClaimsAreCurrent /\ [Next]_vars => [Decided]_vars
  BY <1>1
<1> QED
  BY <1>2, Always, PTL DEF Spec, AuthorityIsGiven

===============================================================================
