------------------------------- MODULE Hierarchy -------------------------------
(***************************************************************************)
(* Who may do what to whom: the roles and their two orders, and the        *)
(* decisions of UserAuthorizationService, UserRoleHierarchyService,        *)
(* DomainValidationService, UserAccessAuthorizationService and             *)
(* InvitationRulesService.  Operators only: x is the row of the user who   *)
(* acts, u the row of the user who is acted on, as the handler has read    *)
(* them: [roles, company, active, reactivable].                            *)
(*                                                                         *)
(* The permissions of the roles are those of the seed: root:access belongs *)
(* to root and root_readonly, system and audit permissions too.  The role  *)
(* bot and roles made by an administrator are left out.                    *)
(***************************************************************************)
EXTENDS Naturals, FiniteSets

CONSTANT None   \* no company

Role == {"root", "root_readonly", "admin", "manager", "sales_agent", "host", "guest"}
Root == {"root", "root_readonly"}

\* The place in ROLE_HIERARCHY_ORDER, where bot is second.
Place == [root |-> 1, root_readonly |-> 3, admin |-> 4, manager |-> 5, sales_agent |-> 6,
          host |-> 7, guest |-> 8]
\* The column hierarchyLevel, in which roles tie.
Rank == [root |-> 1, root_readonly |-> 1, admin |-> 2, manager |-> 3, sales_agent |-> 4,
         host |-> 4, guest |-> 5]

Least(S) == CHOOSE n \in S : \A m \in S : n <= m
Level(x) == Least({Place[r] : r \in x.roles} \cup {9})
Highest(x) == {r \in x.roles : \A s \in x.roles : Rank[r] <= Rank[s]}

IsRoot(x) == x.roles \cap Root # {}
IsAdmin(x) == "admin" \in x.roles
AccessRoot(x) == x.active /\ IsRoot(x)
AccessAdmin(x) == x.active /\ IsAdmin(x)
TrueRoot(x) == AccessRoot(x) /\ "root" \in x.roles

(*************************** modify and delete *****************************)
CanManage(x, u) == Level(x) <= Level(u)
CanModify(x, u, self) == IF IsRoot(u) THEN self ELSE CanManage(x, u)
CanActivate(x, u) == IsRoot(x) \/ (IsAdmin(x) /\ u.company # None /\ x.company = u.company)
CanDelete(x, u) ==
  /\ ~ IsRoot(u) /\ CanManage(x, u)
  /\ \/ IsRoot(x)
     \/ /\ x.company = u.company
        /\ \/ IsAdmin(x) /\ ~ IsAdmin(u)
           \/ ~ IsAdmin(x) /\ "manager" \in x.roles /\ Level(u) > Level(x)
CanAccess(x, u, self) ==
  \/ AccessRoot(x)
  \/ /\ x.company # None /\ u.company # None
     /\ IF AccessAdmin(x) THEN x.company = u.company ELSE self

(********************************* roles ***********************************)
\* Nobody is given a role of Root: the rules of validateRoleAssignment refuse it.
ValidAssignment(x, u, r) ==
  /\ u.active /\ r \notin Root
  /\ IsRoot(u) => IsRoot(x)
  /\ ~ IsRoot(x) => /\ u.company = None \/ x.company = None \/ u.company = x.company
                    /\ \A h \in Highest(x) : Rank[h] <= Rank[r]

\* The claim is the company in the actor's token: without one the second half is skipped.
CanAssign(x, u, r, self, claim) ==
  /\ ValidAssignment(x, u, r)
  /\ claim # None => /\ IsRoot(x) \/ (IsAdmin(x) /\ x.company = claim)
                     /\ CanModify(x, u, self)
                     /\ AccessRoot(x) \/ AccessAdmin(x)

\* With a tie the entity takes one of its highest roles, whichever comes first.
CanUnassign(x, u, r, self) ==
  /\ CanModify(x, u, self)
  /\ IsRoot(u) => IsRoot(x)
  /\ r \notin Root
  /\ self => Highest(x) # {r}
  /\ \/ IsRoot(x)
     \/ /\ x.company = u.company
        /\ \/ IsAdmin(x)
           \/ /\ "manager" \in x.roles
              /\ \A h \in Highest(x), s \in Highest(u) \cup {r} : Rank[s] > Rank[h]

(******************************* companies *********************************)
(* Faulty: whoever another company has is taken over. *)
CanJoinFromAnywhere(x, u, to, parent) ==
  /\ CanManage(x, u)
  /\ IsRoot(x) \/ (IsAdmin(x) /\ x.company # None /\ x.company \in {to, parent})

\* parent is the parent of the company to join; a handler loads it one level up.
CanJoin(x, u, to, parent) ==
  /\ CanManage(x, u)
  /\ \/ IsRoot(x)
     \/ /\ IsAdmin(x) /\ x.company # None
        /\ u.company \in {None, x.company}
        /\ x.company \in {to, parent}

CanLeave(x, u) ==
  /\ CanManage(x, u)
  /\ \/ IsRoot(x)
     \/ IsAdmin(x) /\ x.company # None /\ u.company \in {None, x.company}

CanEditCompany(x, c) == AccessRoot(x) \/ IsRoot(x) \/ x.company = c

(******************************* invitations *******************************)
Invitable == [root |-> Role \ {"host"}, root_readonly |-> {},
              admin |-> {"admin", "manager", "sales_agent", "guest"},
              manager |-> {"manager", "sales_agent", "guest"},
              sales_agent |-> {}, guest |-> {}]
InviteRole(roles) ==
  LET known == roles \ {"host"}
  IN  IF known = {} THEN "guest" ELSE CHOOSE r \in known : \A s \in known : Place[r] <= Place[s]

\* Decided from the claims of the token, not from the row.
CanInvite(claim, r, to) ==
  LET by == InviteRole(claim.roles)
  IN  r \in Invitable[by] /\ (by # "root" => to = claim.company)
=============================================================================
