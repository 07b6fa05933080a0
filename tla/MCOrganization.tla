---------------------------- MODULE MCOrganization ----------------------------
(* A root user, an admin and a manager of a company, and an address that is   *)
(* not registered; the company has a subsidiary.                              *)
EXTENDS Organization, TLC

CONSTANTS root, admin, manager, other, c1, c2

Row(r, c) == [roles |-> {r}, company |-> c, active |-> TRUE, reactivable |-> TRUE]
MCStaff == (root :> Row("root", None)) @@ (admin :> Row("admin", c1))
             @@ (manager :> Row("manager", c1)) @@ (other :> Gone)
MCFirms == (c1 :> [active |-> TRUE, parent |-> None]) @@ (c2 :> [active |-> TRUE, parent |-> c1])
MCGrant == {"admin", "manager", "host"}

RequestSymmetry == Permutations(Request)
=============================================================================
