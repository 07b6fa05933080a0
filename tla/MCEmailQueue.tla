----------------------------- MODULE MCEmailQueue -----------------------------
(* Instances of EmailQueue: two registrations of one address. *)
EXTENDS EmailQueue

CONSTANTS u1, u2, a

SameAddress == [u \in Users |-> a]
WithPhone == {u1}
=============================================================================
