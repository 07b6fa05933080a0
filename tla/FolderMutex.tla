------------------------------ MODULE FolderMutex ------------------------------
(***************************************************************************)
(* What a hierarchical folder lock promises (IPathConcurrencyService):     *)
(* whoever owns a folder owns it together with nobody who owns an ancestor *)
(* or a descendant, and a folder changes hands only through being free.    *)
(* There are no keys, counters, times or programs here.                    *)
(***************************************************************************)
CONSTANTS Session, None, Path, Anc

VARIABLE owner     \* the session that owns a path, or None

Related(p, q) == p = q \/ p \in Anc[q] \/ q \in Anc[p]

Owned == {p \in Path : owner[p] # None}

Init == owner = [p \in Path |-> None]

Take(s, p) ==
  /\ \A q \in Path : Related(p, q) => owner[q] = None
  /\ owner' = [owner EXCEPT ![p] = s]

\* Releases, and locks that run out together.
Free(P) == owner' = [p \in Path |-> IF p \in P THEN None ELSE owner[p]]

Next ==
  \/ \E P \in SUBSET Owned : Free(P)
  \/ \E s \in Session, p \in Path : Take(s, p)

Spec == Init /\ [][Next]_owner
=============================================================================
