------------------------------ MODULE FolderPath ------------------------------
(***************************************************************************)
(* The path algebra of PathConcurrencyService and FolderLockService.  A    *)
(* path is the sequence of its segments; a segment is a number, and the    *)
(* order of numbers is the order localeCompare gives the segments.         *)
(***************************************************************************)
EXTENDS Naturals, Sequences, FiniteSets

Empty == 0      \* the segment between two slashes that follow each other

\* normalize: empty segments go, a leading or a trailing slash with them.
Normalize(raw) == SelectSeq(raw, LAMBDA seg : seg # Empty)

\* ancestorsOf: the proper prefixes of one segment or more.
AncestorsOf(p) == {SubSeq(p, 1, i) : i \in 1 .. Len(p) - 1}

\* The comparator of normalizeAndCollapse: by depth, then lexicographically.
Before(p, q) ==
  \/ Len(p) < Len(q)
  \/ /\ Len(p) = Len(q)
     /\ \E i \in 1 .. Len(p) :
          p[i] < q[i] /\ \A j \in 1 .. i - 1 : p[j] = q[j]

RankIn(S, p) == Cardinality({q \in S : Before(q, p)})
=============================================================================
