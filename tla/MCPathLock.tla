------------------------------ MODULE MCPathLock ------------------------------
(* Instances of PathLock on the paths of a small tree. *)
EXTENDS PathLock, FolderPath, TLC

A == Normalize(<<1>>)
B == Normalize(<<1, 1>>)
C == Normalize(<<1, 1, 1>>)
X == Normalize(<<1, 2>>)

TreePaths == {A, B, C, X}
TreeAnc == [p \in TreePaths |-> AncestorsOf(p)]
TreeRank == [p \in TreePaths |-> RankIn(TreePaths, p)]

MixedRequests == {{A, C}, {C}, {B, X}}
SingleRequests == {{A}, {B}, {C}, {X}}
FlatRequests == {{B, X}, {X}, {B}}

Symmetry == Permutations(Session)
=============================================================================
