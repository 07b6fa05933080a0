-------------------------------- MODULE MCUpload --------------------------------
(* Instances of Upload: attempts of one user, each at a path of its own. *)
EXTENDS Upload, TLC

OwnPaths == [u \in Attempt |-> u]
UnitSize == [u \in Attempt |-> 1]

RequestSymmetry == Permutations(Request)
AttemptSymmetry ==
  {f @@ g : f \in Permutations(Request), g \in Permutations(Attempt)}
=============================================================================
