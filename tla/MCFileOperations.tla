--------------------------- MODULE MCFileOperations ---------------------------
(* Instances of FileOperations: two files in a few places, two requests. *)
EXTENDS FileOperations, TLC

CONSTANTS f1, f2

FileOrder == [k \in Key |-> IF k = f1 THEN 1 ELSE 2]
\* Two names in the first folder.
Homes == [k \in Key |-> <<CHOOSE d \in Folder : TRUE,
                          IF k = f1 THEN CHOOSE n \in Name : TRUE
                          ELSE CHOOSE n \in Name : n # CHOOSE m \in Name : TRUE>>]
\* After two accidents nothing is claimed about the files any more.
Explored == OneAccident \/ cause = {"lockLost"}

RequestSymmetry == Permutations(Session)
=============================================================================
