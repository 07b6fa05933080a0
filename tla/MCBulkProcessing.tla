-------------------------- MODULE MCBulkProcessing --------------------------
(* Instances of BulkProcessing: one file, one or two requests, one worker. *)
EXTENDS BulkProcessing, TLC

Everything == {"storage", "archive", "stream", "queue", "tx", "crash", "early"}
\* Failures that stop neither the process nor an attempt, and undo no start.
Recoverable == {"storage", "archive", "queue"}

ClientSymmetry == Permutations(Client)
=============================================================================
