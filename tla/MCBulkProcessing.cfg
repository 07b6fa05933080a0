SPECIFICATION Spec
CONSTANTS
  Request = {r1}
  Job = {j1}
  Client = {c1, c2}
  Worker = {w1}
  None = None
  Attempts = 3
  Chunks = 2
  Ops = {"start", "cancel"}
  Faults <- Everything
INVARIANTS ImportedOnce
PROPERTIES ErasedOnlyAfterImport
SYMMETRY ClientSymmetry
CHECK_DEADLOCK FALSE
