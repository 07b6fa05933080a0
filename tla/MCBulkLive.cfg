SPECIFICATION FairSpec
CONSTANTS
  Request = {r1, r2}
  Job = {j1, j2}
  Client = {c1}
  Worker = {w1}
  None = None
  Attempts = 2
  Chunks = 1
  Ops = {"start"}
  Faults <- Recoverable
INVARIANTS CompletedCountsAllRows
PROPERTIES CompletedStands FileReleased ImportEnds
CHECK_DEADLOCK FALSE
