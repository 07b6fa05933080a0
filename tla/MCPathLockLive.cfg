SPECIFICATION FairSpec
CONSTANTS
  Session = {s1, s2}
  None = None
  Path <- TreePaths
  Anc <- TreeAnc
  Rank <- TreeRank
  Request <- FlatRequests
  Ttl = {2}
  Strict = {FALSE}
  MaxDesc = 3
INVARIANTS NoWaitCycle
PROPERTIES DeadLocksFreed CountersDrain
CHECK_DEADLOCK FALSE
