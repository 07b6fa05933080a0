SPECIFICATION Spec
CONSTANTS
  Session = {s1, s2, s3}
  None = None
  Path <- TreePaths
  Anc <- TreeAnc
  Rank <- TreeRank
  Request <- MixedRequests
  Ttl = {2}
  Strict = {FALSE, TRUE}
  MaxDesc = 3
INVARIANTS HierarchicalExclusion CounterCoversLocks CounterExactUntilExpiry
PROPERTIES NoForeignRelease StrictAcquiresAlone ImplementsFolderMutex
SYMMETRY Symmetry
CHECK_DEADLOCK FALSE
