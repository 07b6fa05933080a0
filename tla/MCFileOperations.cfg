SPECIFICATION Spec
CONSTANTS
  f1 = f1
  f2 = f2
  Session = {s1, s2}
  None = None
  Gone = Gone
  Key = {f1, f2}
  Order <- FileOrder
  LockTtl = 1
  Folder = {d1, d2}
  Name = {n1, n2}
  Home <- Homes
  Op = {"move", "rename", "delete", "visibility", "apps"}
  MaxRequests = 3
  Faults = {"query", "stat", "storage", "timeout", "stall", "die"}
INVARIANTS NeverLeftCopying ServedWithoutAccident NoForeignBytes
PROPERTIES ImplementsFileMutex OnlyOwnerUnlocks
SYMMETRY RequestSymmetry
CONSTRAINT Explored
CHECK_DEADLOCK FALSE
