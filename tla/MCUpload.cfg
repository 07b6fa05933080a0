SPECIFICATION Spec
CONSTANTS
  Attempt = {u1, u2}
  Wanted <- OwnPaths
  Size <- UnitSize
  MaxQuota = 2
  MaxSlots = 2
  Request = {r1, r2}
  Cleaner = worker
  Absent = Absent
  None = None
  Dead = Dead
  Ops = {"initiate", "complete", "abort", "heartbeat"}
  Faults = {"storage", "tx", "redis", "crash"}
  Expiry = "quiet"
  StatErrorMeansAbsent = FALSE
INVARIANTS NoOrphanObject UploadedIsStored LiveBytesReserved
PROPERTIES DeletedStaysDeleted
SYMMETRY AttemptSymmetry
CHECK_DEADLOCK FALSE
