SPECIFICATION FairSpec
CONSTANTS
  Attempt = {u1, u2}
  Wanted <- OwnPaths
  Size <- UnitSize
  MaxQuota = 2
  MaxSlots = 2
  Request = {r1}
  Cleaner = worker
  Absent = Absent
  None = None
  Dead = Dead
  Ops = {"initiate", "abort", "clear"}
  Faults = {}
  Expiry = "quiet"
  StatErrorMeansAbsent = FALSE
PROPERTIES AbandonedUploadsRemoved CountersDrain
CHECK_DEADLOCK FALSE
