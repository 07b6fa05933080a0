SPECIFICATION Spec
CONSTANTS
  p1 = p1
  p2 = p2
  f1 = f1
  f2 = f2
  f3 = f3
  m1 = m1
  m2 = m2
  m3 = m3
  m4 = m4
  Product = {p1, p2}
  File = {f1, f2, f3}
  Media = {m1, m2, m3, m4}
  Type <- TypeOfFile
  Shown <- ShownMedia
  Unborn = Unborn
  Gone = Gone
  Idle = Idle
  Request = {r1, r2}
  Faults = {"erase", "stat", "crash"}
  MaxRequests = 3
INVARIANTS FavoritesNeedRace ObjectsHaveFiles DeletionIsComplete
SYMMETRY RequestSymmetry
