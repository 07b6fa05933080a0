SPECIFICATION Spec
CONSTANTS
  u1 = u1
  u2 = u2
  a = a
  Users = {u1, u2}
  Address <- SameAddress
  HasPhone <- WithPhone
  Worker = {w1, w2}
  Attempts = 2
  MaxStalled = 1
  MaxFaults = 2
  Nobody = Nobody
  NoRow = NoRow
INVARIANTS DuplicatesArePaidFor OutcomeIsVisible
PROPERTIES RegisteredIsSettled
CHECK_DEADLOCK FALSE
