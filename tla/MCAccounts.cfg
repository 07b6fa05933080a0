SPECIFICATION Spec
CONSTANTS
  Request = {r1, r2}
  None = None
  Gone = Gone
  Mail = {m1, m2}
  Op = {"login", "askCode", "verify", "refresh", "logout", "logoutAll", "password", "adminMail", "askReset", "reset", "activate", "ban", "banUntil", "unban", "removeRole", "delete", "editUnban"}
  MaxSessions = 2
  MaxRequests = 3
INVARIANTS RefreshOnce ResetOnce SessionLimit CirclesNeedDisorder
PROPERTIES BanStands
SYMMETRY RequestSymmetry
CHECK_DEADLOCK FALSE
