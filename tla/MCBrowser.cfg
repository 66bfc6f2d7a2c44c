SPECIFICATION Spec
SYMMETRY Symmetry
CONSTANTS
  Logins = {alice, bob}
  Term = 1
  MaxTime = 2
  MaxSessions = 2
  None = None
  Tabs = {t1, t2}
  MaxLogins = 2
  MaxFlying = 2
  MaxLosses = 1
INVARIANTS
  ErasureSignsOutEverywhere
  ReportsAreCachedUnderTheirAccount
  SignOutClearsEveryReport
PROPERTY
  SessionsEndForACause
CHECK_DEADLOCK FALSE
