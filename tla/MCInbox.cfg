SPECIFICATION Spec
SYMMETRY Symmetry
CONSTANTS
  Logins = {alice}
  Suspects = {evil}
  Messages = {m1, m2}
  Reports = {p1}
  MaxTexts = 2
  Categories = {malware, impersonation}
  Addressed = {m1}
  Filters = {"open"}
  Marks = {"read", "dismissed"}
  MaxCalls = 3
  MaxFaults = 1
  None = None
INVARIANTS
  ChangesAreOnRecord
  TriageSurvivesReports
  SecondMailHasACause
  NothingTypedIsLost
CHECK_DEADLOCK FALSE
