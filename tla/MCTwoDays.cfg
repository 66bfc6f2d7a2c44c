SPECIFICATION Spec
SYMMETRY Symmetry
CONSTANTS
  Logins = {alice}
  Emails = {home}
  Tokens = {t1}
  Links = {k1, k2}
  Repos = {repo}
  Suspects = {evil, clone}
  Reqs = {r1}
  None = None
  MaxDay = 2
  MaxSubsPerRun = 1
  Budget = 800
  RepoCost = 50
  ProbeCost = 1
INVARIANTS
  NoDuplicateAlert
CHECK_DEADLOCK FALSE
