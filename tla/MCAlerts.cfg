SPECIFICATION Spec
SYMMETRY Symmetry
CONSTANTS
  Logins = {alice}
  Emails = {home}
  Tokens = {t1}
  Links = {k1, k2}
  Repos = {repo}
  Suspects = {evil}
  Reqs = {r1, r2}
  None = None
  MaxDay = 1
  MaxSubsPerRun = 1
  Budget = 800
  RepoCost = 50
  ProbeCost = 1
INVARIANTS
  TypeOK
  DormantRowIsWiped
  ConfirmedRowHasNoLink
  QuiescentErasureIsComplete
PROPERTY
  StopsWithinOneRun
CHECK_DEADLOCK FALSE
