SPECIFICATION Spec
CONSTANTS
  Logins = {alice, bob, carol}
  Emails = {mail}
  Tokens = {tok}
  Links = {}
  Repos = {repo1, repo2}
  Suspects = {evil}
  None = None
  MaxDay = 4
  MaxSubsPerRun = 2
  Budget = 100
  RepoCost = 50
  ProbeCost = 1
  Stuck = {}
INVARIANTS
  NobodyStarves
  MarkersTellTheOutcome
  AlertsAreLostOnlyInTheMail
PROPERTIES
  EveryRunServesSomeone
CHECK_DEADLOCK FALSE
