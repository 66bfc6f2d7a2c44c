SPECIFICATION ScanSpec
CONSTANTS
  Width = 2
  maxRetries = 1
  clusteredActivityMinRepos = 3
  Repos = {"ant", "bee", "cat", "dog"}
  Eligible = {"ant", "bee"}
  Others = {"x", "y"}
  PerPage = 3
  MaxPages = 2
  DefaultLimit = 2
  MaxLimit = 3
  DefaultSources = 2
  MaxSources = 2
  MaxCandidates = 2
  Asked <- MCAsked
  Confidences = {45, 80}
  InitialOrder <- MCOrder
  MaxPushes = 1
  Stars <- MCStars
  Verdicts <- MCVerdicts
  Accounts <- MCAccounts
INVARIANTS
  WithinTheSubrequestBudget
CHECK_DEADLOCK FALSE
