SPECIFICATION Spec
CONSTANTS
  Links <- MCLinks
  Days <- MCDays
  MaxCommits = 2
  MaxEdits = 2
INVARIANTS
  FailuresOnlyWeaken
  MaintenanceStaysBelowElevated
  CanonicalComboIsFlagged
  StructureAloneNeverAlerts
  CopyWithPayloadIsReported
PROPERTIES
  EvidenceNeverExonerates
CHECK_DEADLOCK FALSE
