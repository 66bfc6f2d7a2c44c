SPECIFICATION Spec
CONSTANTS
  Logins = {owner, ann, bob}
  Bootstrap = {owner}
  Requests = {r1, r2}
  MaxEntries = 2
  None = None
SYMMETRY Symmetric
INVARIANTS
  SuspensionIsAccountedFor
  RoleIsAccountedFor
PROPERTIES
  PermanentAdminsStand
  AdminsAreSuspendedOnlyInARace
CHECK_DEADLOCK FALSE
