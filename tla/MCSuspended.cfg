SPECIFICATION Spec
CONSTANTS
  Logins = {owner, ann, bob}
  Bootstrap = {owner}
  Requests = {r1, r2}
  MaxEntries = 2
  None = None
PROPERTIES
  AdminsAreNeverSuspended
CHECK_DEADLOCK FALSE
