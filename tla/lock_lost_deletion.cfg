CONSTANTS
  a = a
  b = b
  none = none
  Services <- MCServices
  NoService <- none
  MaxCreates = 3
  LaggingRoles = FALSE
  LegacyLock = FALSE
  Protection = {TRUE, FALSE}
  CanFail = {"deleteLock"}
  MaxFailures = 1
SPECIFICATION Spec
CHECK_DEADLOCK FALSE
INVARIANT AtMostOneActive
