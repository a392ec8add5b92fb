CONSTANTS
  a = a
  b = b
  none = none
  Services <- MCServices
  NoService <- none
  MaxCreates = 2
  LaggingRoles = FALSE
  LegacyLock = FALSE
  Protection = {TRUE, FALSE}
  CanFail = {"deleteGC"}
  MaxFailures = 1
SPECIFICATION FairSpec
CHECK_DEADLOCK FALSE
PROPERTY LockDeletedLast
