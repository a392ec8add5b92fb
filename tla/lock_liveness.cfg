CONSTANTS
  a = a
  b = b
  none = none
  Services <- MCServices
  NoService <- none
  MaxCreates = 2
  LaggingRoles = FALSE
  LegacyLock = TRUE
  Protection = {TRUE, FALSE}
  CanFail = {"createGC", "deleteGC", "createLock", "updateService", "install", "deleteLock"}
  MaxFailures = 2
SPECIFICATION MCSpec
CHECK_DEADLOCK FALSE
PROPERTIES SoleServiceActivated LockReleased CleanupLeaksNothing
