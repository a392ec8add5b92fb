CONSTANTS
  a = a
  b = b
  none = none
  Services <- MCServices
  NoService <- none
  MaxCreates = 2
  LaggingRoles = TRUE
  LegacyLock = FALSE
  Protection = {TRUE, FALSE}
  CanFail = {"createGC", "deleteGC", "createLock", "updateService", "install", "deleteLock", "restart"}
  MaxFailures = 2
SPECIFICATION MCFairSpec
CHECK_DEADLOCK FALSE
PROPERTY OperandsSettle
