CONSTANTS
  a = a
  b = b
  none = none
  Services <- MCServices
  NoService <- none
  MaxCreates = 3
  LaggingRoles = FALSE
  LegacyLock = FALSE
  Protection = {TRUE, FALSE}
  CanFail = {"createGC", "deleteGC", "createLock", "updateService", "install"}
  MaxFailures = 1
SPECIFICATION Spec
CHECK_DEADLOCK FALSE
INVARIANTS TypeOK AtMostOneActive ActiveHoldsLock NoServiceDoomed LockInv
PROPERTIES GCRoleOutlivesActive CleanupInOrder Implements
