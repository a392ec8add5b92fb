CONSTANTS
  a = a
  b = b
  none = none
  Codes <- MCCodes
  NoCode = none
  Trial = a
  Cap = 4
  Settings <- RacingSettings
SPECIFICATION Spec
CHECK_DEADLOCK FALSE
INVARIANT StatusTellsRepository
