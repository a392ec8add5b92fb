CONSTANTS
  a = a
  b = b
  none = none
  Codes <- MCCodes
  NoCode = none
  Trial = a
  Cap = 3
  Settings <- FlowSettings
SPECIFICATION FairSpec
CHECK_DEADLOCK FALSE
INVARIANTS TypeOK RetryClockMeansRetryIfPatient StatusTellsRepositoryIfPatient DoneIsRegisteredIfPatient EventsFit
PROPERTIES EditsStayIfPatient FollowsFlowIfPatient ConvergesIfPatient
