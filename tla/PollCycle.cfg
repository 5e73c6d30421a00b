SPECIFICATION Spec
CONSTANTS
  FETCH_STRIKE_LIMIT = 2
  REPAIR_CONN_STRIKE_LIMIT = 3
  MaxFailures = 3
INVARIANTS
  TypeOK
  ConnRepairMeansOutage
  OneProbePerOutage
  ErrorVerdictIsCurrent
  ConnRepairHasVerdict
PROPERTIES
  ForceFlagBuysFetch
  UserActionServed
  RecoveryVisible
