SPECIFICATION Spec
CONSTANTS
  Count = 3
  Signal = 2
  Added = {3}
  HEALTH_DRIFT_STRIKE_LIMIT = 2
  MaxStrikes = 2
INVARIANTS
  TypeOK
  DegradedWasMissed
  LossReported
PROPERTY
  RereadIsSound
