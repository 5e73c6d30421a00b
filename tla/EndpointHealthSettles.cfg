SPECIFICATION Spec
CONSTANTS
  Count = 3
  Signal = 2
  Added = {3}
  HEALTH_DRIFT_STRIKE_LIMIT = 1
  MaxStrikes = 1
PROPERTIES
  EndedSessionReplaced
  HealthSettles
