SPECIFICATION MCSpec
CONSTANTS
  Node = {0, 1}
  PERIOD_INTERVAL = 5
  LEADER_LAST_TIME = 20
  IREPLY_EXPIRE_TIME = 20
  SECRET_EXPIRE_TIME = 100
  simulationTime = 45
  StartTimes = {0, 3}
  Backoffs = {1, 2}
  LastSecretExpired = {FALSE}
  InitSessionIds = {0}
  MovementReseeds = TRUE
  MaxCopies = 1
  None = None
  MaxRng = 400
INVARIANTS
  LeaderSessionsDistinct
CHECK_DEADLOCK FALSE
