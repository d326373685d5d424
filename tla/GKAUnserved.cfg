SPECIFICATION MCFairSpec
CONSTANTS
  Node = {0, 1, 2, 3}
  PERIOD_INTERVAL = 5
  LEADER_LAST_TIME = 20
  IREPLY_EXPIRE_TIME = 20
  SECRET_EXPIRE_TIME = 100
  simulationTime = 100
  StartTimes = {0, 1, 2, 4}
  Backoffs = {1}
  LastSecretExpired = {FALSE}
  InitSessionIds = {0}
  MovementReseeds = FALSE
  MaxCopies = 3
  None = None
  TableSize = 4
  NODE_COVERAGE_AREA = 300
  Setups <- MCTriangle
PROPERTIES
  Converges
CHECK_DEADLOCK FALSE
