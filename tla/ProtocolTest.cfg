SPECIFICATION MCFairSpec
CONSTANTS
  Node = {0, 1, 2}
  PERIOD_INTERVAL = 5
  LEADER_LAST_TIME = 20
  IREPLY_EXPIRE_TIME = 20
  SECRET_EXPIRE_TIME = 15
  simulationTime = 100
  StartTimes = {0, 2, 4}
  Backoffs = {1, 2}
  LastSecretExpired = {FALSE}
  InitSessionIds = {0}
  MovementReseeds = FALSE
  MaxCopies = 2
  None = None
  TableSize = 3
  NODE_COVERAGE_AREA = 300
  Setups <- MCSetups
INVARIANTS
  KeyAgreementOneHop
  EveryKeyReported
  AveragesDefined
PROPERTIES
  Converges
  Terminates
CHECK_DEADLOCK FALSE
