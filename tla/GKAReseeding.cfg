SPECIFICATION MCSpec
CONSTANTS
  Node = {0, 1}
  PERIOD_INTERVAL = 5
  LEADER_LAST_TIME = 10
  IREPLY_EXPIRE_TIME = 10
  SECRET_EXPIRE_TIME = 100
  simulationTime = 25
  StartTimes = {0, 3}
  Backoffs = {1, 2}
  LastSecretExpired = {FALSE}
  InitSessionIds = {0, 7}
  MovementReseeds = TRUE
  MaxCopies = 2
  None = None
  MaxRng = 130
INVARIANTS
  TypeOK
  GroupInv
  MembershipAcyclic
  GroupIsASet
PROPERTIES
  SilenceBeforeLeadership
CHECK_DEADLOCK FALSE
