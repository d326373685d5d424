SPECIFICATION MCSpec
CONSTANTS
  Node = {0, 1, 2}
  PERIOD_INTERVAL = 5
  LEADER_LAST_TIME = 5
  IREPLY_EXPIRE_TIME = 10
  SECRET_EXPIRE_TIME = 100
  simulationTime = 30
  StartTimes = {0}
  Backoffs = {1, 2}
  LastSecretExpired = {FALSE, TRUE}
  InitSessionIds = {0}
  MovementReseeds = FALSE
  MaxCopies = 1
  None = None
  MaxRng = 240
INVARIANTS
  SilentMembersLeave
  SessionInv
  LeaderSessionsDistinct
  SessionAgreement
CHECK_DEADLOCK FALSE
