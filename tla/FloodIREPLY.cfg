SPECIFICATION Spec
CONSTANTS
  Node = {0, 1, 2, 3}
  NODE_COVERAGE_AREA = 300
  IREPLY_EXPIRE_TIME = 20
  Replies <- MCReplies
  Gaps = {5, 25}
  Layouts <- MCLayouts
  Times <- MCTimes
  Numbers = {1, 2}
  None = None
INVARIANTS
  TypeOK
  RelaysOnce
  LeaderIsReached
PROPERTIES
  FloodEnds
CHECK_DEADLOCK FALSE
