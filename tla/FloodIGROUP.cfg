SPECIFICATION Spec
CONSTANTS
  Node = {0, 1, 2, 3}
  NODE_COVERAGE_AREA = 300
  LEADER_LAST_TIME = 20
  Sources = {0, 3}
  Gaps = {5, 25}
  Layouts <- MCLayouts
  Times <- MCTimes
  Numbers = {1, 2}
  None = None
INVARIANTS
  TypeOK
  RelaysOnce
  EverybodyRelays
  ChainsAreServed
PROPERTIES
  IsBroadcast
CHECK_DEADLOCK FALSE
