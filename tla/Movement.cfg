SPECIFICATION FairSpec
CONSTANTS
  Node = {0, 1}
  NODE_COVERAGE_AREA = 300
  PERIOD_INTERVAL = 5
  Configs <- MCConfigs
  StartTimes = {0, 7}
  Draws <- MCDraws
  Dice <- MCDice
  Uninitialised <- MCUninitialised
INVARIANTS
  TypeOK
  GroupsApart
  OneSectorInRange
  InGrid
PROPERTIES
  Converging
  Merges
CHECK_DEADLOCK FALSE
