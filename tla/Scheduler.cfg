SPECIFICATION Spec
CONSTANTS
  MaxSchedulerEvent = 3
  Times = {0, 1, 2}
  MaxEvents = 5
INVARIANTS
  TypeOK
  NoTimeTravel
  HighWater
PROPERTIES
  IsEventQueue
  RunReturns
CHECK_DEADLOCK FALSE
