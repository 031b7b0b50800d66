\* Reports may arrive before the application has called update_tick_rate
\* (in this tree nothing subscribes update_tick_rate to the tick_rate
\* property at all).
CONSTANTS
  r1 = r1
  NoRate = NoRate
  TickRates <- MCTickRates
  NumBoards = 1
  Capacity = 2
  MaxFrames = 1
SPECIFICATION Spec
INVARIANT TimedReportsHaveTickRate
CHECK_DEADLOCK FALSE
