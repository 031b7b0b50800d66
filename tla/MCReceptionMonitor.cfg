\* One board: two pirate loops.  Each transport gets up to two frames of
\* any kind, so up to four reports reach a fifo of two.  The run ends with
\* the io_impl destroyed, after which nothing is left to do.
CONSTANTS
  r1 = r1
  NoRate = NoRate
  TickRates <- MCTickRates
  NumBoards = 1
  Capacity = 2
  MaxFrames = 2
SPECIFICATION Spec
INVARIANT TypeOK
INVARIANT LostOnlyWhenFull
INVARIANT MonitorsOutliveRunningPirates
PROPERTY DestroyCompletes
CHECK_DEADLOCK FALSE
