\* Indices up to 4: with every board at its full occupancy of two
\* channels the layout has 4, so index 4 is out of range, and with one
\* channel per board any index above 1 is.
CONSTANTS
  NumBoards = 2
  MaxOcc = 2
  MaxChans = 2
  FeConn <- MCFeConn
  NoMux = NoMux
  MaxIndex = 4
INIT Init
NEXT Next
INVARIANT EveryChannelBound
