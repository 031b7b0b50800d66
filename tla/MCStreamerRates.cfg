\* One board (two RX and two TX DSP slots), three streamer objects so that
\* a slot can be rebound while its old streamer is still held and a third
\* made after one expires, two values for every tree node.
CONSTANTS
  s1 = s1
  s2 = s2
  s3 = s3
  ra = ra
  rb = rb
  ta = ta
  tb = tb
  Null = Null
  NoRate = NoRate
  NumBoards = 1
  Streamers <- MCStreamers
  Rates <- MCRates
  Ticks <- MCTicks
SYMMETRY MCSymmetry
SPECIFICATION Spec
INVARIANT TypeOK BoundStreamersFresh
PROPERTY OnlyBoundStreamersUpdated
