\* Two boards.  Each board returns one of four compatibility registers,
\* an MTU of 1 or 2 or not_implemented, and has no, a detected or a silent
\* GPSDO.  Register access at the 7-bit boundary (127, 128) with data 0
\* and 255.  A constructor that threw and a destroyed device really stop.
CONSTANTS
  NumBoards = 2
  Addrs = {1, 127, 128}
  Data = {0, 255}
  FpgaCompat = 2
  Images <- MCImages
  Mtus = {1, 2}
  UserMtu = 3
  NotImpl = NotImpl
SPECIFICATION Spec
INVARIANT TypeOK
INVARIANT OpensOnlyCompatible
INVARIANT FrameSizeFitsEveryDevice
PROPERTY WriteNCheckEchoes
CHECK_DEADLOCK FALSE
