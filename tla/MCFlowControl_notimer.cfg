\* ups_per_sec = 0 turns the periodic update off; count updates every 3
\* packets remain, and the link may lose one of them.
CONSTANTS
  s1 = s1
  s2 = s2
  Senders <- MCSenders1
  SeqBits = 3
  SramBytes = 12
  FrameSize = 4
  UpsPerFifo = 1
  UpsPerFifoDen = 1
  UpsPerSec = 0
  MaxInflight = 2
  MaxSessions = 1
SPECIFICATION Spec
PROPERTY WindowReopens
