\* One sender, one session, lossy update link, timed and count updates
\* on: the window keeps the SRAM from overrunning and a blocked sender is
\* always released.
CONSTANTS
  s1 = s1
  s2 = s2
  Senders <- MCSenders1
  SeqBits = 3
  SramBytes = 12
  FrameSize = 4
  UpsPerFifo = 1
  UpsPerFifoDen = 1
  UpsPerSec = 20
  MaxInflight = 2
  MaxSessions = 1
SPECIFICATION Spec
INVARIANT TypeOK
INVARIANT NoSramOverrun
PROPERTY WindowReopens
