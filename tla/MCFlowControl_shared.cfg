\* Two threads sending through two streamers bound to the same channel,
\* which share fc_mons[abs+dsp].
CONSTANTS
  s1 = s1
  s2 = s2
  Senders <- MCSenders2
  SeqBits = 3
  SramBytes = 12
  FrameSize = 4
  UpsPerFifo = 1
  UpsPerFifoDen = 1
  UpsPerSec = 20
  MaxInflight = 2
  MaxSessions = 1
SPECIFICATION Spec
INVARIANT NoSramOverrun
