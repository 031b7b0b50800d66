\* Two sessions: an update of the first session still on the wire when
\* get_tx_stream clears the device and the monitor.
CONSTANTS
  s1 = s1
  s2 = s2
  Senders <- MCSenders1
  SeqBits = 3
  SramBytes = 12
  FrameSize = 4
  UpsPerFifo = 1
  UpsPerFifoDen = 1
  UpsPerSec = 20
  MaxInflight = 2
  MaxSessions = 2
SPECIFICATION Spec
INVARIANT NoSramOverrun
