\* Two sessions on the channel: get_tx_stream clears the device and the
\* monitor while updates of the first session may still be on the wire.
\* The SRAM bound is broken here (see MCFlowControl_reopen.cfg); what is
\* checked is that the window still always reopens.
CONSTANTS
  s1 = s1
  s2 = s2
  Senders <- MCSenders1
  SeqBits = 3
  SramBytes = 12
  FrameSize = 4
  UpsPerFifo = 1
  UpsPerFifoDen = 1
  UpsPerSec = 20
  MaxInflight = 2
  MaxSessions = 2
SPECIFICATION Spec
PROPERTY WindowReopens
