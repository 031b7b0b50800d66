\* Two boards of up to two channels each; requests of up to two channels
\* with indices up to 3, all inside the largest layout (4 channels).
CONSTANTS
  NumBoards = 2
  MaxOcc = 2
  MaxChans = 2
  FeConn <- MCFeConn
  NoMux = NoMux
  MaxIndex = 3
INIT Init
NEXT Next
INVARIANT TypeOK BindingMatchesLayout SubdevRouting
