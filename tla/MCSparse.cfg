CONSTANTS
  c1 = c1
  c2 = c2
  Fps <- MCFps
  HexFps <- MCHexFps
  Clients <- MCClients
  Seconds <- MCSeconds
  Bws <- MCBws
  Window = 5
  SecsRequired = 5
  MinBw = 7
  MaxLines = 3
SYMMETRY MCSymmetry
SPECIFICATION Spec
INVARIANTS LittleDataGetsMinBw
