CONSTANTS
  c1 = c1
  c2 = c2
  Fps <- MCFps
  HexFps <- MCHexFps
  Clients <- MCClients
  Seconds <- MCSeconds
  Bws <- MCBws
  Window = 4
  SecsRequired = 3
  MinBw = 7
  MaxLines = 4
SYMMETRY MCSymmetry
SPECIFICATION Spec
INVARIANTS TypeOK WindowExact OutputIsMedian
