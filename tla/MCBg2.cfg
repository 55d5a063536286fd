CONSTANTS
  Msms <- MCBg2Msms
  Schedules <- MCBg2Schedules
  NumMetas = 1
  Class <- MCBg2Class
  BgClasses = {"bg", "bg2"}
  Hosts <- MCBg2Hosts
  Dur <- MCBg2Dur
  MaxLoops = 1
SPECIFICATION Spec
INVARIANTS BackgroundHasOneConn
