CONSTANTS
  Msms <- MCMsms
  Schedules = {}
  TextFiles <- MCTextFiles
  JsonFiles <- MCJsonFiles
  Conns = 7
  BgBw = 10
SPECIFICATION Spec
INVARIANTS SoundJsonAccepted SetsInOrder
PROPERTIES MadeScheduleFinishes
CHECK_DEADLOCK FALSE
