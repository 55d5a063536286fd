CONSTANTS
  Msms <- MCMsms
  Schedules <- MCSchedules
  NumMetas = 3
  Class <- MCClass
  BgClasses = {"bg"}
  Hosts <- MCHosts
  Dur <- MCDur
  MaxLoops = 1
SPECIFICATION Spec
INVARIANTS TypeOK NeverAborts NoOrphanedClient KnownMatchesSched FullCrew LockStep EventsAreCurrent NobodyForgotten
PROPERTIES NoneSkipped
