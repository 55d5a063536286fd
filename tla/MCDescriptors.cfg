CONSTANTS
  Msms <- MCMsms
  Schedules <- MCSchedules
  NumMetas = 2
  Class <- MCClass
  BgClasses = {"bg"}
  Hosts <- MCHosts
  Dur <- MCDur
  MaxLoops = 1
  MaxFds = 7
SPECIFICATION DescriptorsSpec
INVARIANTS DescriptorsTypeOK HandlesHeld EventsReachTheirClient WatchesTheListed LossesAccounted KnownFits
