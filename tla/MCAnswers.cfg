CONSTANTS
  Msms <- MCMsms
  Schedules <- MCSchedules
  NumMetas = 2
  Class <- MCRoundsClass
  BgClasses = {"bg"}
  Hosts <- MCLiveHosts
  Dur <- MCDur
  MaxLoops = 1
SPECIFICATION Spec
PROPERTIES OnlyGoodAnswers
