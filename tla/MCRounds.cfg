CONSTANTS
  Msms <- MCRoundsMsms
  Schedules <- MCRoundsSchedules
  NumMetas = 2
  Class <- MCRoundsClass
  BgClasses = {"bg"}
  Hosts <- MCRoundsHosts
  Dur <- MCRoundsDur
  MaxLoops = 1
SPECIFICATION Spec
INVARIANTS NeverAborts SlotsToldOnce Tally
PROPERTIES KeepsContract ImplementsCampaign
