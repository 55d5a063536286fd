CONSTANTS
  Msms <- MCMsms
  Schedules <- MCSchedules
  MaxLoads = 2
SPECIFICATION Spec
INVARIANTS TypeOK FinishedExact OnlyLoadedRuns StuckOnlyIfUnsatisfiable
PROPERTIES DependsRespected HandedOutOnce SatisfiableFinishes
CHECK_DEADLOCK FALSE
