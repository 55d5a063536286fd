------------------------- MODULE SchedCallerProofs --------------------------
(***************************************************************************)
(* The caller of SchedCaller keeps the contract, so that what is proved of *)
(* the scheduler under it holds of SchedCaller.                            *)
(***************************************************************************)
EXTENDS SchedCaller, SchedProofs

\* The variables of the scheduler keep their types, and only a measurement
\* under way can be overdue.
THEOREM TypeCorrect == Spec => []TypeOK
<1>1. Init => TypeOK
  BY SchedInitType, MaxLoadsAssumption DEF Init, TypeOK
<1>2. TypeOK /\ [Next]_vars => TypeOK'
  <2> SUFFICES ASSUME TypeOK, [Next]_vars PROVE TypeOK'
    OBVIOUS
  <2> USE DEF TypeOK
  <2>1. ASSUME NEW file \in Schedules, Load(file) PROVE TypeOK'
    BY <2>1, SchedulesOK, SchedNewType, MaxLoadsAssumption DEF Load
  <2>2. ASSUME NEW m \in Msms, HandOut(m) PROVE TypeOK'
    BY <2>2, SchedNextType DEF HandOut
  <2>3. ASSUME NEW m \in Msms, MarkDone(m) PROVE TypeOK'
    BY <2>3, MarkDoneType DEF MarkDone
  <2>4. ASSUME NEW m \in Msms, Start(m) PROVE TypeOK'
    BY <2>4, ResetFailsafeType DEF Start
  <2>5. ASSUME NEW m \in Msms, TimePasses(m) PROVE TypeOK'
    BY <2>5, ExpireType DEF TimePasses
  <2>6. ASSUME UNCHANGED vars PROVE TypeOK'
    BY <2>6 DEF vars, sched_vars, SchedTypeOK
  <2> QED
    BY <2>1, <2>2, <2>3, <2>4, <2>5, <2>6 DEF Next
<1> QED
  BY <1>1, <1>2, PTL DEF Spec

-----------------------------------------------------------------------------

\* The caller keeps the contract.
LEMMA CallerKeepsContract == Spec => SchedInit /\ KeepsContract
<1>1. [Next]_vars => [Call]_sched_vars
  BY DEF Next, Load, HandOut, MarkDone, Start, TimePasses, Call, vars
<1> QED
  BY <1>1, PTL DEF Spec, Init, KeepsContract

\* The counter of finished dependencies is exact, in every round.
THEOREM CounterExact == Spec => []FinishedExact
BY CallerKeepsContract, SchedInvariant, PTL DEF SchedInv

\* Nothing of an earlier file is ever waiting or under way.
THEOREM NothingStaleRuns == Spec => []OnlyLoadedRuns
BY CallerKeepsContract, SchedInvariant, PTL DEF SchedInv

\* No measurement is handed out before all of its dependencies are complete.
THEOREM DependenciesBefore == Spec => DependsRespected
BY CallerKeepsContract, DependenciesFirst, PTL

\* The scheduler is stuck only on a file that cannot be satisfied.
THEOREM NeverStuckNeedlessly == Spec => []StuckOnlyIfUnsatisfiable
BY CallerKeepsContract, StuckMeansUnsatisfiable, PTL

\* In a round, no measurement is handed out a second time.
THEOREM OnceInARound == Spec => HandedOutOnce
<1>1. TypeOK /\ [Next]_vars =>
        [loads' = loads =>
           \A m \in Msms : Rank[msm_state[m]] <= Rank[msm_state'[m]]]_vars
  <2> SUFFICES ASSUME TypeOK, Next, loads' = loads, NEW m \in Msms
               PROVE  Rank[msm_state[m]] <= Rank[msm_state'[m]]
    OBVIOUS
  <2>1. msm_state \in [Msms -> State] /\ loads \in Nat
    BY MaxLoadsAssumption DEF TypeOK, SchedTypeOK
  <2>2. ASSUME NEW file \in Schedules, Load(file) PROVE FALSE
    BY <2>1, <2>2 DEF Load
  <2>3. ASSUME NEW n \in Msms, HandOut(n)
        PROVE  Rank[msm_state[m]] <= Rank[msm_state'[m]]
    BY <2>1, <2>3 DEF HandOut, sched_next, Ready, Rank, State
  <2>4. ASSUME NEW n \in Msms, MarkDone(n)
        PROVE  Rank[msm_state[m]] <= Rank[msm_state'[m]]
    BY <2>1, <2>4 DEF MarkDone, sched_mark_done, Rank, State
  <2>5. ASSUME NEW n \in Msms, Start(n) \/ TimePasses(n)
        PROVE  Rank[msm_state[m]] <= Rank[msm_state'[m]]
    BY <2>1, <2>5 DEF Start, sched_reset_failsafe_stop, TimePasses, Expire,
                      Rank, State
  <2> QED
    BY <2>2, <2>3, <2>4, <2>5 DEF Next
<1> QED
  BY <1>1, TypeCorrect, PTL DEF Spec, HandedOutOnce
=============================================================================
