---------------------------- MODULE SchedProofs -----------------------------
(***************************************************************************)
(* The scheduler is right for every set of measurements, every set of      *)
(* schedule files and every order of calls that keeps to the contract.     *)
(***************************************************************************)
EXTENDS SchedProperties, FiniteSetTheorems, TLAPS

\* An interval from 1 has as many members as its upper end says.
LEMMA SegmentSize ==
  ASSUME NEW n \in Nat
  PROVE  IsFiniteSet(1 .. n) /\ Cardinality(1 .. n) = n
<1>1. /\ IsFiniteSet(1 .. n)
      /\ Cardinality(1 .. n) = IF 1 > n THEN 0 ELSE n - 1 + 1
  BY FS_Interval
<1> QED
  BY <1>1

\* A list has at least as many places as members.
LEMMA RangeCardinality ==
  ASSUME NEW s \in Seq(Nat)
  PROVE  /\ IsFiniteSet(Range(s))
         /\ Cardinality(Range(s)) \in Nat
         /\ Cardinality(Range(s)) <= Len(s)
<1>1. s \in Surjection(1 .. Len(s), Range(s))
  BY DEF Range, Surjection
<1>2. IsFiniteSet(1 .. Len(s)) /\ Cardinality(1 .. Len(s)) = Len(s)
  BY SegmentSize
<1>3. IsFiniteSet(Range(s)) /\ Cardinality(Range(s)) <= Len(s)
  BY <1>1, <1>2, FS_Surjection
<1> QED
  BY <1>3, FS_CardinalityType

-----------------------------------------------------------------------------
(* The types of the scheduler's variables.                                 *)

\* The empty table is well typed.
LEMMA SchedInitType ==
  SchedInit => SchedTypeOK
BY DEF SchedInit, SchedTypeOK, State

\* What a schedule file is; those of the constant are.
FileOK(file) == DOMAIN file \subseteq Msms /\ \A m \in DOMAIN file : file[m] \in Seq(Nat)

LEMMA SchedulesOK == \A file \in Schedules : FileOK(file)
BY SchedAssumption DEF FileOK

\* Loading a file writes entries for measurements of the file only.
LEMMA SchedNewType ==
  ASSUME SchedTypeOK, NEW file, FileOK(file), sched_new(file)
  PROVE  SchedTypeOK'
<1> USE DEF SchedTypeOK, FileOK
<1>1. depends' \in [Msms -> Seq(Nat)]
  BY DEF sched_new, Inserted
<1>2. msm_state' \in [Msms -> State]
  BY DEF sched_new, Inserted, All, State
<1>3. finished_depends' \in [Msms -> Nat]
  BY DEF sched_new, Inserted, All
<1>4. loaded' \subseteq Msms
  BY DEF sched_new
<1>5. overdue' \subseteq {m \in Msms : msm_state'[m] = "InProgress"}
  BY DEF sched_new, Inserted, All
<1> QED
  BY <1>1, <1>2, <1>3, <1>4, <1>5

\* Handing out a measurement keeps the types.
LEMMA SchedNextType ==
  ASSUME SchedTypeOK, NEW m \in Msms, sched_next(m)
  PROVE  SchedTypeOK'
BY DEF SchedTypeOK, sched_next, Ready, State

\* Reporting one done keeps the types.
LEMMA MarkDoneType ==
  ASSUME SchedTypeOK, NEW m \in Msms, sched_mark_done(m)
  PROVE  SchedTypeOK'
BY DEF SchedTypeOK, sched_mark_done, State

\* So does moving its deadline into the future,
LEMMA ResetFailsafeType ==
  ASSUME SchedTypeOK, NEW m \in Msms, sched_reset_failsafe_stop(m)
  PROVE  SchedTypeOK'
BY DEF SchedTypeOK, sched_reset_failsafe_stop

\* and the clock passing it, since only a running one can become overdue.
LEMMA ExpireType ==
  ASSUME SchedTypeOK, NEW m \in Msms, Expire(m)
  PROVE  SchedTypeOK'
BY DEF SchedTypeOK, Expire

-----------------------------------------------------------------------------

\* What makes the counter exact: dependencies stay within the file that was
\* loaded last, nothing outside of it is alive, and the counter is the number
\* of dependencies that are complete.
DependsLoaded == \A m \in loaded : Range(depends[m]) \subseteq loaded
LoadedPresent == \A m \in loaded : msm_state[m] # "Absent"

SchedInv == SchedTypeOK /\ DependsLoaded /\ LoadedPresent /\ OnlyLoadedRuns /\ FinishedExact

\* The dependencies of a measurement are finitely many, the complete ones too.
LEMMA DependsDoneFinite ==
  ASSUME SchedTypeOK, NEW m \in Msms
  PROVE  /\ IsFiniteSet(DependsDone(m))
         /\ Cardinality(DependsDone(m)) \in Nat
<1>1. depends[m] \in Seq(Nat)
  BY DEF SchedTypeOK
<1>2. IsFiniteSet(Range(depends[m]))
  BY <1>1, RangeCardinality
<1>3. DependsDone(m) \in SUBSET Range(depends[m])
  BY DEF DependsDone
<1>4. IsFiniteSet(DependsDone(m))
  BY <1>2, <1>3, FS_Subset
<1> QED
  BY <1>4, FS_CardinalityType

\* A new file starts from nothing: no dependency is complete.
LEMMA LoadInv ==
  ASSUME SchedInv, SchedTypeOK', NEW file, FileOK(file),
         sched_finished, Accepts(file), sched_new(file)
  PROVE  SchedInv'
<1>1. /\ DOMAIN file \subseteq Msms
      /\ loaded' = DOMAIN file
      /\ \A m \in DOMAIN file :
           /\ depends'[m] = file[m]
           /\ msm_state'[m] = "Waiting"
           /\ finished_depends'[m] = 0
      /\ \A m \in Msms \ DOMAIN file : msm_state'[m] = msm_state[m]
  BY DEF sched_new, Inserted, All, FileOK
<1>2. \A m \in DOMAIN file : Range(file[m]) \subseteq DOMAIN file
  BY DEF Accepts, DependsListed
<1>3. DependsLoaded' /\ LoadedPresent'
  BY <1>1, <1>2 DEF DependsLoaded, LoadedPresent
<1>4. OnlyLoadedRuns'
  BY <1>1 DEF sched_finished, OnlyLoadedRuns
<1>5. FinishedExact'
  <2> SUFFICES ASSUME NEW m \in DOMAIN file
               PROVE  finished_depends'[m] = Cardinality(DependsDone(m)')
    BY <1>1 DEF FinishedExact
  <2>1. DependsDone(m)' = {}
    BY <1>1, <1>2 DEF DependsDone
  <2> QED
    BY <1>1, <2>1, FS_EmptySet
<1> QED
  BY <1>3, <1>4, <1>5 DEF SchedInv

\* Handing out a measurement completes none.
LEMMA HandOutInv ==
  ASSUME SchedInv, SchedTypeOK', NEW m \in Msms, sched_next(m)
  PROVE  SchedInv'
<1>1. /\ msm_state[m] = "Waiting"
      /\ msm_state' = [msm_state EXCEPT ![m] = "InProgress"]
      /\ loaded' = loaded /\ depends' = depends
      /\ finished_depends' = finished_depends
  BY DEF sched_next, Ready
<1>2. m \in loaded
  BY <1>1 DEF SchedInv, OnlyLoadedRuns
<1>3. DependsLoaded' /\ LoadedPresent' /\ OnlyLoadedRuns'
  BY <1>1, <1>2 DEF SchedInv, SchedTypeOK, DependsLoaded, LoadedPresent,
                    OnlyLoadedRuns
<1>4. FinishedExact'
  <2> SUFFICES ASSUME NEW d \in loaded
               PROVE  finished_depends'[d] = Cardinality(DependsDone(d)')
    BY <1>1 DEF FinishedExact
  <2>1. \A e \in Range(depends[d]) :
          e \in Msms /\ (msm_state'[e] = "Complete" <=> msm_state[e] = "Complete")
    BY <1>1 DEF SchedInv, SchedTypeOK, DependsLoaded
  <2>2. DependsDone(d)' = DependsDone(d)
    BY <1>1, <2>1 DEF DependsDone
  <2> QED
    BY <1>1, <2>2 DEF SchedInv, FinishedExact
<1> QED
  BY <1>3, <1>4 DEF SchedInv

\* A measurement that ends becomes one more complete dependency of those, and
\* only those, that list it.
LEMMA MarkDoneInv ==
  ASSUME SchedInv, SchedTypeOK', NEW m \in Msms, msm_state[m] = "InProgress",
         sched_mark_done(m)
  PROVE  SchedInv'
<1>1. /\ msm_state[m] = "InProgress"
      /\ msm_state' = [msm_state EXCEPT ![m] = "Complete"]
      /\ loaded' = loaded /\ depends' = depends
      /\ \A d \in Msms : finished_depends'[d] =
           finished_depends[d] + (IF m \in Range(depends[d]) THEN 1 ELSE 0)
  BY DEF sched_mark_done, Dependents
<1>2. DependsLoaded' /\ LoadedPresent' /\ OnlyLoadedRuns'
  BY <1>1 DEF SchedInv, SchedTypeOK, DependsLoaded, LoadedPresent,
              OnlyLoadedRuns
<1>3. FinishedExact'
  <2> SUFFICES ASSUME NEW d \in loaded
               PROVE  finished_depends'[d] = Cardinality(DependsDone(d)')
    BY <1>1 DEF FinishedExact
  <2>1. d \in Msms /\ finished_depends[d] = Cardinality(DependsDone(d))
    BY DEF SchedInv, SchedTypeOK, FinishedExact
  <2>2. IsFiniteSet(DependsDone(d)) /\ Cardinality(DependsDone(d)) \in Nat
    BY <2>1, DependsDoneFinite DEF SchedInv
  <2>3. \A e \in Range(depends[d]) :
          msm_state'[e] = "Complete" <=> e = m \/ msm_state[e] = "Complete"
    BY <1>1, <2>1 DEF SchedInv, SchedTypeOK, DependsLoaded
  <2>4. CASE m \in Range(depends[d])
    <3>1. DependsDone(d)' = DependsDone(d) \cup {m} /\ m \notin DependsDone(d)
      BY <1>1, <2>3, <2>4 DEF DependsDone
    <3>2. Cardinality(DependsDone(d)') = Cardinality(DependsDone(d)) + 1
      BY <2>2, <3>1, FS_AddElement
    <3> QED
      BY <1>1, <2>1, <2>4, <3>2
  <2>5. CASE m \notin Range(depends[d])
    <3>1. DependsDone(d)' = DependsDone(d)
      BY <1>1, <2>3, <2>5 DEF DependsDone
    <3> QED
      BY <1>1, <2>1, <2>2, <2>5, <3>1
  <2> QED
    BY <2>4, <2>5
<1> QED
  BY <1>2, <1>3 DEF SchedInv

\* Every call keeps the invariant.
LEMMA CallInv == SchedInv /\ [Call]_sched_vars => SchedInv'
<1> SUFFICES ASSUME SchedInv, [Call]_sched_vars PROVE SchedInv'
  OBVIOUS
<1>1. SchedTypeOK
  BY DEF SchedInv
<1>2. ASSUME NEW file \in Schedules, sched_finished, Accepts(file), sched_new(file)
      PROVE  SchedInv'
  BY <1>1, <1>2, SchedulesOK, SchedNewType, LoadInv
<1>3. ASSUME NEW m \in Msms, sched_next(m) PROVE SchedInv'
  BY <1>1, <1>3, SchedNextType, HandOutInv
<1>4. ASSUME NEW m \in Msms, msm_state[m] = "InProgress", sched_mark_done(m)
      PROVE  SchedInv'
  BY <1>1, <1>4, MarkDoneType, MarkDoneInv
<1>5. ASSUME NEW m \in Msms, Expire(m) \/ sched_reset_failsafe_stop(m)
      PROVE  SchedInv'
  <2>1. SchedTypeOK'
    BY <1>1, <1>5, ExpireType, ResetFailsafeType
  <2> QED
    BY <1>5, <2>1 DEF sched_reset_failsafe_stop, Expire, SchedInv, DependsLoaded,
                      LoadedPresent, OnlyLoadedRuns, FinishedExact, DependsDone
<1>6. CASE UNCHANGED sched_vars
  BY <1>6 DEF sched_vars, SchedInv, SchedTypeOK, DependsLoaded, LoadedPresent,
              OnlyLoadedRuns, FinishedExact, DependsDone
<1> QED
  BY <1>2, <1>3, <1>4, <1>5, <1>6 DEF Call

\* The inductive invariant, for every caller that keeps the contract.
THEOREM SchedInvariant == SchedInit /\ KeepsContract => []SchedInv
<1>1. SchedInit => SchedInv
  BY SchedInitType DEF SchedInit, SchedInv, DependsLoaded, LoadedPresent,
                       OnlyLoadedRuns, FinishedExact
<1> QED
  BY <1>1, CallInv, PTL DEF KeepsContract

-----------------------------------------------------------------------------

\* If the counter has reached the length of the list, all of it is complete:
\* comparing the two lengths is enough.
LEMMA ReadyMeansDone ==
  ASSUME SchedInv, NEW m \in Msms, Ready(m)
  PROVE  \A d \in Range(depends[m]) : msm_state[d] = "Complete"
<1>1. depends[m] \in Seq(Nat)
  BY DEF SchedInv, SchedTypeOK
<1>2. Len(depends[m]) = Cardinality(DependsDone(m))
  BY DEF SchedInv, Ready, OnlyLoadedRuns, FinishedExact
<1>3. /\ IsFiniteSet(Range(depends[m]))
      /\ Cardinality(Range(depends[m])) \in Nat
      /\ Cardinality(Range(depends[m])) <= Len(depends[m])
  BY <1>1, RangeCardinality
<1>4. DependsDone(m) \in SUBSET Range(depends[m])
  BY DEF DependsDone
<1>5. Cardinality(DependsDone(m)) <= Cardinality(Range(depends[m]))
  BY <1>3, <1>4, FS_Subset
<1>6. Cardinality(DependsDone(m)) \in Nat
  BY DependsDoneFinite DEF SchedInv
<1>7. Cardinality(Range(depends[m])) = Cardinality(DependsDone(m))
  BY <1>2, <1>3, <1>5, <1>6
<1>8. Range(depends[m]) = DependsDone(m)
  BY <1>3, <1>4, <1>7, FS_Subset
<1> QED
  BY <1>8 DEF DependsDone

\* No measurement is handed out before all of its dependencies are complete.
THEOREM DependenciesFirst == SchedInit /\ KeepsContract => DependsRespected
<1>1. SchedInv /\ [Call]_sched_vars =>
        [\A m \in Msms :
           msm_state[m] = "Waiting" /\ msm_state'[m] = "InProgress" =>
             \A d \in Range(depends[m]) : msm_state[d] = "Complete"]_sched_vars
  <2> SUFFICES ASSUME SchedInv, Call, NEW m \in Msms,
                      msm_state[m] = "Waiting", msm_state'[m] = "InProgress"
               PROVE  \A d \in Range(depends[m]) : msm_state[d] = "Complete"
    OBVIOUS
  <2>1. msm_state \in [Msms -> State]
    BY DEF SchedInv, SchedTypeOK
  <2>2. ASSUME NEW file \in Schedules, sched_new(file) PROVE FALSE
    BY <2>2, <2>1 DEF sched_new, Inserted, All
  <2>3. ASSUME NEW n \in Msms, sched_next(n) PROVE Ready(m)
    BY <2>1, <2>3 DEF sched_next
  <2>4. ASSUME NEW n \in Msms,
               sched_mark_done(n) \/ sched_reset_failsafe_stop(n) \/ Expire(n)
        PROVE  FALSE
    BY <2>1, <2>4 DEF sched_mark_done, sched_reset_failsafe_stop, Expire
  <2>5. Ready(m)
    BY <2>2, <2>3, <2>4 DEF Call
  <2> QED
    BY <2>5, ReadyMeansDone
<1> QED
  BY <1>1, SchedInvariant, PTL DEF KeepsContract, DependsRespected

-----------------------------------------------------------------------------

\* The measurements that wait when nothing is ready and nothing is under way
\* each wait for another of them, or list a dependency twice.
LEMMA WaitingForEachOther ==
  ASSUME SchedInv, ~ sched_finished,
         \A m \in Msms : ~Ready(m) /\ msm_state[m] # "InProgress"
  PROVE  Unsatisfiable
<1> DEFINE S == {m \in loaded : msm_state[m] = "Waiting"}
<1>1. msm_state \in [Msms -> State] /\ loaded \subseteq Msms
  BY DEF SchedInv, SchedTypeOK
<1>2. S # {}
  BY <1>1 DEF SchedInv, OnlyLoadedRuns, sched_finished, State
<1>3. SUFFICES ASSUME \A m \in loaded :
                        Len(depends[m]) = Cardinality(Range(depends[m])),
                      NEW m \in S
               PROVE  Range(depends[m]) \cap S # {}
  BY <1>2 DEF Unsatisfiable
<1>4. Cardinality(DependsDone(m)) # Cardinality(Range(depends[m]))
  BY <1>1, <1>3 DEF SchedInv, FinishedExact, Ready
<1>5. PICK d \in Range(depends[m]) : msm_state[d] # "Complete"
  BY <1>4 DEF DependsDone
<1>6. d \in loaded
  BY DEF SchedInv, DependsLoaded
<1>7. msm_state[d] = "Waiting"
  BY <1>1, <1>5, <1>6 DEF SchedInv, LoadedPresent, State
<1> QED
  BY <1>6, <1>7

\* The scheduler is stuck only on a file that cannot be satisfied.
THEOREM StuckMeansUnsatisfiable ==
  SchedInit /\ KeepsContract => []StuckOnlyIfUnsatisfiable
<1>1. SchedInv => StuckOnlyIfUnsatisfiable
  BY WaitingForEachOther DEF StuckOnlyIfUnsatisfiable
<1> QED
  BY <1>1, SchedInvariant, PTL
=============================================================================
