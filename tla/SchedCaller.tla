---------------------------- MODULE SchedCaller -----------------------------
(***************************************************************************)
(* The scheduler under any caller that keeps to the main loop's contract:  *)
(* a schedule is loaded only when the table is finished, and exactly the   *)
(* measurements that have been handed out are reported done, in any order. *)
(* It can be checked with every schedule file over a few measurements,     *)
(* which the whole coordinator cannot.                                     *)
(***************************************************************************)
EXTENDS SchedProperties

CONSTANT MaxLoads     \* bound on the number of schedule files read

ASSUME MaxLoadsAssumption == MaxLoads \in Nat

VARIABLE loads        \* schedule files read so far

vars == <<sched_vars, loads>>

TypeOK == SchedTypeOK /\ loads \in 0 .. MaxLoads

Init == SchedInit /\ loads = 0

\* A new round of main_loop_once().
Load(file) ==
  /\ loads < MaxLoads
  /\ sched_finished
  /\ Accepts(file)
  /\ sched_new(file)
  /\ loads' = loads + 1

HandOut(m) == sched_next(m) /\ UNCHANGED loads

MarkDone(m) ==
  /\ msm_state[m] = "InProgress"
  /\ sched_mark_done(m)
  /\ UNCHANGED loads

\* The measurement itself starts, once its clients are ready.
Start(m) ==
  /\ msm_state[m] = "InProgress"
  /\ sched_reset_failsafe_stop(m)
  /\ UNCHANGED loads

TimePasses(m) == Expire(m) /\ UNCHANGED loads

Next ==
  \/ \E file \in Schedules : Load(file)
  \/ \E m \in Msms : HandOut(m) \/ MarkDone(m) \/ Start(m) \/ TimePasses(m)

\* The loop asks for a measurement in every pass, and every measurement ends.
Fairness ==
  /\ WF_vars(\E m \in Msms : HandOut(m))
  /\ \A m \in Msms : WF_vars(MarkDone(m))

Spec == Init /\ [][Next]_vars /\ Fairness

-----------------------------------------------------------------------------

\* Each measurement of a file is handed out at most once in a round: between
\* two loads a state only moves forward.
Rank == [Absent |-> 0, Waiting |-> 1, InProgress |-> 2, Complete |-> 3]
HandedOutOnce ==
  [][loads' = loads =>
       \A m \in Msms : Rank[msm_state[m]] <= Rank[msm_state'[m]]]_vars

\* A file that can be satisfied is worked through.
SatisfiableFinishes == ~Unsatisfiable ~> sched_finished
=============================================================================
