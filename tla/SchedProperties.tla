-------------------------- MODULE SchedProperties ---------------------------
(***************************************************************************)
(* What must be true of the scheduler's table, whoever calls it.           *)
(***************************************************************************)
EXTENDS Sched

DependsDone(m) == {d \in Range(depends[m]) : msm_state[d] = "Complete"}

\* The number of finished dependencies, which is all sched_next() looks at, is
\* right for every measurement of the file, whatever the order in which they
\* end and whatever earlier rounds have left in the table.
FinishedExact ==
  \A m \in loaded : finished_depends[m] = Cardinality(DependsDone(m))

\* A measurement is never handed out while one it depends on is not complete.
DependsRespected ==
  [][\A m \in Msms :
       msm_state[m] = "Waiting" /\ msm_state'[m] = "InProgress" =>
         \A d \in Range(depends[m]) : msm_state[d] = "Complete"]_sched_vars

\* What is left from earlier files never comes back: only measurements of
\* the file that was loaded last can be waiting or under way.
OnlyLoadedRuns ==
  \A m \in Msms : msm_state[m] \in {"Waiting", "InProgress"} => m \in loaded

\* Some measurements of the file wait for one another, or one of them lists a
\* dependency twice: the two things the parser does not look for.
Unsatisfiable ==
  \/ \E S \in SUBSET loaded :
       S # {} /\ \A m \in S : Range(depends[m]) \cap S # {}
  \/ \E m \in loaded : Len(depends[m]) # Cardinality(Range(depends[m]))

\* The scheduler is stuck, with nothing to hand out, nothing under way and
\* something incomplete, only when the file cannot be satisfied.
StuckOnlyIfUnsatisfiable ==
  (\A m \in Msms : ~Ready(m) /\ msm_state[m] # "InProgress")
    => sched_finished \/ Unsatisfiable

-----------------------------------------------------------------------------

\* How the scheduler is called: a file is loaded only when every measurement of
\* the last one is complete, and only a measurement that has been handed out
\* and not been reported done is reported done, or started.
Call ==
  \/ \E file \in Schedules : sched_finished /\ Accepts(file) /\ sched_new(file)
  \/ \E m \in Msms : sched_next(m) \/ Expire(m)
  \/ \E m \in Msms : /\ msm_state[m] = "InProgress"
                     /\ sched_mark_done(m) \/ sched_reset_failsafe_stop(m)

\* Whoever calls the scheduler calls it in this way, on every path on which a
\* measurement may end; sched_mark_done() asserts its part of it.
KeepsContract == [][Call]_sched_vars
=============================================================================
