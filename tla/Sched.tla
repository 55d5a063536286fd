------------------------------- MODULE Sched --------------------------------
(***************************************************************************)
(* The measurement scheduler, sched/src/lib.rs: a process-wide table MSMS  *)
(* of measurements that is filled from a schedule file, hands out a        *)
(* measurement whose dependencies are finished, and is told when one is    *)
(* over.  The main loop in flashflow.c is its only caller.                 *)
(*                                                                         *)
(* A schedule file is a function from the measurement ids it lists to the  *)
(* sequence of ids written in the "depends" column.  Ids are positive; 0   *)
(* is "no measurement".  The table is never cleared: loading a file again  *)
(* overwrites the entries it lists and leaves the others.                  *)
(***************************************************************************)
EXTENDS Naturals, Sequences, FiniteSets, Functions

CONSTANTS
  Msms,       \* the measurement ids that occur in some schedule file
  Schedules   \* the contents the schedule file may have when it is read

ASSUME SchedAssumption ==
  /\ Msms \subseteq Nat \ {0}
  /\ IsFiniteSet(Msms)
  /\ \A file \in Schedules :
       /\ DOMAIN file \subseteq Msms
       /\ \A m \in DOMAIN file : file[m] \in Seq(Nat)

VARIABLES
  loaded,            \* ids listed by the file the last sched_new() read
  depends,           \* Measurement.depends
  msm_state,         \* Measurement.state, "Absent" when MSMS has no entry
  finished_depends,  \* length of Measurement.finished_depends
  overdue            \* running measurements whose failsafe_stop has passed

sched_vars == <<loaded, depends, msm_state, finished_depends, overdue>>

State == {"Absent", "Waiting", "InProgress", "Complete"}

SchedTypeOK ==
  /\ loaded \subseteq Msms
  /\ depends \in [Msms -> Seq(Nat)]
  /\ msm_state \in [Msms -> State]
  /\ finished_depends \in [Msms -> Nat]
  /\ overdue \subseteq {m \in Msms : msm_state[m] = "InProgress"}

\* MSMS is empty when the process starts.
SchedInit ==
  /\ loaded = {}
  /\ depends = [m \in Msms |-> <<>>]
  /\ msm_state = [m \in Msms |-> "Absent"]
  /\ finished_depends = [m \in Msms |-> 0]
  /\ overdue = {}

-----------------------------------------------------------------------------

\* What the parser and sched_new() panic on: a measurement that names itself,
\* a dependency that is not in the file, a file in which nothing can start.
NoSelfDepend(file) == \A m \in DOMAIN file : m \notin Range(file[m])

\* (Mutant: the dependencies are not looked up.)
AnyDepends(file) == TRUE
DependsListed(file) == \A m \in DOMAIN file : Range(file[m]) \subseteq DOMAIN file

SomethingStarts(file) == \E m \in DOMAIN file : Len(file[m]) = 0

Accepts(file) == NoSelfDepend(file) /\ DependsListed(file) /\ SomethingStarts(file)

\* f with the value v at every entry the file lists.
Inserted(f, file, v) == [m \in Msms |-> IF m \in DOMAIN file THEN v[m] ELSE f[m]]
All(v) == [m \in Msms |-> v]

\* (Mutant: an entry that is overwritten keeps its finished dependencies.)
NewKeepsFinished(file) ==
  /\ loaded' = DOMAIN file
  /\ depends' = Inserted(depends, file, file)
  /\ msm_state' = Inserted(msm_state, file, All("Waiting"))
  /\ overdue' = overdue \ DOMAIN file
  /\ UNCHANGED finished_depends

\* sched_new(): every entry of the file is (re)inserted as Waiting.
sched_new(file) ==
  /\ loaded' = DOMAIN file
  /\ depends' = Inserted(depends, file, file)
  /\ msm_state' = Inserted(msm_state, file, All("Waiting"))
  /\ finished_depends' = Inserted(finished_depends, file, All(0))
  /\ overdue' = overdue \ DOMAIN file

\* (Mutant: nothing is under way.)
NothingInProgress == \A m \in Msms : msm_state[m] # "InProgress"

\* sched_finished(): no entry of the table is left incomplete.
sched_finished == \A m \in Msms : msm_state[m] \in {"Absent", "Complete"}

\* (Mutant: one finished dependency is enough.)
ReadyAfterOne(m) ==
  /\ msm_state[m] = "Waiting"
  /\ Len(depends[m]) = 0 \/ finished_depends[m] > 0

\* The test of sched_next_internal(): it compares two lengths, not two sets.
Ready(m) ==
  /\ msm_state[m] = "Waiting"
  /\ Len(depends[m]) = finished_depends[m]

\* sched_next(): hands out any ready measurement (the hash map's order is
\* random) and arms its failsafe.
sched_next(m) ==
  /\ Ready(m)
  /\ msm_state' = [msm_state EXCEPT ![m] = "InProgress"]
  /\ overdue' = overdue \ {m}
  /\ UNCHANGED <<loaded, depends, finished_depends>>

\* (Mutant: only the first dependency of the list counts.)
FirstDependents(m) == {d \in Msms : depends[d] # <<>> /\ Head(depends[d]) = m}

Dependents(m) == {d \in Msms : m \in Range(depends[d])}

\* (Mutant: a measurement that is over waits to be tried again.)
MarkWaiting(m) ==
  /\ msm_state' = [msm_state EXCEPT ![m] = "Waiting"]
  /\ UNCHANGED <<loaded, depends, finished_depends, overdue>>

\* (Mutant: only the dependents learn that a measurement is over.)
MarkDependents(m) ==
  /\ finished_depends' =
       [d \in Msms |-> finished_depends[d] + (IF d \in Dependents(m) THEN 1 ELSE 0)]
  /\ overdue' = overdue \ {m}
  /\ UNCHANGED <<loaded, depends, msm_state>>

\* sched_mark_done(): the caller's assertion is that m is InProgress.  A list
\* that names m twice still gets one finished dependency for it.
sched_mark_done(m) ==
  /\ msm_state' = [msm_state EXCEPT ![m] = "Complete"]
  /\ finished_depends' =
       [d \in Msms |-> finished_depends[d] + (IF d \in Dependents(m) THEN 1 ELSE 0)]
  /\ overdue' = overdue \ {m}
  /\ UNCHANGED <<loaded, depends>>

\* sched_reset_failsafe_stop(): the deadline moves into the future again.
sched_reset_failsafe_stop(m) ==
  /\ overdue' = overdue \ {m}
  /\ UNCHANGED <<loaded, depends, msm_state, finished_depends>>

\* The wall clock passes the failsafe_stop of a running measurement.
Expire(m) ==
  /\ msm_state[m] = "InProgress"
  /\ m \notin overdue
  /\ overdue' = overdue \cup {m}
  /\ UNCHANGED <<loaded, depends, msm_state, finished_depends>>
=============================================================================
