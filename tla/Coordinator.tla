---------------------------- MODULE Coordinator -----------------------------
(***************************************************************************)
(* The coordinator's main loop, main_loop_once() of flashflow.c, with the  *)
(* scheduler (Sched) and the connections (TorClient) it drives.  The       *)
(* program is one thread; what happens around it - answers arriving,       *)
(* connections ending, the clock passing a failsafe - may happen between   *)
(* any two of its steps.                                                   *)
(*                                                                         *)
(* pc is the place in the loop.  A step of the model is one measurement's, *)
(* or one client's, turn in the loop at that place.  "aborted" is a failed *)
(* assertion and "panicked" a schedule file the scheduler refuses: both    *)
(* end the process.                                                        *)
(***************************************************************************)
EXTENDS Sched, TorClient

CONSTANTS
  Hosts,     \* for each measurement, the class and conns of each host it needs
  Dur,       \* for each measurement, its duration
  MaxLoops   \* MAX_LOOPS_WITHOUT_PROGRESS

ASSUME CoordinatorAssumption ==
  /\ DOMAIN Hosts = Msms
  /\ \A m \in Msms : Hosts[m] \in Seq(Range(Hosts[m]))
  /\ \A m \in Msms : \A k \in DOMAIN Hosts[m] :     \* checked by the parser
       Hosts[m][k].class = "bg" => Hosts[m][k].conns = 1
  /\ Dur \in [Msms -> Nat]
  /\ MaxLoops \in Nat

VARIABLES
  pc,
  i,                      \* index of the for loop the coordinator is in
  new_m_id,               \* measurement being given its clients, or 0
  known_m_ids,            \* the measurements under way, as an array
  loops_without_progress,
  events,                 \* clients epoll_wait() reported, not handled yet
  count_success,
  count_failure

loop_vars == <<i, new_m_id, known_m_ids, loops_without_progress, events,
               count_success, count_failure>>
vars == <<pc, loop_vars, sched_vars, tc_vars>>

Label == {"startup", "top", "watchdog", "failsafe", "start", "connect", "auth",
          "advance", "poll", "events", "finished", "aborted", "panicked"}

TypeOK ==
  /\ SchedTypeOK
  /\ TorClientTypeOK
  /\ \A c \in Metas : current_m_id[c] \in Msms \cup {0}
  /\ pc \in Label
  /\ i \in Nat
  /\ new_m_id \in Msms \cup {0}
  /\ known_m_ids \in Seq(Msms)
  /\ loops_without_progress \in 0 .. (MaxLoops + 1)
  /\ events \subseteq Metas
  /\ count_success \in Nat
  /\ count_failure \in Nat

Init ==
  /\ pc = "startup"
  /\ i = 1 /\ new_m_id = 0 /\ known_m_ids = <<>>
  /\ loops_without_progress = 0 /\ events = {}
  /\ count_success = 0 /\ count_failure = 0
  /\ SchedInit
  /\ TorClientInit

-----------------------------------------------------------------------------
(* Helpers of the loop.                                                    *)

\* Where the coordinator goes next, when the assertions on its way hold.
Goto(ok, label) == pc' = IF ok THEN label ELSE "aborted"

\* fill_msm_params() succeeds.
Fillable(m) == Dur[m] > 0 /\ Len(Hosts[m]) > 0

\* (Mutant: one client is enough.)
SomeIn(m, st) == \E c \in Crew(m) : state[c] = st

\* is_totally_authed() and its likes.
TotallyIn(m, st) == \A c \in Crew(m) : state[c] = st

\* The array without its k-th element, which the last one replaces.
SwapRemove(s, k) ==
  [j \in 1 .. (Len(s) - 1) |-> IF j = k THEN s[Len(s)] ELSE s[j]]

\* (Mutants: the last element goes, whichever failed; the array stays.)
WithoutLast(s, m) == IF m \in Range(s) THEN SubSeq(s, 1, Len(s) - 1) ELSE s
WithoutNone(s, m) == s

Without(s, m) ==
  IF m \in Range(s) THEN SwapRemove(s, CHOOSE k \in DOMAIN s : s[k] = m) ELSE s

\* (Mutant: a slot that is assigned is not passed over.)
FirstHost(m, c) ==
  LET slots == {k \in DOMAIN Hosts[m] : Hosts[m][k].class = Class[c]}
  IN IF slots = {} THEN 0 ELSE CHOOSE k \in slots : \A j \in slots : k <= j

\* Clients take host slots in the order of the client file, each the first
\* slot of its class that is left: client c gets the slot that comes as late
\* among the slots of its class as c does among the clients, and 0 is none.
HostFor(m, c) ==
  LET rank == {d \in Crew(m) : d < c /\ Class[d] = Class[c]}
      before(k) == {j \in 1 .. (k - 1) : Hosts[m][j].class = Class[c]}
      slots == {k \in DOMAIN Hosts[m] :
                  /\ Hosts[m][k].class = Class[c]
                  /\ Cardinality(before(k)) = Cardinality(rank)}
  IN IF slots = {} THEN 0 ELSE CHOOSE k \in slots : TRUE

Slots(m) == [c \in Metas |-> HostFor(m, c)]
Assigned(m) == {c \in Crew(m) : HostFor(m, c) # 0}
AllAssigned(m) == \A k \in DOMAIN Hosts[m] : \E c \in Crew(m) : HostFor(m, c) = k

\* The assertions on the way through measurement_failed(), when the states of the
\* clients are st.
FailureAssertsIn(m, st) ==
  /\ m \in Msms /\ msm_state[m] = "InProgress"
  /\ \A c \in Crew(m) : <<st[c], "failed">> \in GoodStateChanges

FailureAsserts(m) == FailureAssertsIn(m, state)

\* The states when a send to client c of S fails: those before c have been sent
\* theirs and have moved on to st, the others have not.
HalfSent(S, c, st) == Update(state, {d \in S : d < c}, st)

\* (Mutant: clients are released only for a measurement in the array.)
FailedKeepsUnknown(m) ==
  /\ tc_finished_with_meta(IF m \in Range(known_m_ids) THEN Crew(m) ELSE {})
  /\ sched_mark_done(m)
  /\ known_m_ids' = Without(known_m_ids, m)
  /\ count_failure' = count_failure + 1
  /\ UNCHANGED count_success

\* measurement_failed(): its clients are released, whatever their state, the
\* scheduler is told that it is over, and it leaves the array if it is there.
measurement_failed(m) ==
  /\ tc_finished_with_meta(Crew(m))
  /\ sched_mark_done(m)
  /\ known_m_ids' = Without(known_m_ids, m)
  /\ count_failure' = count_failure + 1
  /\ UNCHANGED count_success

\* The measurement the for loop is at.
Current == known_m_ids[i]
\* (Mutant: the loop stops before the last element.)
StopsEarly == i < Len(known_m_ids)
InLoop == i \in DOMAIN known_m_ids

-----------------------------------------------------------------------------
(* The start of a round, the loop's head, and the two ways to give up.     *)

\* main() runs main_loop_once() for ever: each round reads the client file
\* and the schedule file anew.
Startup(file) ==
  /\ pc \in {"startup", "finished"}
  /\ IF Accepts(file)
       THEN /\ pc' = "top"
            /\ tc_client_file_read
            /\ sched_new(file)
            /\ i' = 1 /\ new_m_id' = 0 /\ known_m_ids' = <<>>
            /\ loops_without_progress' = 0 /\ events' = {}
            /\ count_success' = 0 /\ count_failure' = 0
       ELSE pc' = "panicked" /\ UNCHANGED <<loop_vars, sched_vars, tc_vars>>

\* (Mutant: one loop too many.)
OneLoopLate == loops_without_progress > MaxLoops + 1
TooManyLoops == loops_without_progress > MaxLoops

EnterLoop ==
  /\ pc = "top"
  /\ ~sched_finished
  /\ pc' = IF TooManyLoops THEN "watchdog" ELSE "failsafe"
  /\ i' = 1
  /\ UNCHANGED <<new_m_id, known_m_ids, loops_without_progress, events,
                 count_success, count_failure, sched_vars, tc_vars>>

\* The results are closed and the v3bw file is generated.
Finish ==
  /\ pc = "top"
  /\ sched_finished
  /\ pc' = "finished"
  /\ UNCHANGED <<loop_vars, sched_vars, tc_vars>>

\* Too many loops without progress: every known measurement fails, from the
\* last one on.
WatchdogFails ==
  /\ pc = "watchdog"
  /\ known_m_ids # <<>>
  /\ LET m == known_m_ids[Len(known_m_ids)] IN
       /\ Goto(FailureAsserts(m), "watchdog")
       /\ measurement_failed(m)
  /\ UNCHANGED <<i, new_m_id, loops_without_progress, events, buf>>

WatchdogDone ==
  /\ pc = "watchdog"
  /\ known_m_ids = <<>>
  /\ loops_without_progress' = 0
  /\ pc' = "failsafe"
  /\ UNCHANGED <<i, new_m_id, known_m_ids, events, count_success,
                 count_failure, sched_vars, tc_vars>>

\* The measurement that replaces a failed one in the array is looked at next.
FailsafeFails ==
  /\ pc = "failsafe" /\ InLoop
  /\ Current \in overdue
  /\ Goto(Fillable(Current) /\ FailureAsserts(Current), "failsafe")
  /\ measurement_failed(Current)
  /\ UNCHANGED <<i, new_m_id, loops_without_progress, events, buf>>

FailsafePasses ==
  /\ pc = "failsafe" /\ InLoop
  /\ Current \notin overdue
  /\ Goto(Fillable(Current), "failsafe")
  /\ i' = i + 1
  /\ UNCHANGED <<new_m_id, known_m_ids, loops_without_progress, events,
                 count_success, count_failure, sched_vars, tc_vars>>

FailsafeDone ==
  /\ pc = "failsafe" /\ ~InLoop
  /\ pc' = "start"
  /\ UNCHANGED <<loop_vars, sched_vars, tc_vars>>

-----------------------------------------------------------------------------
(* At most one measurement starts in each loop.                            *)

StartNone ==
  /\ pc = "start"
  /\ ~ \E m \in Msms : Ready(m)
  /\ pc' = "advance"
  /\ i' = 1
  /\ UNCHANGED <<new_m_id, known_m_ids, loops_without_progress, events,
                 count_success, count_failure, sched_vars, tc_vars>>

StartNext(m) ==
  /\ pc = "start"
  /\ sched_next(m)
  /\ new_m_id' = m
  /\ pc' = "connect"
  /\ i' = 1
  /\ UNCHANGED <<known_m_ids, loops_without_progress, events, count_success,
                 count_failure, tc_vars>>

\* find_and_connect_metas() has a connected client for its i-th host.
Connect(c) ==
  /\ pc = "connect"
  /\ Fillable(new_m_id) /\ i \in DOMAIN Hosts[new_m_id]
  /\ LET class == Hosts[new_m_id][i].class IN
       /\ Goto(\A d \in Available(class) : d <= c => state[d] = "invalid", "connect")
       /\ tc_next_available(c, class, new_m_id)
  /\ i' = i + 1
  /\ UNCHANGED <<new_m_id, known_m_ids, loops_without_progress, events,
                 count_success, count_failure, sched_vars>>

\* The measurement has no parameters, or no client is free for its i-th host
\* or none of the free ones can be connected to: it fails before it is known.
ConnectFails ==
  /\ pc = "connect"
  /\ Fillable(new_m_id) => i \in DOMAIN Hosts[new_m_id]
  /\ Goto(FailureAsserts(new_m_id), "advance")
  /\ measurement_failed(new_m_id)
  /\ i' = 1 /\ new_m_id' = 0
  /\ UNCHANGED <<loops_without_progress, events, buf>>

ConnectDone ==
  /\ pc = "connect"
  /\ Fillable(new_m_id) /\ i > Len(Hosts[new_m_id])
  /\ known_m_ids' = Append(known_m_ids, new_m_id)
  /\ pc' = "auth"
  /\ UNCHANGED <<i, new_m_id, loops_without_progress, events, count_success,
                 count_failure, sched_vars, tc_vars>>

\* send_auth_metas(): every client of the new measurement is sent its password.
SendAuth ==
  /\ pc = "auth"
  /\ Goto(MayChange(Crew(new_m_id), "authing"), "advance")
  /\ tc_auth_socket(Crew(new_m_id))
  /\ i' = 1 /\ new_m_id' = 0
  /\ UNCHANGED <<known_m_ids, loops_without_progress, events, count_success,
                 count_failure, sched_vars>>

\* The measurement fails with a part of its crew.
SendAuthFails ==
  /\ pc = "auth"
  /\ \E c \in Crew(new_m_id) :
       Goto(/\ MayChange(Crew(new_m_id), "authing")
            /\ FailureAssertsIn(new_m_id, HalfSent(Crew(new_m_id), c, "authing")),
            "advance")
  /\ measurement_failed(new_m_id)
  /\ i' = 1 /\ new_m_id' = 0
  /\ UNCHANGED <<loops_without_progress, events, buf>>

-----------------------------------------------------------------------------
(* Each known measurement moves on when all of its clients have answered.  *)
(* When a send fails the measurement does, and the loop starts over.       *)

Advancing == pc = "advance" /\ InLoop

\* The turn of the measurement that the loop is at, which asserts that its
\* parameters are there, comes to its end.
Advanced(ok) == Goto(Fillable(Current) /\ ok, "advance")

\* The assertion of tc_tell_connect(): a background client has 1 connection.
ConnsAssert(S) ==
  \A c \in S : IsBg(c) => Hosts[Current][HostFor(Current, c)].conns = 1

\* The command that takes the clients of S to st fails to reach one of them.
SendFails(S, st) ==
  /\ \E c \in S :
       Goto(Fillable(Current) /\ FailureAssertsIn(Current, HalfSent(S, c, st)), "top")
  /\ measurement_failed(Current)
  /\ UNCHANGED <<i, new_m_id, loops_without_progress, events, buf>>

MovedOn ==
  /\ i' = i + 1
  /\ UNCHANGED <<new_m_id, known_m_ids, loops_without_progress, events,
                 count_success, count_failure, sched_vars>>

TellConnect ==
  /\ Advancing
  /\ TotallyIn(Current, "authed")
  /\ Advanced(/\ ConnsAssert(Assigned(Current))
              /\ MayChange(Assigned(Current), "told_connect_target")
              /\ AllAssigned(Current))
  /\ tc_tell_connect(Assigned(Current), Slots(Current))
  /\ MovedOn

TellConnectFails ==
  /\ Advancing
  /\ TotallyIn(Current, "authed")
  /\ SendFails({c \in Assigned(Current) :
                  ConnsAssert({d \in Assigned(Current) : d <= c})}, "told_connect_target")

\* With no client at all, the assertions of TellConnect have ended it before.
AllReached(st) == Crew(Current) # {} /\ TotallyIn(Current, st)

SetBw ==
  /\ Advancing
  /\ AllReached("connected_target")
  /\ Advanced(MayChange(Assigned(Current), "setting_bw") /\ AllAssigned(Current))
  /\ tc_set_bw_rate(Assigned(Current), Slots(Current))
  /\ MovedOn

SetBwFails ==
  /\ Advancing
  /\ AllReached("connected_target")
  /\ SendFails(Assigned(Current), "setting_bw")

\* The time the handshake took does not count for the failsafe.
StartMeasuring ==
  /\ Advancing
  /\ AllReached("bw_set")
  /\ Advanced(/\ MayChange(Crew(Current), "measuring")
              /\ Cardinality(Crew(Current)) = Len(Hosts[Current]))
  /\ sched_reset_failsafe_stop(Current)
  /\ tc_start_measurement(Crew(Current))
  /\ i' = i + 1
  /\ UNCHANGED <<new_m_id, known_m_ids, loops_without_progress, events,
                 count_success, count_failure>>

StartMeasuringFails ==
  /\ Advancing
  /\ AllReached("bw_set")
  /\ SendFails(Crew(Current), "measuring")

\* (Mutant: the loop goes on behind the one that is done.)
RemoveAndSkip == known_m_ids' = SwapRemove(known_m_ids, i) /\ i' = i + 1

\* The last measurement takes the place of the current one, and is looked at next.
RemoveCurrent == known_m_ids' = SwapRemove(known_m_ids, i) /\ i' = i

MeasurementDone ==
  /\ Advancing
  /\ AllReached("done")
  /\ Advanced(MayChange(Crew(Current), "invalid") /\ msm_state[Current] = "InProgress")
  /\ tc_finished_with_meta(Crew(Current))
  /\ sched_mark_done(Current)
  /\ RemoveCurrent
  /\ count_success' = count_success + 1
  /\ UNCHANGED <<new_m_id, loops_without_progress, events, count_failure, buf>>

NothingToDo ==
  /\ Advancing
  /\ ~ TotallyIn(Current, "authed")
  /\ \A st \in {"connected_target", "bw_set", "done"} : ~ AllReached(st)
  /\ Advanced(TRUE)
  /\ MovedOn
  /\ UNCHANGED tc_vars

-----------------------------------------------------------------------------
(* Waiting for the clients, and reading what they wrote.                   *)

Awaiting == {c \in Metas : state[c] \in Awaited}
Readable == {c \in Awaiting : inbox[c] # "none"}

\* With no client to wait for, the next loop starts at once and is not counted.
AdvanceDone ==
  /\ pc = "advance" /\ ~InLoop
  /\ pc' = IF Awaiting = {} THEN "top" ELSE "poll"
  /\ UNCHANGED <<loop_vars, sched_vars, tc_vars>>

\* epoll_wait() times out, or is interrupted.
PollFails ==
  /\ pc = "poll"
  /\ loops_without_progress' = loops_without_progress + 1
  /\ pc' = "top"
  /\ UNCHANGED <<i, new_m_id, known_m_ids, events, count_success,
                 count_failure, sched_vars, tc_vars>>

PollReturns ==
  /\ pc = "poll"
  /\ Readable # {}
  /\ events' = Readable
  /\ loops_without_progress' = 0
  /\ pc' = "events"
  /\ UNCHANGED <<i, new_m_id, known_m_ids, count_success, count_failure,
                 sched_vars, tc_vars>>

\* Results are read with the parameters of their measurement at hand.
ResultAsserts(c) == state[c] = "measuring" => Fillable(current_m_id[c])

HandledEvent(c) ==
  /\ events' = events \ {c}
  /\ UNCHANGED <<i, new_m_id, known_m_ids, loops_without_progress,
                 count_success, count_failure, sched_vars>>

Answered(c) ==
  /\ pc = "events" /\ c \in events
  /\ tc_authed_socket(c) \/ tc_connected_socket(c) \/ tc_did_set_bw_rate(c)
  /\ HandledEvent(c) /\ UNCHANGED pc

ResultRead(c) ==
  /\ pc = "events" /\ c \in events
  /\ tc_output_result(c)
  /\ Goto(ResultAsserts(c), "events")
  /\ HandledEvent(c)

\* (Mutant: the batch of events is not abandoned.)
EventFailsAndGoesOn(c) ==
  /\ events' = events \ {c}
  /\ Goto(ResultAsserts(c) /\ FailureAsserts(current_m_id[c]), "events")
  /\ measurement_failed(current_m_id[c])
  /\ UNCHANGED <<i, new_m_id, loops_without_progress>>

\* The measurement's sockets are closed: the other events are left for the
\* next poll to report again.
EventFails(c) ==
  /\ events' = {}
  /\ Goto(ResultAsserts(c) /\ FailureAsserts(current_m_id[c]), "top")
  /\ measurement_failed(current_m_id[c])
  /\ UNCHANGED <<i, new_m_id, loops_without_progress>>

AnswerFails(c) ==
  /\ pc = "events" /\ c \in events
  /\ state[c] \in Answering
  /\ AnswersBadly(c)
  /\ BadAnswerRead(c)
  /\ EventFails(c)

ResultFails(c) ==
  /\ pc = "events" /\ c \in events
  /\ state[c] = "measuring" /\ inbox[c] = "err"
  /\ EventFails(c)
  /\ UNCHANGED buf

EventsDone ==
  /\ pc = "events"
  /\ events = {}
  /\ pc' = "top"
  /\ UNCHANGED <<loop_vars, sched_vars, tc_vars>>

-----------------------------------------------------------------------------

Loop ==
  \/ EnterLoop \/ Finish
  \/ WatchdogFails \/ WatchdogDone
  \/ FailsafeFails \/ FailsafePasses \/ FailsafeDone
  \/ StartNone \/ \E m \in Msms : StartNext(m)
  \/ ConnectFails \/ \E c \in Metas : Connect(c)
  \/ ConnectDone
  \/ SendAuth \/ SendAuthFails
  \/ TellConnect \/ TellConnectFails
  \/ SetBw \/ SetBwFails
  \/ StartMeasuring \/ StartMeasuringFails
  \/ MeasurementDone \/ NothingToDo \/ AdvanceDone
  \/ PollFails \/ PollReturns
  \/ \E c \in Metas : Answered(c) \/ ResultRead(c) \/ AnswerFails(c) \/ ResultFails(c)
  \/ EventsDone

\* The clients write and hang up when they like.
ClientWrites ==
  /\ \E c \in Metas, x \in {"good", "other", "eof", "err"} : Arrive(c, x)
  /\ UNCHANGED <<pc, loop_vars, sched_vars>>

TimePasses(m) ==
  /\ Expire(m)
  /\ UNCHANGED <<pc, loop_vars, tc_vars>>

\* The process has ended; nobody starts it again.
Exited == pc \in {"aborted", "panicked"} /\ UNCHANGED vars

Next ==
  \/ \E file \in Schedules : Startup(file)
  \/ Loop
  \/ ClientWrites
  \/ \E m \in Msms : TimePasses(m)
  \/ Exited

\* The thread keeps running, and time keeps passing; clients promise nothing.
Fairness == WF_vars(Loop) /\ \A m \in Msms : WF_vars(TimePasses(m))

Spec == Init /\ [][Next]_vars /\ Fairness
=============================================================================
