------------------------- MODULE CoordinatorProofs --------------------------
(***************************************************************************)
(* The coordinator's bookkeeping is right for every set of measurements,   *)
(* clients and schedule files: its array, its clients, the scheduler and   *)
(* the batch of events agree, also in a process that is about to abort.    *)
(***************************************************************************)
EXTENDS CoordinatorProperties, SchedProofs

-----------------------------------------------------------------------------
(* The operations on the client connections.                               *)

\* A client is in use exactly when its socket is open.
UsedIffOpen == \A c \in Metas : (current_m_id[c] = 0) <=> (state[c] = "invalid")

ClientInv == TorClientTypeOK /\ UsedIffOpen

\* At the start no client is in use,
LEMMA TorClientInitInv == TorClientInit => ClientInv
BY DEF TorClientInit, ClientInv, TorClientTypeOK, UsedIffOpen, CsmState, Replies

\* nor after the client file has been read again.
LEMMA ClientFileReadInv ==
  ASSUME ClientInv, tc_client_file_read
  PROVE  ClientInv'
BY DEF tc_client_file_read, ClientInv, TorClientTypeOK, UsedIffOpen, CsmState

\* A client that is taken is connected in the same step.
LEMMA NextAvailableInv ==
  ASSUME ClientInv, NEW c \in Metas, NEW class, NEW m \in Nat \ {0},
         tc_next_available(c, class, m)
  PROVE  ClientInv'
BY DEF ClientInv, TorClientTypeOK, UsedIffOpen, tc_next_available, CsmState

\* A command is sent to clients that are in use, and leaves them so.
LEMMA SentInv ==
  ASSUME ClientInv, NEW S, NEW st \in CsmState \ {"invalid"}, Sent(S, st),
         \A c \in S : current_m_id[c] # 0
  PROVE  ClientInv'
BY DEF ClientInv, TorClientTypeOK, UsedIffOpen, Sent, Update

\* So do the two commands that carry the parameters of a host slot.
LEMMA TellConnectInv ==
  ASSUME ClientInv, NEW S, NEW slot, \A c \in S : slot[c] \in Nat,
         tc_tell_connect(S, slot), \A c \in S : current_m_id[c] # 0
  PROVE  ClientInv'
BY DEF ClientInv, TorClientTypeOK, UsedIffOpen, tc_tell_connect, Update, CsmState

\* (The second of them.)
LEMMA SetBwRateInv ==
  ASSUME ClientInv, NEW S, NEW slot, \A c \in S : slot[c] \in Nat,
         tc_set_bw_rate(S, slot), \A c \in S : current_m_id[c] # 0
  PROVE  ClientInv'
BY DEF ClientInv, TorClientTypeOK, UsedIffOpen, tc_set_bw_rate, Update, CsmState

\* A client that is released is free and its socket closed.
LEMMA FinishedWithInv ==
  ASSUME ClientInv, NEW S, tc_finished_with_meta(S), buf' \in Replies
  PROVE  ClientInv'
BY DEF ClientInv, TorClientTypeOK, UsedIffOpen, tc_finished_with_meta, Update,
       CsmState

\* An answer that was waited for moves a client on.
LEMMA AnswersInv ==
  ASSUME ClientInv, NEW c \in Metas,
         \/ tc_authed_socket(c) \/ tc_connected_socket(c)
         \/ tc_did_set_bw_rate(c) \/ tc_output_result(c)
  PROVE  ClientInv'
BY DEF ClientInv, TorClientTypeOK, UsedIffOpen, tc_authed_socket,
       tc_connected_socket, tc_did_set_bw_rate, tc_output_result, Answers,
       Received, CsmState, good_resp, Answering, Replies

\* What a client writes changes neither.
LEMMA ArriveInv ==
  ASSUME ClientInv, NEW c \in Metas, NEW x \in {"good", "other", "eof", "err"},
         Arrive(c, x)
  PROVE  ClientInv'
BY DEF ClientInv, TorClientTypeOK, UsedIffOpen, Arrive

-----------------------------------------------------------------------------
(* Removing from the array.                                                *)

Distinct(s) == \A j, k \in DOMAIN s : s[j] = s[k] => j = k

\* The last element takes the place of the one that goes; nothing else moves.
LEMMA SwapRemoveType ==
  ASSUME NEW T, NEW s \in Seq(T), NEW k \in DOMAIN s
  PROVE  /\ SwapRemove(s, k) \in Seq(T)
         /\ Len(SwapRemove(s, k)) = Len(s) - 1
         /\ DOMAIN SwapRemove(s, k) = 1 .. (Len(s) - 1)
         /\ \A j \in 1 .. (Len(s) - 1) :
              SwapRemove(s, k)[j] = IF j = k THEN s[Len(s)] ELSE s[j]
<1>1. Len(s) \in Nat /\ k \in 1 .. Len(s) /\ \A j \in 1 .. Len(s) : s[j] \in T
  OBVIOUS
<1>2. SwapRemove(s, k) \in [1 .. (Len(s) - 1) -> T]
  BY <1>1 DEF SwapRemove
<1>3. Len(s) - 1 \in Nat
  BY <1>1
<1>4. SwapRemove(s, k) \in Seq(T)
  BY <1>2, <1>3
<1>5. DOMAIN SwapRemove(s, k) = 1 .. (Len(s) - 1)
  BY <1>2
<1>6. Len(SwapRemove(s, k)) = Len(s) - 1
  BY <1>3, <1>4, <1>5
<1> QED
  BY <1>4, <1>5, <1>6 DEF SwapRemove

\* From an array without repetitions exactly that one element goes.
LEMMA SwapRemoveRange ==
  ASSUME NEW T, NEW s \in Seq(T), NEW k \in DOMAIN s, Distinct(s)
  PROVE  /\ Range(SwapRemove(s, k)) = Range(s) \ {s[k]}
         /\ Distinct(SwapRemove(s, k))
<1> DEFINE r == SwapRemove(s, k)
           n == Len(s)
<1>1. n \in Nat /\ DOMAIN s = 1 .. n /\ k \in 1 .. n /\ n > 0
  OBVIOUS
<1>2. DOMAIN r = 1 .. (n - 1) /\ \A j \in 1 .. (n - 1) : r[j] = IF j = k THEN s[n] ELSE s[j]
  BY SwapRemoveType
<1> HIDE DEF r, n
<1>3. Distinct(r)
  BY <1>1, <1>2 DEF Distinct
<1>4. \A j \in DOMAIN r : r[j] \in Range(s) \ {s[k]}
  BY <1>1, <1>2 DEF Distinct, Range
<1>5. ASSUME NEW j \in DOMAIN s, j # k PROVE s[j] \in Range(r)
  <2>1. CASE j = n
    <3>1. k \in DOMAIN r /\ r[k] = s[n]
      BY <1>1, <1>2, <1>5, <2>1
    <3> QED
      BY <2>1, <3>1 DEF Range
  <2>2. CASE j # n
    <3>1. j \in DOMAIN r /\ r[j] = s[j]
      BY <1>1, <1>2, <1>5, <2>2
    <3> QED
      BY <3>1 DEF Range
  <2> QED
    BY <2>1, <2>2
<1>6. Range(r) = Range(s) \ {s[k]}
  BY <1>4, <1>5 DEF Range
<1> QED
  BY <1>3, <1>6 DEF r

\* The measurement that fails leaves the array, if it was in it, and no other.
LEMMA WithoutRange ==
  ASSUME NEW T, NEW s \in Seq(T), NEW m, Distinct(s)
  PROVE  /\ Without(s, m) \in Seq(T)
         /\ Range(Without(s, m)) = Range(s) \ {m}
         /\ Distinct(Without(s, m))
<1>1. CASE m \in Range(s)
  <2> DEFINE k == CHOOSE j \in DOMAIN s : s[j] = m
  <2>1. k \in DOMAIN s /\ s[k] = m
    BY <1>1 DEF Range
  <2>2. Without(s, m) = SwapRemove(s, k)
    BY <1>1 DEF Without
  <2> QED
    BY <2>1, <2>2, SwapRemoveType, SwapRemoveRange
<1>2. CASE m \notin Range(s)
  BY <1>2 DEF Without
<1> QED
  BY <1>1, <1>2

-----------------------------------------------------------------------------
(* The inductive invariant.                                                *)

\* The array, the clients and the scheduler agree.
DataInv ==
  /\ SchedTypeOK
  /\ ClientInv
  /\ current_m_id \in [Metas -> Msms \cup {0}]
  /\ known_m_ids \in Seq(Msms)
  /\ new_m_id \in Msms \cup {0}
  /\ count_success \in Nat /\ count_failure \in Nat
  /\ \A c \in Metas : current_m_id[c] # 0 => current_m_id[c] \in Underway
  /\ {m \in Msms : msm_state[m] = "InProgress"} = Underway
  /\ Distinct(known_m_ids)
  /\ OnlyLoadedRuns
  /\ Tally

\* What the place in the loop says about the loop's own variables.
PlaceInv ==
  /\ pc \in Label
  /\ i \in Nat
  /\ loops_without_progress \in 0 .. (MaxLoops + 1)
  /\ pc \in {"failsafe", "start", "connect", "auth", "advance", "poll"}
       => ~ TooManyLoops
  /\ pc \in {"connect", "auth"} => new_m_id # 0
  /\ pc \notin {"connect", "auth", "aborted"} => new_m_id = 0
  /\ pc = "connect" => new_m_id \notin Known
  /\ pc = "auth" => new_m_id \in Known
  /\ pc \in {"startup", "finished"} => sched_finished
  /\ events \subseteq Metas
  /\ pc \notin {"events", "aborted"} => events = {}
  /\ EventsAreCurrent

IInv == DataInv /\ PlaceInv

\* The complete measurements of a file are finitely many.
LEMMA TallyType ==
  ASSUME SchedTypeOK
  PROVE  /\ IsFiniteSet({m \in loaded : msm_state[m] = "Complete"})
         /\ Cardinality({m \in loaded : msm_state[m] = "Complete"}) \in Nat
<1>1. {m \in loaded : msm_state[m] = "Complete"} \in SUBSET Msms
  BY DEF SchedTypeOK
<1>2. IsFiniteSet({m \in loaded : msm_state[m] = "Complete"})
  BY <1>1, SchedAssumption, FS_Subset
<1> QED
  BY <1>2, FS_CardinalityType

\* A step that ends no measurement, takes no client and leaves the array alone.
LEMMA QuietStep ==
  ASSUME DataInv, SchedTypeOK', ClientInv', new_m_id' \in Msms \cup {0},
         UNCHANGED <<loaded, msm_state, current_m_id, known_m_ids,
                     count_success, count_failure>>,
         Underway' = Underway
  PROVE  DataInv'
BY DEF DataInv, OnlyLoadedRuns, Tally

\* A measurement that has come to its end: its clients are free, the array
\* and the scheduler have done with it, and it is counted.
LEMMA EndStep ==
  ASSUME DataInv, NEW m \in Underway,
         tc_finished_with_meta(Crew(m)), sched_mark_done(m),
         known_m_ids' \in Seq(Msms), Distinct(known_m_ids)',
         Known' = Known \ {m},
         new_m_id' = 0, new_m_id \in {0, m}, buf' \in Replies,
         \/ count_failure' = count_failure + 1 /\ UNCHANGED count_success
         \/ count_success' = count_success + 1 /\ UNCHANGED count_failure
  PROVE  DataInv'
<1>1. /\ m \in Msms /\ msm_state[m] = "InProgress" /\ m \in loaded
      /\ m # 0
  BY SchedAssumption DEF DataInv, OnlyLoadedRuns
<1>2. SchedTypeOK' /\ ClientInv'
  BY <1>1, MarkDoneType, FinishedWithInv DEF DataInv
<1>3. /\ loaded' = loaded
      /\ msm_state' = [msm_state EXCEPT ![m] = "Complete"]
      /\ msm_state \in [Msms -> State]
  BY DEF sched_mark_done, DataInv, SchedTypeOK
<1>4. current_m_id' = [c \in Metas |-> IF current_m_id[c] = m THEN 0 ELSE current_m_id[c]]
  BY DEF tc_finished_with_meta, Crew, Update
<1>5. Underway' = Underway \ {m}
  BY DEF Underway
<1>6. {d \in Msms : msm_state'[d] = "InProgress"} = Underway'
  BY <1>1, <1>3, <1>5 DEF DataInv
<1>7. /\ current_m_id' \in [Metas -> Msms \cup {0}]
      /\ \A c \in Metas : current_m_id'[c] # 0 => current_m_id'[c] \in Underway'
  BY <1>4, <1>5 DEF DataInv
<1>8. OnlyLoadedRuns'
  BY <1>1, <1>3 DEF DataInv, OnlyLoadedRuns
<1>9. Tally'
  <2> DEFINE C == {d \in loaded : msm_state[d] = "Complete"}
  <2>1. C' = C \cup {m} /\ m \notin C
    BY <1>1, <1>3 DEF DataInv, SchedTypeOK
  <2>2. IsFiniteSet(C) /\ Cardinality(C) \in Nat
    BY TallyType DEF DataInv
  <2>3. Cardinality(C') = Cardinality(C) + 1
    BY <2>1, <2>2, FS_AddElement
  <2>4. count_success + count_failure = Cardinality(C)
    BY DEF DataInv, Tally
  <2> HIDE DEF C
  <2>5. count_success' + count_failure' = Cardinality(C')
    BY <2>2, <2>3, <2>4 DEF DataInv
  <2> QED
    BY <2>5 DEF Tally, C
<1>10. count_success' \in Nat /\ count_failure' \in Nat
  BY DEF DataInv
<1> QED
  BY <1>2, <1>6, <1>7, <1>8, <1>9, <1>10 DEF DataInv

\* The same, for a measurement that fails.
LEMMA FailedStep ==
  ASSUME DataInv, NEW m \in Underway, measurement_failed(m),
         new_m_id' = 0, new_m_id \in {0, m}, buf' \in Replies
  PROVE  DataInv'
<1>1. /\ known_m_ids' \in Seq(Msms)
      /\ Distinct(known_m_ids')
      /\ Range(known_m_ids') = Range(known_m_ids) \ {m}
  BY WithoutRange DEF measurement_failed, DataInv
<1> QED
  BY <1>1, EndStep DEF measurement_failed, Known, Distinct

-----------------------------------------------------------------------------
(* The steps that change what the array, the clients and the scheduler hold. *)

\* A new round begins when the table is finished, and forgets every client.
LEMMA StartupInv ==
  ASSUME IInv, NEW file \in Schedules, Startup(file)
  PROVE  IInv'
<1>1. CASE Accepts(file)
  <2>1. /\ pc' = "top" /\ i' = 1 /\ new_m_id' = 0 /\ known_m_ids' = <<>>
        /\ loops_without_progress' = 0 /\ events' = {}
        /\ count_success' = 0 /\ count_failure' = 0
        /\ tc_client_file_read /\ sched_new(file)
    BY <1>1 DEF Startup
  <2>2. sched_finished /\ msm_state \in [Msms -> State] /\ SchedTypeOK
    BY DEF Startup, IInv, PlaceInv, DataInv, SchedTypeOK
  <2>3. /\ loaded' = DOMAIN file /\ DOMAIN file \subseteq Msms
        /\ \A m \in Msms : msm_state'[m] = IF m \in DOMAIN file THEN "Waiting"
                                                                ELSE msm_state[m]
    BY <2>1, SchedAssumption DEF sched_new, Inserted, All
  <2>4. SchedTypeOK' /\ ClientInv'
    BY <2>1, <2>2, SchedulesOK, SchedNewType, ClientFileReadInv DEF IInv, DataInv
  <2>5. \A c \in Metas : current_m_id'[c] = 0
    BY <2>1 DEF tc_client_file_read
  <2>6. Underway' = {}
    BY <2>1 DEF Underway, Known, Range
  <2>7. \A m \in Msms : msm_state'[m] # "InProgress"
    BY <2>2, <2>3 DEF sched_finished
  <2>8. OnlyLoadedRuns'
    BY <2>2, <2>3 DEF sched_finished, OnlyLoadedRuns
  <2>9. Tally'
    <3>1. {m \in loaded' : msm_state'[m] = "Complete"} = {}
      BY <2>3
    <3> QED
      BY <2>1, <3>1, FS_EmptySet DEF Tally
  <2>10. current_m_id' \in [Metas -> Msms \cup {0}]
    BY <2>1 DEF tc_client_file_read
  <2>11. DataInv'
    BY <2>1, <2>4, <2>5, <2>6, <2>7, <2>8, <2>9, <2>10 DEF DataInv, Distinct
  <2>12. PlaceInv'
    BY <2>1, CoordinatorAssumption DEF PlaceInv, Label, TooManyLoops, EventsAreCurrent
  <2> QED
    BY <2>11, <2>12 DEF IInv
<1>2. CASE ~ Accepts(file)
  <2>1. pc' = "panicked" /\ UNCHANGED <<loop_vars, sched_vars, tc_vars>>
        /\ pc \in {"startup", "finished"}
    BY <1>2 DEF Startup
  <2>2. DataInv'
    <3>1. SchedTypeOK' /\ ClientInv' /\ Underway' = Underway
      BY <2>1 DEF loop_vars, sched_vars, tc_vars, IInv, DataInv, SchedTypeOK,
                  ClientInv, TorClientTypeOK, UsedIffOpen, Underway, Known
    <3> QED
      BY <2>1, <3>1, QuietStep DEF loop_vars, sched_vars, tc_vars, IInv, DataInv
  <2>3. PlaceInv'
    BY <2>1 DEF loop_vars, sched_vars, tc_vars, IInv, PlaceInv, Label, EventsAreCurrent
  <2> QED
    BY <2>2, <2>3 DEF IInv
<1> QED
  BY <1>1, <1>2

\* The measurement that is handed out is the coordinator's from then on.
LEMMA StartNextInv ==
  ASSUME IInv, NEW m \in Msms, StartNext(m)
  PROVE  IInv'
<1>1. /\ pc = "start" /\ pc' = "connect" /\ i' = 1 /\ new_m_id' = m
      /\ sched_next(m) /\ msm_state[m] = "Waiting"
      /\ UNCHANGED <<known_m_ids, loops_without_progress, events, count_success,
                     count_failure, tc_vars>>
  BY DEF StartNext, sched_next, Ready
<1>2. SchedTypeOK' /\ SchedTypeOK
  BY <1>1, SchedNextType DEF IInv, DataInv
<1>3. ClientInv'
  BY <1>1 DEF tc_vars, IInv, DataInv, ClientInv, TorClientTypeOK, UsedIffOpen
<1>4. new_m_id = 0 /\ m # 0 /\ m \notin Known
  BY <1>1, SchedAssumption DEF IInv, PlaceInv, DataInv, Underway
<1>5. Underway' = Underway \cup {m} /\ Known' = Known
  BY <1>1, <1>4 DEF Underway, Known
<1>6. /\ msm_state' = [msm_state EXCEPT ![m] = "InProgress"] /\ loaded' = loaded
      /\ msm_state \in [Msms -> State]
  BY <1>1, <1>2 DEF sched_next, SchedTypeOK
<1>7. Tally'
  <2>1. {d \in loaded' : msm_state'[d] = "Complete"} =
          {d \in loaded : msm_state[d] = "Complete"}
    BY <1>1, <1>2, <1>6 DEF SchedTypeOK
  <2> QED
    BY <1>1, <2>1 DEF Tally, IInv, DataInv
<1>8. OnlyLoadedRuns'
  BY <1>1, <1>6 DEF IInv, DataInv, OnlyLoadedRuns
<1>9. DataInv'
  BY <1>1, <1>2, <1>3, <1>5, <1>6, <1>7, <1>8 DEF IInv, DataInv, Distinct, tc_vars
<1>10. PlaceInv'
  BY <1>1, <1>4, <1>5 DEF IInv, PlaceInv, Label, TooManyLoops, EventsAreCurrent
<1> QED
  BY <1>9, <1>10 DEF IInv

\* A client that is taken is taken for the new measurement.
LEMMA ConnectInv ==
  ASSUME IInv, NEW c \in Metas, Connect(c)
  PROVE  IInv'
<1>1. /\ pc = "connect" /\ pc' \in {"connect", "aborted"} /\ i' = i + 1
      /\ UNCHANGED <<new_m_id, known_m_ids, loops_without_progress, events,
                     count_success, count_failure, sched_vars>>
  BY DEF Connect, Goto
<1>2. PICK class : tc_next_available(c, class, new_m_id)
  BY DEF Connect
<1>3. new_m_id \in Msms /\ new_m_id \in Nat \ {0}
  BY <1>1, SchedAssumption DEF IInv, PlaceInv, DataInv
<1>4. ClientInv'
  BY <1>2, <1>3, NextAvailableInv DEF IInv, DataInv
<1>5. current_m_id' = [current_m_id EXCEPT ![c] = new_m_id]
  BY <1>2 DEF tc_next_available
<1>6. Underway' = Underway /\ new_m_id \in Underway
  BY <1>1, <1>3 DEF Underway, Known
<1>7. DataInv'
  BY <1>1, <1>3, <1>4, <1>5, <1>6
  DEF IInv, DataInv, sched_vars, SchedTypeOK, OnlyLoadedRuns, Tally, Distinct
<1>8. PlaceInv'
  BY <1>1 DEF IInv, PlaceInv, Label, TooManyLoops, EventsAreCurrent, Known
<1> QED
  BY <1>7, <1>8 DEF IInv

\* The new measurement enters the array, which did not have it.
LEMMA ConnectDoneInv ==
  ASSUME IInv, ConnectDone
  PROVE  IInv'
<1>1. /\ pc = "connect" /\ pc' = "auth"
      /\ known_m_ids' = Append(known_m_ids, new_m_id)
      /\ UNCHANGED <<i, new_m_id, loops_without_progress, events, count_success,
                     count_failure, sched_vars, tc_vars>>
  BY DEF ConnectDone
<1>2. /\ new_m_id \in Msms /\ new_m_id # 0 /\ new_m_id \notin Known
      /\ known_m_ids \in Seq(Msms) /\ Distinct(known_m_ids)
  BY <1>1 DEF IInv, PlaceInv, DataInv
<1>3. /\ known_m_ids' \in Seq(Msms) /\ Distinct(known_m_ids')
      /\ Range(known_m_ids') = Range(known_m_ids) \cup {new_m_id}
  <2>1. /\ known_m_ids' \in Seq(Msms) /\ Len(known_m_ids) \in Nat
        /\ DOMAIN known_m_ids = 1 .. Len(known_m_ids)
        /\ DOMAIN known_m_ids' = 1 .. (Len(known_m_ids) + 1)
        /\ \A j \in 1 .. Len(known_m_ids) : known_m_ids'[j] = known_m_ids[j]
        /\ known_m_ids'[Len(known_m_ids) + 1] = new_m_id
    BY <1>1, <1>2
  <2>2. Distinct(known_m_ids')
    BY <1>2, <2>1 DEF Distinct, Known, Range
  <2>3. Range(known_m_ids') = Range(known_m_ids) \cup {new_m_id}
    BY <2>1 DEF Range
  <2> QED
    BY <2>1, <2>2, <2>3
<1>4. Underway' = Underway /\ new_m_id' \in Known'
  BY <1>1, <1>2, <1>3 DEF Underway, Known
<1>5. ClientInv' /\ SchedTypeOK'
  BY <1>1 DEF tc_vars, sched_vars, IInv, DataInv, ClientInv, TorClientTypeOK,
              UsedIffOpen, SchedTypeOK
<1>6. DataInv'
  BY <1>1, <1>3, <1>4, <1>5
  DEF IInv, DataInv, sched_vars, tc_vars, OnlyLoadedRuns, Tally, Distinct
<1>7. PlaceInv'
  BY <1>1, <1>2, <1>4 DEF IInv, PlaceInv, Label, TooManyLoops, EventsAreCurrent
<1> QED
  BY <1>6, <1>7 DEF IInv

\* A measurement succeeds: the loop is at it, so it is the element that goes.
LEMMA MeasurementDoneInv ==
  ASSUME IInv, MeasurementDone
  PROVE  IInv'
<1>1. /\ pc = "advance" /\ i \in DOMAIN known_m_ids
      /\ pc' \in {"advance", "aborted"} /\ i' = i
      /\ known_m_ids' = SwapRemove(known_m_ids, i)
      /\ tc_finished_with_meta(Crew(Current)) /\ sched_mark_done(Current)
      /\ count_success' = count_success + 1
      /\ UNCHANGED <<new_m_id, loops_without_progress, events, count_failure, buf>>
  BY DEF MeasurementDone, Advancing, InLoop, Advanced, Goto, RemoveCurrent
<1>2. Current \in Underway /\ new_m_id = 0
  BY <1>1 DEF Current, Underway, Known, Range, IInv, PlaceInv
<1>3. /\ known_m_ids' \in Seq(Msms) /\ Distinct(known_m_ids')
      /\ Range(known_m_ids') = Range(known_m_ids) \ {Current}
  BY <1>1, SwapRemoveType, SwapRemoveRange DEF IInv, DataInv, Current
<1>4. buf' \in Replies
  BY <1>1 DEF IInv, DataInv, ClientInv, TorClientTypeOK
<1>5. DataInv'
  BY <1>1, <1>2, <1>3, <1>4, EndStep DEF IInv, Known, Distinct
<1>6. PlaceInv'
  BY <1>1, <1>2 DEF IInv, PlaceInv, Label, TooManyLoops, EventsAreCurrent
<1> QED
  BY <1>5, <1>6 DEF IInv

-----------------------------------------------------------------------------
(* The ways to fail.                                                       *)

\* A measurement under way fails, and the loop goes on at another place.
LEMMA FailInv ==
  ASSUME IInv, NEW m \in Underway, measurement_failed(m),
         new_m_id' = 0, new_m_id \in {0, m}, buf' \in Replies,
         i' \in Nat, events' = {}, UNCHANGED loops_without_progress,
         pc' \in {"top", "watchdog", "failsafe", "advance", "aborted"},
         pc' \in {"failsafe", "advance"} => ~ TooManyLoops
  PROVE  IInv'
<1>1. DataInv'
  BY FailedStep DEF IInv
<1>2. PlaceInv'
  BY DEF IInv, PlaceInv, Label, TooManyLoops, EventsAreCurrent
<1> QED
  BY <1>1, <1>2 DEF IInv

\* In every one of them it is a measurement under way that fails.
LEMMA FailuresInv ==
  ASSUME IInv,
         \/ WatchdogFails \/ FailsafeFails \/ ConnectFails \/ SendAuthFails
         \/ TellConnectFails \/ SetBwFails \/ StartMeasuringFails
         \/ \E c \in Metas : AnswerFails(c) \/ ResultFails(c)
  PROVE  IInv'
<1>1. /\ i \in Nat /\ known_m_ids \in Seq(Msms)
      /\ pc \notin {"events", "aborted"} => events = {}
      /\ pc \in {"failsafe", "connect", "auth", "advance"} => ~ TooManyLoops
      /\ pc \notin {"connect", "auth", "aborted"} => new_m_id = 0
      /\ pc \in {"connect", "auth"} => new_m_id # 0
      /\ new_m_id \in Msms \cup {0} /\ buf \in Replies
  BY DEF IInv, PlaceInv, DataInv, ClientInv, TorClientTypeOK
<1>2. \A k \in DOMAIN known_m_ids : known_m_ids[k] \in Underway
  BY DEF Underway, Known, Range
<1>3. new_m_id # 0 => new_m_id \in Underway
  BY DEF Underway
<1>4. CASE WatchdogFails
  <2> DEFINE m == known_m_ids[Len(known_m_ids)]
  <2>1. Len(known_m_ids) \in DOMAIN known_m_ids
    BY <1>1, <1>4 DEF WatchdogFails
  <2>2. m \in Underway
    BY <1>2, <2>1
  <2>3. /\ pc = "watchdog" /\ measurement_failed(m)
        /\ pc' \in {"watchdog", "aborted"}
        /\ UNCHANGED <<i, new_m_id, loops_without_progress, events, buf>>
    BY <1>4 DEF WatchdogFails, Goto
  <2> QED
    BY <1>1, <2>2, <2>3, FailInv
<1>5. CASE FailsafeFails
  <2>1. /\ pc = "failsafe" /\ measurement_failed(Current)
        /\ Current \in Underway
        /\ pc' \in {"failsafe", "aborted"}
        /\ UNCHANGED <<i, new_m_id, loops_without_progress, events, buf>>
    BY <1>2, <1>5 DEF FailsafeFails, Goto, InLoop, Current
  <2> QED
    BY <1>1, <2>1, FailInv
<1>6. CASE ConnectFails
  <2>1. /\ pc = "connect" /\ measurement_failed(new_m_id)
        /\ pc' \in {"advance", "aborted"}
        /\ i' = 1 /\ new_m_id' = 0
        /\ UNCHANGED <<loops_without_progress, events, buf>>
    BY <1>6 DEF ConnectFails, Goto
  <2> QED
    BY <1>1, <1>3, <2>1, FailInv
<1>7. CASE SendAuthFails
  <2>1. /\ pc = "auth" /\ measurement_failed(new_m_id)
        /\ pc' \in {"advance", "aborted"}
        /\ i' = 1 /\ new_m_id' = 0
        /\ UNCHANGED <<loops_without_progress, events, buf>>
    BY <1>7 DEF SendAuthFails, Goto
  <2> QED
    BY <1>1, <1>3, <2>1, FailInv
<1>8. CASE TellConnectFails \/ SetBwFails \/ StartMeasuringFails
  <2>1. /\ pc = "advance" /\ measurement_failed(Current)
        /\ Current \in Underway
        /\ pc' \in {"top", "aborted"}
        /\ UNCHANGED <<i, new_m_id, loops_without_progress, events, buf>>
    BY <1>2, <1>8 DEF TellConnectFails, SetBwFails, StartMeasuringFails, SendFails,
                      Goto, Advancing, InLoop, Current
  <2> QED
    BY <1>1, <2>1, FailInv
<1>9. ASSUME NEW c \in Metas, AnswerFails(c) \/ ResultFails(c)
      PROVE  IInv'
  <2>1. /\ pc = "events" /\ measurement_failed(current_m_id[c])
        /\ c \in events /\ events' = {}
        /\ pc' \in {"top", "aborted"}
        /\ UNCHANGED <<i, new_m_id, loops_without_progress>>
        /\ buf' \in Replies
    BY <1>1, <1>9 DEF AnswerFails, ResultFails, EventFails, Goto, BadAnswerRead, Replies
  <2>2. state[c] # "invalid"
    BY <2>1 DEF IInv, PlaceInv, EventsAreCurrent, Awaited, Answering
  <2>3. current_m_id[c] \in Underway
    BY <2>2 DEF IInv, DataInv, ClientInv, UsedIffOpen
  <2> QED
    BY <1>1, <2>1, <2>3, FailInv
<1> QED
  BY <1>4, <1>5, <1>6, <1>7, <1>8, <1>9

-----------------------------------------------------------------------------
(* Commands and answers.                                                   *)

\* A step of the clients only: commands sent, answers read, bytes arriving.
LEMMA ClientStep ==
  ASSUME IInv, ClientInv', new_m_id' \in {0, new_m_id}, Underway' = Underway,
         UNCHANGED <<current_m_id, known_m_ids, count_success, count_failure,
                     sched_vars>>
  PROVE  DataInv'
BY QuietStep DEF IInv, DataInv, sched_vars, SchedTypeOK

\* The host slot a client is given is a number.
LEMMA HostForType ==
  ASSUME NEW m \in Msms, NEW c \in Metas
  PROVE  HostFor(m, c) \in Nat
<1>1. DOMAIN Hosts[m] \subseteq Nat
  BY CoordinatorAssumption
<1>2. ASSUME NEW slots, slots \subseteq Nat
      PROVE  (IF slots = {} THEN 0 ELSE CHOOSE k \in slots : TRUE) \in Nat
  <2>1. CASE slots # {}
    <3>1. (CHOOSE k \in slots : TRUE) \in slots
      BY <2>1
    <3> QED
      BY <1>2, <2>1, <3>1
  <2> QED
    BY <2>1
<1> QED
  BY <1>1, <1>2 DEF HostFor

\* A command is sent to clients of the measurement it is about.
LEMMA SendingInv ==
  ASSUME IInv, SendAuth \/ TellConnect \/ SetBw \/ StartMeasuring
  PROVE  IInv'
<1>1. ClientInv /\ SchedTypeOK /\ i \in Nat /\ known_m_ids \in Seq(Msms)
  BY DEF IInv, DataInv, PlaceInv
<1>2. \A m : m # 0 => \A c \in Crew(m) : current_m_id[c] # 0 /\ c \in Metas
  BY DEF Crew
<1>3. CASE SendAuth
  <2>1. /\ pc = "auth" /\ pc' \in {"advance", "aborted"}
        /\ Sent(Crew(new_m_id), "authing")
        /\ i' = 1 /\ new_m_id' = 0
        /\ UNCHANGED <<known_m_ids, loops_without_progress, events, count_success,
                       count_failure, sched_vars>>
    BY <1>3 DEF SendAuth, Goto, tc_auth_socket
  <2>2. new_m_id # 0 /\ new_m_id \in Known /\ new_m_id \in Msms
    BY <2>1 DEF IInv, PlaceInv, DataInv
  <2>3. ClientInv'
    BY <1>1, <1>2, <2>1, <2>2, SentInv DEF CsmState
  <2>4. Underway' = Underway
    BY <2>1, <2>2 DEF Underway, Known
  <2>5. DataInv'
    BY <2>1, <2>3, <2>4, ClientStep DEF Sent
  <2>6. PlaceInv'
    BY <2>1 DEF IInv, PlaceInv, Label, TooManyLoops, EventsAreCurrent
  <2> QED
    BY <2>5, <2>6 DEF IInv
<1>4. CASE TellConnect \/ SetBw
  <2>1. /\ pc = "advance" /\ pc' \in {"advance", "aborted"} /\ i' = i + 1
        /\ \/ tc_tell_connect(Assigned(Current), Slots(Current))
           \/ tc_set_bw_rate(Assigned(Current), Slots(Current))
        /\ UNCHANGED <<new_m_id, known_m_ids, loops_without_progress, events,
                       count_success, count_failure, sched_vars>>
        /\ i \in DOMAIN known_m_ids
    BY <1>4 DEF TellConnect, SetBw, Advanced, Goto, MovedOn, Advancing, InLoop
  <2>2. Current \in Msms /\ Current # 0
    BY <1>1, <2>1, SchedAssumption DEF Current
  <2>3. /\ \A c \in Assigned(Current) : current_m_id[c] # 0
        /\ \A c \in Assigned(Current) : Slots(Current)[c] \in Nat
    BY <1>2, <2>2, HostForType DEF Assigned, Slots
  <2>4. ClientInv'
    BY <1>1, <2>1, <2>3, TellConnectInv, SetBwRateInv
  <2>5. Underway' = Underway /\ current_m_id' = current_m_id
    BY <2>1 DEF Underway, Known, tc_tell_connect, tc_set_bw_rate
  <2>6. DataInv'
    BY <2>1, <2>4, <2>5, ClientStep
  <2>7. PlaceInv'
    BY <2>1 DEF IInv, PlaceInv, Label, TooManyLoops, EventsAreCurrent
  <2> QED
    BY <2>6, <2>7 DEF IInv
<1>5. CASE StartMeasuring
  <2>1. /\ pc = "advance" /\ pc' \in {"advance", "aborted"} /\ i' = i + 1
        /\ Sent(Crew(Current), "measuring")
        /\ sched_reset_failsafe_stop(Current)
        /\ UNCHANGED <<new_m_id, known_m_ids, loops_without_progress, events,
                       count_success, count_failure>>
        /\ i \in DOMAIN known_m_ids
    BY <1>5 DEF StartMeasuring, Advanced, Goto, Advancing, InLoop, tc_start_measurement
  <2>2. Current \in Msms /\ Current # 0
    BY <1>1, <2>1, SchedAssumption DEF Current
  <2>3. ClientInv'
    BY <1>1, <1>2, <2>1, <2>2, SentInv DEF CsmState
  <2>4. SchedTypeOK'
    BY <1>1, <2>1, <2>2, ResetFailsafeType
  <2>5. Underway' = Underway /\ UNCHANGED <<loaded, msm_state, current_m_id>>
    BY <2>1 DEF Underway, Known, Sent, sched_reset_failsafe_stop
  <2>6. DataInv'
    BY <2>1, <2>3, <2>4, <2>5, QuietStep DEF IInv, DataInv
  <2>7. PlaceInv'
    BY <2>1 DEF IInv, PlaceInv, Label, TooManyLoops, EventsAreCurrent
  <2> QED
    BY <2>6, <2>7 DEF IInv
<1> QED
  BY <1>3, <1>4, <1>5

\* Reading answers: the client whose event it is has been waited for, and the
\* others' events are still about what they were about.
LEMMA ReadingInv ==
  ASSUME IInv, NEW c \in Metas, Answered(c) \/ ResultRead(c)
  PROVE  IInv'
<1>1. /\ pc = "events" /\ pc' \in {"events", "aborted"} /\ events' = events \ {c}
      /\ \/ tc_authed_socket(c) \/ tc_connected_socket(c)
         \/ tc_did_set_bw_rate(c) \/ tc_output_result(c)
      /\ UNCHANGED <<i, new_m_id, known_m_ids, loops_without_progress,
                     count_success, count_failure, sched_vars>>
  BY DEF Answered, ResultRead, HandledEvent, Goto
<1>2. ClientInv /\ ClientInv'
  BY <1>1, AnswersInv DEF IInv, DataInv
<1>3. Underway' = Underway /\ current_m_id' = current_m_id
  BY <1>1 DEF Underway, Known, tc_authed_socket, tc_connected_socket,
              tc_did_set_bw_rate, tc_output_result, Answers
<1>4. DataInv'
  BY <1>1, <1>2, <1>3, ClientStep
<1>5. \A d \in Metas \ {c} : state'[d] = state[d] /\ inbox'[d] = inbox[d]
  BY <1>1, <1>2 DEF ClientInv, TorClientTypeOK, tc_authed_socket,
     tc_connected_socket, tc_did_set_bw_rate, tc_output_result, Answers, Received
<1>6. PlaceInv'
  BY <1>1, <1>5 DEF IInv, PlaceInv, Label, EventsAreCurrent, TooManyLoops
<1> QED
  BY <1>4, <1>6 DEF IInv

\* Bytes arrive only where there are none to be read.
LEMMA WorldInv ==
  ASSUME IInv, ClientWrites \/ \E m \in Msms : TimePasses(m)
  PROVE  IInv'
<1>1. CASE ClientWrites
  <2>1. PICK c \in Metas, x \in {"good", "other", "eof", "err"} : Arrive(c, x)
    BY <1>1 DEF ClientWrites
  <2>2. UNCHANGED <<pc, loop_vars, sched_vars>>
    BY <1>1 DEF ClientWrites
  <2>3. ClientInv' /\ ClientInv
    BY <2>1, ArriveInv DEF IInv, DataInv
  <2>4. Underway' = Underway
    BY <2>2 DEF Underway, Known, loop_vars
  <2>5. DataInv'
    BY <2>1, <2>2, <2>3, <2>4, ClientStep DEF Arrive, loop_vars
  <2>6. PlaceInv'
    BY <2>1, <2>2, <2>3 DEF IInv, PlaceInv, EventsAreCurrent, TooManyLoops, Known,
       loop_vars, sched_vars, sched_finished, Arrive, ClientInv, TorClientTypeOK
  <2> QED
    BY <2>5, <2>6 DEF IInv
<1>2. ASSUME NEW m \in Msms, TimePasses(m)
      PROVE  IInv'
  <2>1. Expire(m) /\ UNCHANGED <<pc, loop_vars, tc_vars>>
    BY <1>2 DEF TimePasses
  <2>2. SchedTypeOK'
    BY <2>1, ExpireType DEF IInv, DataInv
  <2>3. ClientInv' /\ Underway' = Underway
    BY <2>1 DEF tc_vars, loop_vars, IInv, DataInv, ClientInv, TorClientTypeOK,
                UsedIffOpen, Underway, Known
  <2>4. DataInv'
    BY <2>1, <2>2, <2>3, QuietStep DEF IInv, DataInv, Expire, loop_vars, tc_vars
  <2>5. PlaceInv'
    BY <2>1 DEF IInv, PlaceInv, EventsAreCurrent, TooManyLoops, Known, loop_vars,
                tc_vars, sched_finished, Expire
  <2> QED
    BY <2>4, <2>5 DEF IInv
<1> QED
  BY <1>1, <1>2

\* The steps from one place of the loop to the next.
LEMMA ControlInv ==
  ASSUME IInv,
         \/ EnterLoop \/ Finish \/ WatchdogDone \/ FailsafePasses \/ FailsafeDone
         \/ StartNone \/ NothingToDo \/ AdvanceDone \/ PollFails \/ PollReturns
         \/ EventsDone
  PROVE  IInv'
<1>1. UNCHANGED <<new_m_id, known_m_ids, count_success, count_failure,
                  sched_vars, tc_vars>>
  BY DEF EnterLoop, Finish, WatchdogDone, FailsafePasses, FailsafeDone, StartNone,
         NothingToDo, MovedOn, AdvanceDone, PollFails, PollReturns, EventsDone,
         loop_vars
<1>2. ClientInv' /\ SchedTypeOK' /\ Underway' = Underway
  BY <1>1 DEF tc_vars, sched_vars, IInv, DataInv, ClientInv, TorClientTypeOK,
              UsedIffOpen, SchedTypeOK, Underway, Known
<1>3. DataInv'
  BY <1>1, <1>2, QuietStep DEF IInv, DataInv, sched_vars, tc_vars
<1>4. Known' = Known /\ sched_finished' = sched_finished
  BY <1>1 DEF Known, sched_finished, sched_vars
<1>5. state' = state /\ inbox' = inbox /\ new_m_id' = new_m_id
  BY <1>1 DEF tc_vars
<1>6. MaxLoops \in Nat
  BY CoordinatorAssumption
<1>7. PlaceInv'
  <2> USE <1>4, <1>5, <1>6
      DEF IInv, PlaceInv, Label, TooManyLoops, EventsAreCurrent
  <2>1. CASE EnterLoop \/ Finish \/ FailsafeDone \/ StartNone \/ EventsDone
    BY <2>1 DEF EnterLoop, Finish, FailsafeDone, StartNone, EventsDone, loop_vars
  <2>2. CASE WatchdogDone
    BY <2>2 DEF WatchdogDone
  <2>3. CASE FailsafePasses \/ NothingToDo \/ AdvanceDone
    BY <2>3 DEF FailsafePasses, NothingToDo, MovedOn, Advancing, AdvanceDone,
                Advanced, Goto, loop_vars
  <2>4. CASE PollFails
    BY <2>4 DEF PollFails
  <2>5. CASE PollReturns
    BY <2>5 DEF PollReturns, Readable, Awaiting
  <2> QED
    BY <2>1, <2>2, <2>3, <2>4, <2>5
<1> QED
  BY <1>3, <1>7 DEF IInv

-----------------------------------------------------------------------------
(* The theorems.                                                           *)

\* The invariant holds at the start,
LEMMA InitInv == Init => IInv
<1> SUFFICES ASSUME Init PROVE IInv
  OBVIOUS
<1>1. SchedTypeOK /\ ClientInv
  BY SchedInitType, TorClientInitInv DEF Init
<1>2. Underway = {} /\ \A m \in Msms : msm_state[m] = "Absent"
  BY DEF Init, Underway, Known, Range, SchedInit
<1>3. Tally
  BY FS_EmptySet DEF Init, SchedInit, Tally
<1>4. DataInv
  BY <1>1, <1>2, <1>3
  DEF DataInv, Init, TorClientInit, Distinct, OnlyLoadedRuns
<1>5. PlaceInv
  BY <1>2, CoordinatorAssumption
  DEF Init, PlaceInv, Label, TooManyLoops, EventsAreCurrent, sched_finished
<1> QED
  BY <1>4, <1>5 DEF IInv

\* and every step keeps it.
LEMMA NextInv == IInv /\ [Next]_vars => IInv'
<1> SUFFICES ASSUME IInv, [Next]_vars PROVE IInv'
  OBVIOUS
<1>1. CASE UNCHANGED vars
  BY <1>1 DEF vars, loop_vars, sched_vars, tc_vars, IInv, DataInv, PlaceInv,
     SchedTypeOK, ClientInv, TorClientTypeOK, UsedIffOpen, OnlyLoadedRuns, Tally,
     Distinct, Underway, Known, TooManyLoops, sched_finished, EventsAreCurrent
<1>2. CASE Loop
  BY <1>2, StartNextInv, ConnectInv, ConnectDoneInv, MeasurementDoneInv,
     FailuresInv, SendingInv, ReadingInv, ControlInv DEF Loop
<1>3. CASE Exited
  BY <1>1, <1>3 DEF Exited
<1> QED
  BY <1>1, <1>2, <1>3, StartupInv, WorldInv DEF Next

\* The array, the clients, the scheduler and the batch of events agree, in
\* every state of every round.
THEOREM CoordinatorInvariant == Spec => []IInv
BY InitInv, NextInv, PTL DEF Spec

\* Every variable keeps its type; the count of loops without progress never
\* goes more than one past its limit.
THEOREM CoordinatorTypes == Spec => []TypeOK
<1>1. IInv => TypeOK
  BY DEF IInv, DataInv, PlaceInv, ClientInv, TypeOK
<1> QED
  BY <1>1, CoordinatorInvariant, PTL

\* No client is left behind by a measurement that has ended, on whatever path.
THEOREM NobodyOrphaned == Spec => []NoOrphanedClient
<1>1. IInv => NoOrphanedClient
  BY DEF IInv, DataInv, ClientInv, UsedIffOpen, NoOrphanedClient
<1> QED
  BY <1>1, CoordinatorInvariant, PTL

\* What the scheduler has handed out is what the coordinator has under way.
THEOREM ArrayMatchesScheduler == Spec => []KnownMatchesSched
<1>1. IInv => KnownMatchesSched
  BY DEF IInv, DataInv, PlaceInv, Distinct, KnownMatchesSched
<1> QED
  BY <1>1, CoordinatorInvariant, PTL

\* No event is handled that is about a socket closed by an earlier one.
THEOREM EventsStayCurrent == Spec => []EventsAreCurrent
BY CoordinatorInvariant, PTL DEF IInv, PlaceInv

\* Every measurement that has ended has been counted exactly once.
THEOREM CountsExact == Spec => []Tally
BY CoordinatorInvariant, PTL DEF IInv, DataInv

-----------------------------------------------------------------------------
(* The coordinator as the scheduler's caller.                              *)

\* On every path it is a measurement under way that fails.
LEMMA FailuresUnderway ==
  ASSUME IInv,
         \/ WatchdogFails \/ FailsafeFails \/ ConnectFails \/ SendAuthFails
         \/ TellConnectFails \/ SetBwFails \/ StartMeasuringFails
         \/ \E c \in Metas : AnswerFails(c) \/ ResultFails(c)
  PROVE  \E m \in Underway : measurement_failed(m)
<1>1. /\ known_m_ids \in Seq(Msms)
      /\ \A k \in DOMAIN known_m_ids : known_m_ids[k] \in Underway
      /\ new_m_id # 0 => new_m_id \in Underway
      /\ pc \in {"connect", "auth"} => new_m_id # 0
  BY DEF IInv, DataInv, PlaceInv, Underway, Known, Range
<1>2. CASE WatchdogFails
  <2>1. Len(known_m_ids) \in DOMAIN known_m_ids
    BY <1>1, <1>2 DEF WatchdogFails
  <2> QED
    BY <1>1, <1>2, <2>1 DEF WatchdogFails
<1>3. CASE ConnectFails \/ SendAuthFails
  BY <1>1, <1>3 DEF ConnectFails, SendAuthFails
<1>4. CASE FailsafeFails \/ TellConnectFails \/ SetBwFails \/ StartMeasuringFails
  BY <1>1, <1>4 DEF FailsafeFails, TellConnectFails, SetBwFails,
                    StartMeasuringFails, SendFails, Advancing, InLoop, Current
<1>5. ASSUME NEW c \in Metas, AnswerFails(c) \/ ResultFails(c)
      PROVE  \E m \in Underway : measurement_failed(m)
  <2>1. c \in events /\ measurement_failed(current_m_id[c])
    BY <1>5 DEF AnswerFails, ResultFails, EventFails
  <2>2. current_m_id[c] \in Underway
    BY <2>1 DEF IInv, DataInv, PlaceInv, EventsAreCurrent, Awaited, Answering,
                ClientInv, UsedIffOpen
  <2> QED
    BY <2>1, <2>2
<1> QED
  BY <1>2, <1>3, <1>4, <1>5

\* The assertion of sched_mark_done() holds on every path: the scheduler's
\* contract is kept.
THEOREM ContractKept == Spec => KeepsContract
<1>1. IInv /\ [Next]_vars => [Call]_sched_vars
  <2> SUFFICES ASSUME IInv, Next PROVE Call \/ UNCHANGED sched_vars
    BY DEF vars
  <2>1. /\ known_m_ids \in Seq(Msms)
        /\ \A m \in Underway : m \in Msms /\ msm_state[m] = "InProgress"
    BY DEF IInv, DataInv
  <2>2. InLoop => Current \in Underway
    BY DEF InLoop, Current, Underway, Known, Range
  <2>3. ASSUME NEW file \in Schedules, Startup(file)
        PROVE  Call \/ UNCHANGED sched_vars
    BY <2>3 DEF Startup, IInv, PlaceInv, Call
  <2>4. ASSUME NEW m \in Underway, measurement_failed(m) PROVE Call
    BY <2>1, <2>4 DEF measurement_failed, Call
  <2>5. CASE MeasurementDone \/ StartMeasuring
    BY <2>1, <2>2, <2>5 DEF MeasurementDone, StartMeasuring, Advancing, Call
  <2>6. ASSUME NEW m \in Msms, StartNext(m) PROVE Call
    BY <2>6 DEF StartNext, Call
  <2>7. ASSUME NEW m \in Msms, TimePasses(m) PROVE Call
    BY <2>7 DEF TimePasses, Call
  <2>8. CASE \/ EnterLoop \/ Finish \/ WatchdogDone \/ FailsafePasses
             \/ FailsafeDone \/ StartNone \/ NothingToDo \/ AdvanceDone
             \/ PollFails \/ PollReturns \/ EventsDone \/ ConnectDone
             \/ SendAuth \/ TellConnect \/ SetBw \/ ClientWrites \/ Exited
             \/ \E c \in Metas : Connect(c) \/ Answered(c) \/ ResultRead(c)
    BY <2>8 DEF EnterLoop, Finish, WatchdogDone, FailsafePasses, FailsafeDone,
       StartNone, NothingToDo, MovedOn, AdvanceDone, PollFails, PollReturns,
       EventsDone, ConnectDone, SendAuth, TellConnect, SetBw, ClientWrites,
       Connect, Answered, ResultRead, HandledEvent, Exited, vars
  <2> QED
    BY <2>3, <2>4, <2>5, <2>6, <2>7, <2>8, FailuresUnderway DEF Next, Loop
<1> QED
  BY <1>1, CoordinatorInvariant, PTL DEF Spec, KeepsContract

\* So the coordinator never starts a measurement before those it depends on
\* are over, whatever the order in which they end.
THEOREM CoordinatorDependencies == Spec => DependsRespected
<1>1. Spec => SchedInit
  BY DEF Spec, Init
<1> QED
  BY <1>1, ContractKept, DependenciesFirst, PTL

-----------------------------------------------------------------------------

\* Removing the element a loop is at moves none that is still ahead to a place
\* behind.
LEMMA RemovalSkipsNone ==
  ASSUME NEW s \in Seq(Msms), NEW k \in DOMAIN s, NEW j \in DOMAIN s, j > k
  PROVE  \E l \in DOMAIN SwapRemove(s, k) : l >= k /\ SwapRemove(s, k)[l] = s[j]
<1>1. /\ Len(s) \in Nat /\ DOMAIN s = 1 .. Len(s) /\ k \in 1 .. Len(s)
      /\ j \in 1 .. Len(s)
  OBVIOUS
<1>2. /\ DOMAIN SwapRemove(s, k) = 1 .. (Len(s) - 1)
      /\ \A l \in 1 .. (Len(s) - 1) :
           SwapRemove(s, k)[l] = IF l = k THEN s[Len(s)] ELSE s[l]
  BY SwapRemoveType
<1>3. CASE j = Len(s)
  <2>1. k \in DOMAIN SwapRemove(s, k) /\ SwapRemove(s, k)[k] = s[j]
    BY <1>1, <1>2, <1>3
  <2> QED
    BY <1>1, <2>1
<1>4. CASE j # Len(s)
  <2>1. j \in DOMAIN SwapRemove(s, k) /\ SwapRemove(s, k)[j] = s[j]
    BY <1>1, <1>2, <1>4
  <2> QED
    BY <1>1, <2>1
<1> QED
  BY <1>3, <1>4

\* No loop over the array misses a measurement because another one ended.
THEOREM LoopsSkipNone == Spec => NoneSkipped
<1>1. IInv /\ [Next]_vars =>
        [pc' = pc /\ pc \in {"failsafe", "advance"} =>
           \A j \in DOMAIN known_m_ids : j > i => StillAhead(known_m_ids[j])]_vars
  <2> SUFFICES ASSUME IInv, Next, pc' = pc, pc \in {"failsafe", "advance"},
                      NEW j \in DOMAIN known_m_ids, j > i
               PROVE  StillAhead(known_m_ids[j])
    OBVIOUS
  <2>1. /\ known_m_ids \in Seq(Msms) /\ Distinct(known_m_ids) /\ i \in Nat
        /\ j \in Nat
    BY DEF IInv, DataInv, PlaceInv
  <2>2. ASSUME known_m_ids' = known_m_ids, i' \in {i, i + 1}
        PROVE  StillAhead(known_m_ids[j])
    BY <2>1, <2>2 DEF StillAhead
  <2>3. ASSUME i \in DOMAIN known_m_ids, i' = i,
               known_m_ids' = SwapRemove(known_m_ids, i)
        PROVE  StillAhead(known_m_ids[j])
    BY <2>1, <2>3, RemovalSkipsNone DEF StillAhead
  <2>4. CASE FailsafeFails
    <3>1. /\ i \in DOMAIN known_m_ids /\ i' = i
          /\ known_m_ids' = Without(known_m_ids, known_m_ids[i])
      BY <2>4 DEF FailsafeFails, InLoop, Current, measurement_failed
    <3>2. \A k \in DOMAIN known_m_ids : known_m_ids[k] = known_m_ids[i] => k = i
      BY <2>1, <3>1 DEF Distinct
    <3>3. (CHOOSE k \in DOMAIN known_m_ids : known_m_ids[k] = known_m_ids[i]) = i
      BY <3>1, <3>2
    <3>4. known_m_ids' = SwapRemove(known_m_ids, i)
      BY <3>1, <3>3 DEF Without, Range
    <3> QED
      BY <2>3, <3>1, <3>4
  <2>5. CASE MeasurementDone
    BY <2>3, <2>5 DEF MeasurementDone, RemoveCurrent, Advancing, InLoop
  <2>6. CASE FailsafePasses \/ TellConnect \/ SetBw \/ StartMeasuring \/ NothingToDo
    BY <2>2, <2>6 DEF FailsafePasses, TellConnect, SetBw, StartMeasuring,
                      NothingToDo, MovedOn
  <2>7. CASE ClientWrites \/ Exited \/ \E m \in Msms : TimePasses(m)
    BY <2>2, <2>7 DEF ClientWrites, TimePasses, Exited, vars, loop_vars
  <2>8. ~ (EnterLoop \/ Finish \/ WatchdogFails \/ WatchdogDone \/ FailsafeDone
           \/ StartNone \/ ConnectFails \/ ConnectDone \/ SendAuth \/ SendAuthFails
           \/ AdvanceDone \/ PollFails \/ PollReturns \/ EventsDone)
    BY DEF EnterLoop, Finish, WatchdogFails, WatchdogDone, FailsafeDone, StartNone,
           ConnectFails, ConnectDone, SendAuth, SendAuthFails, AdvanceDone,
           PollFails, PollReturns, EventsDone
  <2>9. ~ (TellConnectFails \/ SetBwFails \/ StartMeasuringFails)
    BY DEF TellConnectFails, SetBwFails, StartMeasuringFails, SendFails, Goto,
           Advancing
  <2>10. \A c \in Metas :
           ~ (Connect(c) \/ Answered(c) \/ ResultRead(c) \/ AnswerFails(c)
              \/ ResultFails(c))
    BY DEF Connect, Answered, ResultRead, AnswerFails, ResultFails
  <2>11. /\ \A m \in Msms : ~ StartNext(m)
         /\ \A file \in Schedules : ~ Startup(file)
    BY DEF StartNext, Startup
  <2> QED
    BY <2>4, <2>5, <2>6, <2>7, <2>8, <2>9, <2>10, <2>11 DEF Next, Loop
<1> QED
  BY <1>1, CoordinatorInvariant, PTL DEF Spec, NoneSkipped
=============================================================================
