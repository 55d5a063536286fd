----------------------- MODULE CoordinatorProperties ------------------------
(***************************************************************************)
(* What the main loop must never do, and what it must get done.            *)
(***************************************************************************)
EXTENDS Coordinator, SchedProperties

Known == Range(known_m_ids)

\* The measurements the coordinator is responsible for at this moment.
Underway == Known \cup ({new_m_id} \ {0})

\* No assertion of the program fails: every state change is one that
\* tc_change_state() allows, every host is assigned a client, every client
\* has been told, and no measurement is reported done to the scheduler twice.
NeverAborts == pc # "aborted"

\* A client is in use exactly when its socket is open, and only by a
\* measurement that is under way: whatever path a measurement ended on, and
\* however few of its clients were connected by then, none is left behind.
NoOrphanedClient ==
  \A c \in Metas :
    /\ (current_m_id[c] = 0) <=> (state[c] = "invalid")
    /\ current_m_id[c] # 0 => current_m_id[c] \in Underway

\* The array and the scheduler agree: what the scheduler has handed out and
\* not been told about again is in known_m_ids, once, or being connected.
KnownMatchesSched ==
  /\ {m \in Msms : msm_state[m] = "InProgress"} = Underway
  /\ \A j, k \in DOMAIN known_m_ids : known_m_ids[j] = known_m_ids[k] => j = k
  /\ pc = "connect" => new_m_id \notin Known

\* A known measurement has exactly one client for each host it asks for, of
\* that host's class, from the moment it is known until it ends.
FullCrew ==
  \A m \in Known :
    \E f \in [DOMAIN Hosts[m] -> Crew(m)] :
      /\ \A j, k \in DOMAIN Hosts[m] : f[j] = f[k] => j = k
      /\ \A c \in Crew(m) : \E k \in DOMAIN Hosts[m] : f[k] = c
      /\ \A k \in DOMAIN Hosts[m] : Class[f[k]] = Hosts[m][k].class

\* The array never outgrows the number of clients, hence its allocation.
KnownFits == Len(known_m_ids) <= NumMetas

Stages == {{"connected"}, {"authing", "authed"},
           {"told_connect_target", "connected_target"},
           {"setting_bw", "bw_set"}, {"measuring", "done"}}

\* The clients of a measurement go through the handshake in step: none is
\* sent the next command before every one has answered the last.
LockStep ==
  \A m \in Known : \E stage \in Stages : \A c \in Crew(m) : state[c] \in stage

\* The two passes that hand out host slots agree: each slot's number of
\* connections goes to one client of its class, and its bandwidth to the same.
SlotsToldOnce ==
  \A m \in Known : \A c \in Crew(m) :
    /\ bw_of[c] # 0 => bw_of[c] = nconn_of[c]
    /\ nconn_of[c] # 0 => Hosts[m][nconn_of[c]].class = Class[c]
    /\ \A d \in Crew(m) :
         nconn_of[c] # 0 /\ d # c => nconn_of[d] \notin {0, nconn_of[c]}

\* Every event still to be handled is about an open socket that is waited on
\* and can be read without blocking, however the events before it turned out.
EventsAreCurrent == \A c \in events : state[c] \in Awaited /\ inbox[c] # "none"

\* The coordinator never goes to sleep on a measurement it should advance:
\* when it polls, every known measurement has a client that is waited on.
NobodyForgotten ==
  pc = "poll" => \A m \in Known : Crew(m) \cap Awaiting # {}

\* Each measurement of the file is counted once, as a success or a failure.
Tally ==
  count_success + count_failure =
    Cardinality({m \in loaded : msm_state[m] = "Complete"})

\* Removing a measurement from the array in the middle of a loop over it never
\* makes the loop miss one it had still to visit.
StillAhead(m) == \E j \in DOMAIN known_m_ids' : j >= i' /\ known_m_ids'[j] = m
NoneSkipped ==
  [][pc' = pc /\ pc \in {"failsafe", "advance"} =>
       \A j \in DOMAIN known_m_ids : j > i => StillAhead(known_m_ids[j])]_vars

\* A measurement that has been handed out ends, whatever its clients do.
EveryMeasurementEnds ==
  \A m \in Msms : msm_state[m] = "InProgress" ~> msm_state[m] = "Complete"

\* A round with a satisfiable schedule ends, whatever the clients do.
RoundEnds == (pc = "top" /\ ~ Unsatisfiable) ~> pc = "finished"

-----------------------------------------------------------------------------
(* The coordinator implements the campaign.                                *)

RunningCrew(m) == \E c \in Crew(m) : state[c] \in {"measuring", "done"}

CampaignPhase(m) ==
  CASE msm_state[m] = "Absent" -> "absent"
    [] msm_state[m] = "Waiting" -> "waiting"
    [] msm_state[m] = "Complete" -> "over"
    [] msm_state[m] = "InProgress" -> IF RunningCrew(m) THEN "running"
                                                        ELSE "recruiting"

Promise == INSTANCE Campaign WITH
  Clients <- Metas,
  phase <- [m \in Msms |-> CampaignPhase(m)],
  crew <- [m \in Msms |-> Crew(m)],
  reported <- {c \in Metas : state[c] = "done"},
  successes <- count_success,
  failures <- count_failure

\* Every step of the main loop is a step of the campaign, or none: whatever the
\* order of answers, failures and time-outs, a measurement begins only after
\* its dependencies, never shares a client, starts with its whole crew, and
\* counts as a success only when all of it has reported the end.
ImplementsCampaign == Promise!Spec

-----------------------------------------------------------------------------
(* What the comments and assertions of torclient.c say, and the code does    *)
(* not do.                                                                   *)

\* The clients chosen for a measurement have been authenticated to: the
\* comment of tc_next_available().
ChosenAreAuthed ==
  pc = "auth" => \A c \in Crew(new_m_id) : state[c] = "authed"

\* A client is authenticated only by a good answer: the comment of
\* tc_authed_socket().
OnlyGoodAnswers ==
  [][\A c \in Metas :
       state[c] = "authing" /\ state'[c] = "authed" => inbox[c] = "good"]_vars

\* A background client is never told to make more than one connection: the
\* assertion in tc_tell_connect() holds for every schedule that was accepted.
BackgroundHasOneConn == NeverAborts
=============================================================================
