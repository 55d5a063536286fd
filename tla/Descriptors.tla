---------------------------- MODULE Descriptors -----------------------------
(***************************************************************************)
(* The descriptors of the coordinator: Coordinator with the number that    *)
(* each socket has, what is registered with epoll, and how the client of   *)
(* an event is found from its descriptor.                                  *)
(*                                                                         *)
(* The kernel gives out the lowest number that is free, so that a number   *)
(* is used again as soon as its socket is closed.  A descriptor that no    *)
(* variable of the program holds any more is lost: it stays open for as    *)
(* long as the process runs.  "starved" is the end of the process for want *)
(* of a descriptor.                                                        *)
(***************************************************************************)
EXTENDS Coordinator, Integers

CONSTANT MaxFds   \* descriptors there may be, besides the three standard ones

\* Three are wanted at once when a round begins.
ASSUME DescriptorsAssumption == MaxFds \in Nat /\ MaxFds >= 3

VARIABLES
  fd_of,        \* ctrl_sock_meta.fd
  epoll_fd,
  out_fd,       \* the results
  peer,         \* for each open descriptor, the client it is connected to, or 0
  interesting,  \* authing_fds and the other three lists, by the state they are for
  registered,   \* what epoll watches
  reported,     \* what epoll_wait() returned, as far as it is not handled yet
  tried,        \* clients that could not be connected to for the current host
  lost          \* history: the number of descriptors lost

file_vars == <<epoll_fd, out_fd, lost>>
poll_vars == <<interesting, registered, reported>>
fd_vars == <<fd_of, peer, tried, file_vars, poll_vars>>

NoFd == -1
Fds == 0 .. (MaxFds - 1)
Free == Fds \ DOMAIN peer
Lowest(S) == CHOOSE f \in S : \A g \in S : f <= g
Listed == UNION {interesting[st] : st \in Awaited}

DescriptorsTypeOK ==
  /\ fd_of \in [Metas -> Fds \cup {NoFd}]
  /\ {epoll_fd, out_fd} \subseteq Fds \cup {NoFd}
  /\ DOMAIN peer \subseteq Fds /\ \A f \in DOMAIN peer : peer[f] \in Metas \cup {0}
  /\ interesting \in [Awaited -> SUBSET Fds]
  /\ registered \subseteq Fds /\ reported \subseteq Fds
  /\ tried \subseteq Metas /\ lost \in Nat

DescriptorsInit ==
  /\ Init
  /\ fd_of = [c \in Metas |-> NoFd]
  /\ epoll_fd = NoFd /\ out_fd = NoFd /\ lost = 0
  /\ peer = <<>>
  /\ interesting = [st \in Awaited |-> {}]
  /\ registered = {} /\ reported = {} /\ tried = {}

-----------------------------------------------------------------------------
(* Opening and closing.                                                    *)

Opened(S, c) == peer' = [f \in DOMAIN peer \cup S |-> IF f \in S THEN c ELSE peer[f]]

\* meta_with_fd(): the first client that has the descriptor, 0 if there is none.
meta_with_fd(f) ==
  LET metas == {c \in Metas : fd_of[c] = f} IN IF metas = {} THEN 0 ELSE Lowest(metas)

\* The clients for which a step of the loop calls tc_finished_with_meta().
Released == {c \in Metas : current_m_id[c] # 0 /\ current_m_id'[c] = 0}
ReleasedFds == {fd_of[c] : c \in Released}

\* (Mutants: the number is not forgotten; only clients that are done are closed.)
CloseAndKeepNumber ==
  /\ UNCHANGED fd_of
  /\ peer' = [f \in DOMAIN peer \ ReleasedFds |-> peer[f]]
CloseDone ==
  /\ fd_of' = Update(fd_of, Released, NoFd)
  /\ peer' = [f \in DOMAIN peer \ {fd_of[c] : c \in {d \in Released : state[d] = "done"}} |->
                peer[f]]

CloseReleased ==
  /\ fd_of' = Update(fd_of, Released, NoFd)
  /\ peer' = [f \in DOMAIN peer \ ReleasedFds |-> peer[f]]

\* (Mutant: a failing event leaves the loop without it.)
DeletedIfPolled == IF pc' = "top" /\ events' = events THEN Listed ELSE {}

\* Each way back to the top of the loop leads through main_loop_end, where the
\* descriptors in the lists are deleted from epoll.
Deleted == IF pc' = "top" THEN Listed ELSE {}

\* Closing a descriptor takes it out of epoll, too.
Unregister == registered' = registered \ (ReleasedFds \cup Deleted)

-----------------------------------------------------------------------------
(* Rounds.                                                                 *)

\* The descriptor of the client file is never closed; that of the schedule is
\* used again for the results.
StartRound(file) ==
  /\ Startup(file)
  /\ IF Accepts(file)
       THEN LET epoll == Lowest(Free)
                clients == Lowest(Free \ {epoll})
                results == Lowest(Free \ {epoll, clients})
            IN /\ Opened({epoll, clients, results}, 0)
               /\ epoll_fd' = epoll /\ out_fd' = results
               /\ lost' = lost + 1
               /\ fd_of' = [c \in Metas |-> NoFd]
       ELSE UNCHANGED <<peer, file_vars, fd_of>>
  /\ UNCHANGED <<poll_vars, tried>>

\* v3bw_generate() needs two descriptors, one of which is that of the results.
FinishRound ==
  /\ Finish
  /\ Free # {}
  /\ peer' = [f \in DOMAIN peer \ {epoll_fd, out_fd} |-> peer[f]]
  /\ epoll_fd' = NoFd /\ out_fd' = NoFd
  /\ registered' = {}
  /\ UNCHANGED <<fd_of, lost, interesting, reported, tried>>

\* The bandwidth file could not be opened, and the first fprintf() ends the process.
FinishStarved ==
  /\ pc = "top" /\ sched_finished
  /\ Free = {}
  /\ pc' = "starved"
  /\ UNCHANGED <<loop_vars, sched_vars, tc_vars, fd_vars>>

EnterNextLoop ==
  /\ EnterLoop
  /\ interesting' = [st \in Awaited |-> {}]
  /\ UNCHANGED <<fd_of, peer, tried, file_vars, registered, reported>>

-----------------------------------------------------------------------------
(* tc_next_available() and tc_make_socket().                               *)

\* The clients that may still be connected to for the host that is looked for.
Candidates == Available(Hosts[new_m_id][i].class) \ tried

\* The address cannot be resolved or the connection fails, and the socket stays
\* open; or there is no socket left.
TryFails(c) ==
  /\ pc = "connect" /\ Fillable(new_m_id) /\ i \in DOMAIN Hosts[new_m_id]
  /\ c \in Candidates /\ \A d \in Candidates : c <= d
  /\ tried' = tried \cup {c}
  /\ IF Free = {} THEN UNCHANGED <<peer, lost>>
                  ELSE Opened({Lowest(Free)}, 0) /\ lost' = lost + 1
  /\ UNCHANGED <<vars, fd_of, epoll_fd, out_fd, poll_vars>>

ConnectTo(c) ==
  /\ Connect(c)
  /\ c \in Candidates /\ \A d \in Candidates : c <= d
  /\ Free # {}
  /\ Opened({Lowest(Free)}, c)
  /\ fd_of' = [fd_of EXCEPT ![c] = Lowest(Free)]
  /\ tried' = {}
  /\ UNCHANGED <<file_vars, poll_vars>>

NoneConnects ==
  /\ ConnectFails
  /\ Fillable(new_m_id) => Candidates = {}
  /\ CloseReleased /\ Unregister
  /\ tried' = {}
  /\ UNCHANGED <<file_vars, interesting, reported>>

-----------------------------------------------------------------------------
(* The other steps of the loop.                                            *)

\* Commands are sent, and measurements that end have their sockets closed.
Turn ==
  /\ \/ WatchdogFails \/ WatchdogDone
     \/ FailsafeFails \/ FailsafePasses \/ FailsafeDone
     \/ StartNone \/ \E m \in Msms : StartNext(m)
     \/ ConnectDone \/ SendAuth \/ SendAuthFails
     \/ TellConnect \/ TellConnectFails \/ SetBw \/ SetBwFails
     \/ StartMeasuring \/ StartMeasuringFails \/ MeasurementDone \/ NothingToDo
  /\ CloseReleased /\ Unregister
  /\ UNCHANGED <<file_vars, interesting, reported, tried>>

\* (Mutant: the state of a client is not compared.)
FdsOfAll(st) == {fd_of[c] : c \in Metas}

\* The list that is built for a state.
FdsIn(st) == {fd_of[c] : c \in {d \in Metas : state[d] = st}}

\* The lists are built from the states of the clients, and given to epoll.
Register ==
  /\ AdvanceDone
  /\ interesting' = [st \in Awaited |-> FdsIn(st)]
  /\ registered' = registered \cup (Listed' \cap DOMAIN peer)
  /\ UNCHANGED <<fd_of, peer, tried, file_vars, reported>>

PollInVain ==
  /\ PollFails
  /\ Unregister
  /\ UNCHANGED <<fd_of, peer, tried, file_vars, interesting, reported>>

\* Reported is every descriptor that is watched and can be read.
PollReports ==
  /\ PollReturns
  /\ reported' = {f \in registered : peer[f] # 0 /\ inbox[peer[f]] # "none"}
  /\ UNCHANGED <<fd_of, peer, tried, file_vars, interesting, registered>>

HandleEvent(f) ==
  /\ f \in reported
  /\ LET meta == meta_with_fd(f) IN
       /\ meta \in Metas
       /\ Answered(meta) \/ ResultRead(meta) \/ AnswerFails(meta) \/ ResultFails(meta)
  /\ CloseReleased /\ Unregister
  /\ reported' = IF pc' = "top" THEN {} ELSE reported \ {f}
  /\ UNCHANGED <<file_vars, interesting, tried>>

AllHandled ==
  /\ EventsDone
  /\ Unregister
  /\ UNCHANGED <<fd_of, peer, tried, file_vars, interesting, reported>>

Around ==
  /\ ClientWrites \/ \E m \in Msms : TimePasses(m)
  /\ UNCHANGED fd_vars

Ended ==
  /\ pc \in {"starved", "aborted", "panicked"}
  /\ UNCHANGED <<vars, fd_vars>>

DescriptorsNext ==
  \/ \E file \in Schedules : StartRound(file)
  \/ FinishRound \/ FinishStarved
  \/ EnterNextLoop
  \/ \E c \in Metas : TryFails(c) \/ ConnectTo(c)
  \/ NoneConnects
  \/ Turn
  \/ Register \/ PollInVain \/ PollReports
  \/ \E f \in Fds : HandleEvent(f)
  \/ AllHandled
  \/ Around
  \/ Ended

DescriptorsSpec == DescriptorsInit /\ [][DescriptorsNext]_<<vars, fd_vars>>

-----------------------------------------------------------------------------

\* A client holds a descriptor exactly while it is in use, and that descriptor
\* is its own connection: a number that is given out again after a failure, a
\* time-out or a finished measurement never belongs to two clients.
HandlesHeld ==
  \A c \in Metas :
    /\ fd_of[c] = NoFd <=> state[c] = "invalid"
    /\ fd_of[c] # NoFd => fd_of[c] \in DOMAIN peer /\ peer[fd_of[c]] = c

\* Every event is handled for the client that wrote, by the function its state
\* calls for: meta_with_fd() finds it, and no other, and the descriptor is in the list
\* for its state and in no other.  The two messages for descriptors that are
\* nowhere to be found are never logged.
EventsReachTheirClient ==
  /\ events = {meta_with_fd(f) : f \in reported}
  /\ \A f \in reported :
       /\ f \in DOMAIN peer /\ meta_with_fd(f) = peer[f]
       /\ \A st \in Awaited : f \in interesting[st] <=> state[peer[f]] = st

\* epoll watches what is in the lists from the time they are given to it until
\* the loop starts over, and nothing in between: not a client whose measurement
\* has nothing to read yet, and no descriptor that was closed.
WatchesTheListed ==
  pc \notin {"starved", "aborted"} =>
    registered = IF pc \in {"poll", "events"} THEN Listed ELSE {}

Held == {epoll_fd, out_fd} \cup {fd_of[c] : c \in Metas}

\* Whatever paths measurements end on, the only descriptors that are lost are
\* one for each connection that failed and one for each client file read.  When
\* all but two are lost the process ends, but never before, and always with the
\* bandwidth file: a round that begins has the descriptors it needs.
LossesAccounted ==
  /\ Cardinality(DOMAIN peer \ Held) = lost
  /\ pc = "starved" => lost = MaxFds - 2
  /\ pc \in {"startup", "finished"} => Cardinality(Free) >= 3
=============================================================================
