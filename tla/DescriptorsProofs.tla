------------------------- MODULE DescriptorsProofs --------------------------
(***************************************************************************)
(* The descriptors of the coordinator are right for every schedule, list   *)
(* of clients and number of descriptors: each connection is found from its *)
(* number, epoll watches what it is meant to, and what is lost is counted. *)
(***************************************************************************)
EXTENDS Descriptors, CrewProofs

-----------------------------------------------------------------------------
(* The inductive invariant.                                                *)

\* A descriptor is a client's exactly when the client holds it.
Handles ==
  /\ fd_of \in [Metas -> Fds \cup {NoFd}]
  /\ DOMAIN peer \subseteq Fds
  /\ \A f \in DOMAIN peer : peer[f] \in Metas \cup {0}
  /\ HandlesHeld
  /\ \A f \in DOMAIN peer : peer[f] # 0 => fd_of[peer[f]] = f

\* The two descriptors of a round are open from its beginning to its end.
BetweenRounds == {"startup", "finished", "panicked"}
Files ==
  IF pc \in BetweenRounds
    THEN epoll_fd = NoFd /\ out_fd = NoFd
    ELSE /\ {epoll_fd, out_fd} \subseteq DOMAIN peer
         /\ epoll_fd # out_fd
         /\ peer[epoll_fd] = 0 /\ peer[out_fd] = 0

\* The lists agree with the states of the clients until the first event is handled.
ListedByState == [st \in Awaited |-> {fd_of[c] : c \in {d \in Metas : state[d] = st}}]
Polled ==
  /\ interesting \in [Awaited -> SUBSET Fds]
  /\ registered \subseteq Fds /\ reported \subseteq Fds
  /\ pc = "poll" => interesting = ListedByState
  /\ WatchesTheListed
  /\ EventsReachTheirClient

Counted == tried \subseteq Metas /\ lost \in Nat /\ LossesAccounted

FdInv == Handles /\ Files /\ Polled /\ Counted

\* Until it is starved the process is the coordinator's.
Running == pc # "starved" => IInv /\ CrewInv
-----------------------------------------------------------------------------
(* The numbers of descriptors.                                             *)

\* The lowest member of a set of numbers is one of them.
LEMMA LowestIn ==
  ASSUME NEW S, S \subseteq Nat, IsFiniteSet(S), S # {}
  PROVE  Lowest(S) \in S
<1>1. Cardinality(S) \in Nat /\ Cardinality(S) # 0
  BY FS_CardinalityType, FS_EmptySet
<1>2. 0 \in 0 .. (Cardinality(S) - 1)
  BY <1>1
<1>3. PICK x \in S : Rank(S, x) = 0
  BY <1>2, RankOnto
<1>4. \A y \in S : ~ y < x
  <2>1. {y \in S : y < x} \in SUBSET S
    OBVIOUS
  <2>2. IsFiniteSet({y \in S : y < x})
    BY <2>1, FS_Subset
  <2>3. {y \in S : y < x} = {}
    BY <1>3, <2>2, FS_EmptySet DEF Rank
  <2> QED
    BY <2>3
<1>5. \A y \in S : x <= y
  BY <1>4
<1> QED
  BY <1>5 DEF Lowest

\* Descriptors are finitely many, and the lowest that is free is one of them.
LEMMA FdsFinite ==
  /\ Fds \subseteq Nat /\ NoFd \notin Fds /\ Metas \subseteq Nat \ {0}
  /\ IsFiniteSet(Fds) /\ Cardinality(Fds) = MaxFds
  /\ \A S \in SUBSET Fds : IsFiniteSet(S) /\ Cardinality(S) \in Nat
  /\ \A S \in SUBSET Fds : S # {} => Lowest(S) \in S
<1>1. MaxFds \in Nat /\ MaxFds >= 3 /\ MaxFds - 1 \in Int /\ 0 \in Int
  BY DescriptorsAssumption
<1>2. IsFiniteSet(Fds) /\ Cardinality(Fds) = MaxFds
  <2>1. /\ IsFiniteSet(0 .. (MaxFds - 1))
        /\ Cardinality(0 .. (MaxFds - 1)) =
             IF 0 > MaxFds - 1 THEN 0 ELSE MaxFds - 1 - 0 + 1
    BY <1>1, FS_Interval
  <2> QED
    BY <1>1, <2>1 DEF Fds
<1>3. Fds \subseteq Nat /\ NoFd \notin Fds
  BY <1>1 DEF Fds, NoFd
<1>4. \A S \in SUBSET Fds : IsFiniteSet(S) /\ Cardinality(S) \in Nat
  BY <1>2, FS_Subset, FS_CardinalityType
<1>5. \A S \in SUBSET Fds : S # {} => Lowest(S) \in S
  BY <1>3, <1>4, LowestIn
<1>6. Metas \subseteq Nat \ {0}
  BY TorClientAssumption DEF Metas
<1> QED
  BY <1>2, <1>3, <1>4, <1>5, <1>6

\* meta_with_fd() finds the client whose connection a descriptor is.
LEMMA MetaWithFd ==
  ASSUME Handles, NEW f \in DOMAIN peer, peer[f] # 0
  PROVE  meta_with_fd(f) = peer[f] /\ peer[f] \in Metas /\ fd_of[peer[f]] = f
<1> DEFINE c == peer[f]
<1>1. c \in Metas /\ fd_of[c] = f /\ f # NoFd
  BY FdsFinite DEF Handles
<1>2. {d \in Metas : fd_of[d] = f} = {c}
  BY <1>1 DEF Handles, HandlesHeld
<1>3. Lowest({c}) = c
  BY <1>1, FdsFinite DEF Lowest
<1> QED
  BY <1>1, <1>2, <1>3 DEF meta_with_fd

-----------------------------------------------------------------------------
(* What a step does to the clients' descriptors.                           *)

\* Steps of the coordinator keep a client's use and its state together.
LEMMA ClientsAgree ==
  ASSUME IInv
  PROVE  \A c \in Metas : (current_m_id[c] = 0) <=> (state[c] = "invalid")
BY DEF IInv, DataInv, ClientInv, UsedIffOpen

\* When sockets are neither opened nor closed, no descriptor changes hands.
LEMMA HandlesStay ==
  ASSUME Handles, UNCHANGED <<fd_of, peer, epoll_fd, out_fd>>,
         \A c \in Metas : (state'[c] = "invalid") <=> (state[c] = "invalid")
  PROVE  /\ Handles'
         /\ Held' = Held /\ Free' = Free
         /\ \A f : meta_with_fd(f)' = meta_with_fd(f)
BY DEF Handles, HandlesHeld, Held, Free, meta_with_fd

\* The clients that are released close their descriptors and no others, and
\* none of them is lost.
LEMMA ReleaseHandles ==
  ASSUME IInv, IInv', Handles, CloseReleased, UNCHANGED <<epoll_fd, out_fd>>,
         \A c \in Metas : current_m_id'[c] \in {0, current_m_id[c]}
  PROVE  /\ Handles'
         /\ DOMAIN peer' \ Held' = DOMAIN peer \ Held
         /\ \A f \in DOMAIN peer : peer[f] = 0 => f \in DOMAIN peer' /\ peer'[f] = 0
<1>1. /\ \A c \in Metas : fd_of'[c] = IF c \in Released THEN NoFd ELSE fd_of[c]
      /\ fd_of' \in [Metas -> Fds \cup {NoFd}]
      /\ DOMAIN peer' = DOMAIN peer \ ReleasedFds
      /\ \A f \in DOMAIN peer' : peer'[f] = peer[f]
  BY DEF CloseReleased, Update, Handles
<1>2. \A c \in Metas : c \in Released <=> state[c] # "invalid" /\ state'[c] = "invalid"
  BY ClientsAgree DEF Released, IInv, DataInv, ClientInv, UsedIffOpen
<1>3. \A c \in Metas : state[c] = "invalid" => state'[c] = "invalid"
  BY ClientsAgree DEF IInv, DataInv, ClientInv, UsedIffOpen
<1>4. \A c \in Metas : /\ fd_of[c] = NoFd <=> state[c] = "invalid"
                       /\ fd_of[c] # NoFd => fd_of[c] \in DOMAIN peer /\ peer[fd_of[c]] = c
  BY DEF Handles, HandlesHeld
<1>5. \A f \in DOMAIN peer : f # NoFd /\ peer[f] \in Metas \cup {0} /\ f \in Fds
  BY FdsFinite DEF Handles
<1>6. Released \subseteq Metas /\ 0 \notin Metas
  BY FdsFinite DEF Released
<1>7. \A f \in DOMAIN peer : f \in ReleasedFds <=> peer[f] \in Released
  <2> SUFFICES ASSUME NEW f \in DOMAIN peer
               PROVE  f \in ReleasedFds <=> peer[f] \in Released
    OBVIOUS
  <2>1. ASSUME NEW c \in Released, f = fd_of[c] PROVE peer[f] = c
    BY <1>4, <1>5, <1>6, <2>1
  <2>2. ASSUME peer[f] \in Released PROVE fd_of[peer[f]] = f
    BY <1>6, <2>2 DEF Handles
  <2> QED
    BY <2>1, <2>2 DEF ReleasedFds
<1>8. HandlesHeld'
  <2> SUFFICES ASSUME NEW c \in Metas
               PROVE  /\ fd_of'[c] = NoFd <=> state'[c] = "invalid"
                      /\ fd_of'[c] # NoFd => fd_of'[c] \in DOMAIN peer' /\ peer'[fd_of'[c]] = c
    BY DEF HandlesHeld, NoFd
  <2>1. CASE c \in Released
    BY <1>1, <1>2, <2>1
  <2>2. CASE c \notin Released
    BY <1>1, <1>2, <1>3, <1>4, <1>7, <2>2
  <2> QED
    BY <2>1, <2>2
<1>9. \A f \in DOMAIN peer' : peer'[f] # 0 => fd_of'[peer'[f]] = f
  BY <1>1, <1>5, <1>7 DEF Handles
<1>10. Handles'
  BY <1>1, <1>5, <1>8, <1>9 DEF Handles, Fds, NoFd
<1>11. \A f \in DOMAIN peer \ ReleasedFds :
         (\E c \in Metas : f = fd_of'[c]) <=> (\E c \in Metas : f = fd_of[c])
  BY <1>1, <1>5, <1>6 DEF ReleasedFds
<1>12. ReleasedFds \subseteq Held
  BY <1>6 DEF ReleasedFds, Held
<1>13. DOMAIN peer' \ Held' = DOMAIN peer \ Held
  <2>1. Held' = {epoll_fd, out_fd} \cup {fd_of'[c] : c \in Metas}
    BY DEF Held
  <2>2. Held = {epoll_fd, out_fd} \cup {fd_of[c] : c \in Metas}
    BY DEF Held
  <2> QED
    BY <1>1, <1>11, <1>12, <2>1, <2>2
<1>14. ASSUME NEW f \in DOMAIN peer, peer[f] = 0
       PROVE  f \in DOMAIN peer' /\ peer'[f] = 0
  BY <1>1, <1>6, <1>7, <1>14
<1> QED
  BY <1>10, <1>13, <1>14

\* The client that is connected to gets a descriptor that was free.
LEMMA ConnectHandles ==
  ASSUME IInv, IInv', Handles, NEW c \in Metas, ConnectTo(c)
  PROVE  /\ Handles'
         /\ DOMAIN peer' \ Held' = DOMAIN peer \ Held
         /\ \A f \in DOMAIN peer : peer[f] = 0 => f \in DOMAIN peer' /\ peer'[f] = 0
<1> DEFINE n == Lowest(Free)
<1>1. n \in Fds /\ n \notin DOMAIN peer /\ n # NoFd
  BY FdsFinite DEF ConnectTo, Free
<1>2. /\ current_m_id[c] = 0 /\ state'[c] = "connected"
      /\ \A d \in Metas \ {c} : state'[d] = state[d]
  BY DEF ConnectTo, Connect, tc_next_available, Available, IInv, DataInv, ClientInv,
         TorClientTypeOK
<1>3. state[c] = "invalid" /\ fd_of[c] = NoFd /\ 0 \notin Metas
  BY <1>2, ClientsAgree, FdsFinite DEF Handles, HandlesHeld
<1>4. /\ fd_of' \in [Metas -> Fds \cup {NoFd}]
      /\ \A d \in Metas : fd_of'[d] = IF d = c THEN n ELSE fd_of[d]
      /\ DOMAIN peer' = DOMAIN peer \cup {n}
      /\ peer'[n] = c /\ \A f \in DOMAIN peer : peer'[f] = peer[f]
  BY <1>1 DEF ConnectTo, Opened, Handles
<1> HIDE DEF n
<1>5. HandlesHeld'
  BY <1>1, <1>2, <1>3, <1>4 DEF Handles, HandlesHeld, NoFd
<1>6. \A f \in DOMAIN peer : peer[f] # c
  BY <1>1, <1>3, FdsFinite DEF Handles
<1>7. Handles'
  BY <1>1, <1>4, <1>5, <1>6 DEF Handles, Fds, NoFd
<1>8. DOMAIN peer' \ Held' = DOMAIN peer \ Held
  <2>1. \A f : (\E d \in Metas : f = fd_of'[d]) <=>
                 (f = n \/ \E d \in Metas \ {c} : f = fd_of[d])
    BY <1>4
  <2>2. \A f \in DOMAIN peer : f # n /\ f # NoFd
    BY <1>1, FdsFinite DEF Handles
  <2>3. UNCHANGED <<epoll_fd, out_fd>>
    BY DEF ConnectTo, file_vars
  <2>4. Held' = {epoll_fd, out_fd} \cup {fd_of'[d] : d \in Metas}
    BY <2>3 DEF Held
  <2>5. Held = {epoll_fd, out_fd} \cup {fd_of[d] : d \in Metas}
    BY DEF Held
  <2> QED
    BY <1>3, <1>4, <2>1, <2>2, <2>4, <2>5
<1> QED
  BY <1>4, <1>7, <1>8

-----------------------------------------------------------------------------
(* The steps of a round.                                                   *)

\* At the start every descriptor is free.
LEMMA InitFds == DescriptorsInit => FdInv
<1> SUFFICES ASSUME DescriptorsInit PROVE FdInv
  OBVIOUS
<1>1. /\ pc = "startup" /\ events = {} /\ \A c \in Metas : state[c] = "invalid"
  BY DEF DescriptorsInit, Init, TorClientInit
<1>2. /\ peer = <<>> /\ DOMAIN peer = {} /\ lost = 0 /\ tried = {}
      /\ registered = {} /\ reported = {} /\ epoll_fd = NoFd /\ out_fd = NoFd
      /\ interesting = [st \in Awaited |-> {}] /\ fd_of = [c \in Metas |-> NoFd]
  BY DEF DescriptorsInit
<1>3. Handles
  BY <1>1, <1>2 DEF Handles, HandlesHeld
<1>4. Files
  BY <1>1, <1>2 DEF Files, BetweenRounds
<1>5. Polled
  BY <1>1, <1>2 DEF Polled, WatchesTheListed, EventsReachTheirClient
<1>6. Counted
  <2>1. Free = Fds /\ DOMAIN peer \ Held = {}
    BY <1>2 DEF Free
  <2> QED
    BY <1>1, <1>2, <2>1, FdsFinite, FS_EmptySet, DescriptorsAssumption
    DEF Counted, LossesAccounted
<1> QED
  BY <1>3, <1>4, <1>5, <1>6 DEF FdInv

\* Between rounds no client is in use.
LEMMA NoneInUse ==
  ASSUME IInv, Handles, sched_finished, pc \in {"startup", "top", "finished"}
  PROVE  \A c \in Metas : fd_of[c] = NoFd /\ state[c] = "invalid"
<1>1. \A m \in Underway : FALSE
  BY UnderwayFacts DEF sched_finished
<1> QED
  BY <1>1, UnderwayFacts DEF Handles, HandlesHeld

\* No event is left at a place where none is handled, and none is reported.
LEMMA NoneReported ==
  ASSUME IInv, Polled, pc \notin {"events", "aborted"}
  PROVE  events = {} /\ reported = {}
<1>1. events = {}
  BY DEF IInv, PlaceInv
<1> QED
  BY <1>1 DEF Polled, EventsReachTheirClient

-----------------------------------------------------------------------------
(* What steps of one kind have in common.                                  *)

\* In the middle of a round nothing is lost without being counted.
LEMMA OpenStep ==
  ASSUME FdInv, Handles', tried' \subseteq Metas, UNCHANGED <<epoll_fd, out_fd, lost>>,
         DOMAIN peer' \ Held' = DOMAIN peer \ Held,
         \A f \in DOMAIN peer : peer[f] = 0 => f \in DOMAIN peer' /\ peer'[f] = 0,
         pc \notin BetweenRounds, pc' \notin BetweenRounds, pc' # "starved"
  PROVE  Files' /\ Counted'
<1>1. Files'
  BY DEF FdInv, Files, BetweenRounds
<1>2. Counted'
  BY DEF FdInv, Counted, LossesAccounted, BetweenRounds
<1> QED
  BY <1>1, <1>2

\* Outside of the polling nothing is watched or reported.
LEMMA UnpolledStep ==
  ASSUME IInv, Polled, UNCHANGED <<interesting, reported, events>>,
         registered' \subseteq registered,
         pc \notin {"poll", "events", "aborted", "starved"}, pc' \notin {"poll", "events"}
  PROVE  Polled'
<1>1. registered = {} /\ registered' = {}
  BY DEF Polled, WatchesTheListed
<1>2. events' = {} /\ reported' = {}
  BY NoneReported
<1> QED
  BY <1>1, <1>2 DEF Polled, WatchesTheListed, EventsReachTheirClient, Fds

\* A step that does not concern the descriptors.
LEMMA StillFds ==
  ASSUME FdInv, UNCHANGED <<pc, fd_vars, state, events>>
  PROVE  FdInv'
<1>1. UNCHANGED <<fd_of, peer, tried, epoll_fd, out_fd, lost, interesting, registered, reported>>
  BY DEF fd_vars, file_vars, poll_vars
<1>2. Handles' /\ Held' = Held /\ Free' = Free /\ \A f : meta_with_fd(f)' = meta_with_fd(f)
  BY <1>1, HandlesStay DEF FdInv
<1>3. Files'
  BY <1>1 DEF FdInv, Files
<1>4. Counted'
  BY <1>1, <1>2 DEF FdInv, Counted, LossesAccounted
<1>5. Polled'
  <2>1. Listed' = Listed /\ ListedByState' = ListedByState
    BY <1>1 DEF Listed, ListedByState
  <2>2. WatchesTheListed'
    BY <1>1, <2>1 DEF FdInv, Polled, WatchesTheListed
  <2>3. EventsReachTheirClient'
    BY <1>1, <1>2 DEF FdInv, Polled, EventsReachTheirClient
  <2> QED
    BY <1>1, <2>1, <2>2, <2>3 DEF FdInv, Polled, Fds
<1> QED
  BY <1>2, <1>3, <1>4, <1>5 DEF FdInv

\* Without two members a set has two fewer.
LEMMA TwoFewer ==
  ASSUME NEW S, IsFiniteSet(S), NEW a, NEW b
  PROVE  /\ Cardinality(S) \in Nat /\ Cardinality(S \ {a, b}) \in Nat
         /\ Cardinality(S \ {a, b}) >= Cardinality(S) - 2
         /\ a \in S /\ b \in S /\ a # b => Cardinality(S \ {a, b}) = Cardinality(S) - 2
<1> DEFINE T == S \ {a}
<1>1. S \ {a, b} = T \ {b} /\ (b # a => (b \in T <=> b \in S))
  OBVIOUS
<1>2. /\ IsFiniteSet(T)
      /\ Cardinality(T) = IF a \in S THEN Cardinality(S) - 1 ELSE Cardinality(S)
  BY FS_RemoveElement
<1> HIDE DEF T
<1>3. /\ IsFiniteSet(T \ {b})
      /\ Cardinality(T \ {b}) = IF b \in T THEN Cardinality(T) - 1 ELSE Cardinality(T)
  BY <1>2, FS_RemoveElement
<1>4. Cardinality(S) \in Nat /\ Cardinality(T) \in Nat /\ Cardinality(T \ {b}) \in Nat
  BY <1>2, <1>3, FS_CardinalityType
<1>5. /\ Cardinality(T \ {b}) >= Cardinality(S) - 2
      /\ a \in S /\ b \in T => Cardinality(T \ {b}) = Cardinality(S) - 2
  BY <1>2, <1>3, <1>4
<1> QED
  BY <1>1, <1>4, <1>5

\* A set has three members exactly when there is one besides any two.
LEMMA ThreeMembers ==
  ASSUME NEW S, IsFiniteSet(S)
  PROVE  /\ Cardinality(S) >= 3 => \A a, b : S \ {a, b} # {}
         /\ \A a, b, c \in S : a # b /\ a # c /\ b # c => Cardinality(S) >= 3
<1>1. ASSUME Cardinality(S) >= 3, NEW a, NEW b PROVE S \ {a, b} # {}
  <2>1. /\ Cardinality(S) \in Nat /\ Cardinality(S \ {a, b}) \in Nat
        /\ Cardinality(S \ {a, b}) >= Cardinality(S) - 2
    BY TwoFewer
  <2>2. Cardinality(S \ {a, b}) # 0
    BY <1>1, <2>1
  <2> QED
    BY <2>2, FS_EmptySet
<1>2. ASSUME NEW a \in S, NEW b \in S, NEW c \in S, a # b, a # c, b # c
      PROVE  Cardinality(S) >= 3
  <2>1. /\ Cardinality(S) \in Nat /\ Cardinality(S \ {a, b}) \in Nat
        /\ Cardinality(S \ {a, b}) = Cardinality(S) - 2
    BY <1>2, TwoFewer
  <2>2. IsFiniteSet(S \ {a, b}) /\ c \in S \ {a, b}
    BY <1>2, FS_Subset
  <2>3. Cardinality(S \ {a, b}) # 0
    BY <2>2, FS_EmptySet
  <2> QED
    BY <2>1, <2>3
<1> QED
  BY <1>1, <1>2

-----------------------------------------------------------------------------
(* The begin and the end of a round.                                       *)

\* A round that begins opens three files, one of which nobody closes again.
LEMMA StartRoundFds ==
  ASSUME IInv, IInv', FdInv, NEW file \in Schedules, StartRound(file)
  PROVE  FdInv'
<1>1. /\ pc \in {"startup", "finished"} /\ sched_finished
      /\ UNCHANGED <<interesting, registered, reported, tried>>
      /\ Handles /\ Files /\ Polled /\ Counted
      /\ epoll_fd = NoFd /\ out_fd = NoFd
  BY DEF StartRound, Startup, poll_vars, IInv, PlaceInv, FdInv, Files, BetweenRounds
<1>2. /\ \A c \in Metas : fd_of[c] = NoFd /\ state[c] = "invalid"
      /\ events = {} /\ reported = {}
  BY <1>1, NoneInUse, NoneReported
<1>3. CASE Accepts(file)
  <2>1. /\ pc' = "top" /\ events' = {} /\ \A c \in Metas : state'[c] = "invalid"
        /\ fd_of' = [c \in Metas |-> NoFd] /\ lost' = lost + 1
    BY <1>3 DEF StartRound, Startup, tc_client_file_read
  <2> DEFINE e == Lowest(Free)
             c == Lowest(Free \ {e})
             r == Lowest(Free \ {e, c})
  <2>2. /\ DOMAIN peer' = DOMAIN peer \cup {e, c, r}
        /\ \A f \in DOMAIN peer' : peer'[f] = IF f \in {e, c, r} THEN 0 ELSE peer[f]
        /\ epoll_fd' = e /\ out_fd' = r
    BY <1>3 DEF StartRound, Opened
  <2>3. e \in Free /\ c \in Free \ {e} /\ r \in Free \ {e, c}
    <3>1. Free \in SUBSET Fds /\ IsFiniteSet(Free) /\ Cardinality(Free) >= 3
      BY <1>1, FdsFinite DEF Free, Counted, LossesAccounted
    <3>2. \A a, b : Free \ {a, b} # {}
      BY <3>1, ThreeMembers
    <3>3. Free \ {e, e} # {} /\ Free \ {e, c} # {}
      BY <3>2
    <3>4. Free # {} /\ Free \ {e} # {}
      BY <3>3
    <3>5. \A T \in SUBSET Free : T # {} => Lowest(T) \in T
      BY <3>1, FdsFinite
    <3> HIDE DEF e
    <3>6. c \in Free \ {e}
      BY <3>4, <3>5
    <3> HIDE DEF c
    <3> QED
      BY <3>3, <3>4, <3>5, <3>6 DEF e
  <2> HIDE DEF e, c, r
  <2>4. Handles'
    <3>1. \A f \in DOMAIN peer : peer[f] = 0
      BY <1>1, <1>2, FdsFinite DEF Handles
    <3> QED
      BY <1>1, <2>1, <2>2, <2>3, <3>1, FdsFinite DEF Handles, HandlesHeld, Free, Fds, NoFd
  <2>5. Files'
    BY <2>1, <2>2, <2>3 DEF Files, BetweenRounds
  <2>6. Polled'
    BY <1>1, <1>2, <2>1, UnpolledStep
  <2>7. Counted'
    <3>1. Held = {NoFd} \/ Held = {NoFd, NoFd}
      BY <1>1, <1>2 DEF Held
    <3>2. DOMAIN peer \ Held = DOMAIN peer
      BY <1>1, <3>1, FdsFinite DEF Handles
    <3>3. \A f \in Fds : f \in Held' <=> f \in {e, r}
      BY <2>1, <2>2, FdsFinite DEF Held
    <3>4. DOMAIN peer' \ Held' = DOMAIN peer \cup {c} /\ c \notin DOMAIN peer
      BY <1>1, <2>2, <2>3, <3>3 DEF Handles, Free
    <3>5. Cardinality(DOMAIN peer \cup {c}) = lost + 1
      BY <1>1, <3>2, <3>4, FdsFinite, FS_AddElement DEF Handles, Counted, LossesAccounted
    <3> QED
      BY <1>1, <2>1, <3>4, <3>5 DEF Counted, LossesAccounted
  <2> QED
    BY <2>4, <2>5, <2>6, <2>7 DEF FdInv
<1>4. CASE ~ Accepts(file)
  <2>1. pc' = "panicked" /\ UNCHANGED <<fd_of, peer, epoll_fd, out_fd, lost, state, events>>
    BY <1>4 DEF StartRound, Startup, file_vars, loop_vars, tc_vars
  <2>2. Handles' /\ Held' = Held /\ Free' = Free
    BY <1>1, <2>1, HandlesStay
  <2>3. Polled'
    BY <1>1, <1>2, <2>1, UnpolledStep
  <2>4. Files' /\ Counted'
    BY <1>1, <2>1, <2>2 DEF Files, BetweenRounds, Counted, LossesAccounted
  <2> QED
    BY <2>2, <2>3, <2>4 DEF FdInv
<1> QED
  BY <1>3, <1>4

\* A round that ends closes two of them, so that three are free.
LEMMA FinishRoundFds ==
  ASSUME IInv, FdInv, FinishRound
  PROVE  FdInv'
<1>1. /\ pc = "top" /\ pc' = "finished" /\ UNCHANGED <<state, events>>
      /\ UNCHANGED <<fd_of, lost, interesting, reported, tried>>
      /\ registered' = {} /\ epoll_fd' = NoFd /\ out_fd' = NoFd
      /\ Free # {}
      /\ DOMAIN peer' = DOMAIN peer \ {epoll_fd, out_fd}
      /\ \A f \in DOMAIN peer' : peer'[f] = peer[f]
      /\ Handles /\ Files /\ Polled /\ Counted
  BY DEF FinishRound, Finish, loop_vars, tc_vars, FdInv
<1>2. /\ {epoll_fd, out_fd} \subseteq DOMAIN peer /\ epoll_fd # out_fd
      /\ peer[epoll_fd] = 0 /\ peer[out_fd] = 0
  BY <1>1 DEF Files, BetweenRounds
<1>3. \A c \in Metas : fd_of[c] \notin {epoll_fd, out_fd}
  BY <1>1, <1>2, FdsFinite DEF Handles, HandlesHeld
<1>4. Handles'
  BY <1>1, <1>2, <1>3 DEF Handles, HandlesHeld, Fds, NoFd
<1>5. Files'
  BY <1>1 DEF Files, BetweenRounds
<1>6. Polled'
  BY <1>1, UnpolledStep
<1>7. DOMAIN peer' \ Held' = DOMAIN peer \ Held
  <2>1. NoFd \notin DOMAIN peer
    BY <1>1, FdsFinite DEF Handles
  <2> QED
    BY <1>1, <1>3, <2>1 DEF Held
<1>8. Cardinality(Free') >= 3
  <2>1. PICK f \in Free : TRUE
    BY <1>1
  <2>2. f \in Free' /\ epoll_fd \in Free' /\ out_fd \in Free' /\ Free' \in SUBSET Fds
    BY <1>1, <1>2 DEF Free, Fds, Handles
  <2>3. f # epoll_fd /\ f # out_fd
    BY <1>2 DEF Free
  <2>4. IsFiniteSet(Free')
    BY <2>2, FdsFinite
  <2> QED
    BY <1>2, <2>2, <2>3, <2>4, ThreeMembers
<1>9. Counted'
  BY <1>1, <1>7, <1>8 DEF Counted, LossesAccounted
<1> QED
  BY <1>4, <1>5, <1>6, <1>9 DEF FdInv

\* A round that cannot end has lost every descriptor but its own two.
LEMMA FinishStarvedFds ==
  ASSUME IInv, FdInv, FinishStarved
  PROVE  FdInv'
<1>1. /\ pc = "top" /\ pc' = "starved" /\ sched_finished /\ Free = {}
      /\ UNCHANGED <<state, events>>
      /\ UNCHANGED <<fd_of, peer, tried, epoll_fd, out_fd, lost, interesting, registered, reported>>
      /\ Handles /\ Files /\ Polled /\ Counted
  BY DEF FinishStarved, loop_vars, tc_vars, fd_vars, file_vars, poll_vars, FdInv
<1>2. Handles' /\ Held' = Held /\ Free' = Free
  BY <1>1, HandlesStay
<1>3. Files'
  BY <1>1 DEF Files, BetweenRounds
<1>4. Polled'
  BY <1>1, UnpolledStep
<1>5. lost = MaxFds - 2
  <2>1. DOMAIN peer = Fds
    BY <1>1 DEF Free, Handles
  <2>2. \A c \in Metas : fd_of[c] = NoFd
    BY <1>1, NoneInUse
  <2>3. DOMAIN peer \ Held = Fds \ {epoll_fd, out_fd}
    BY <2>1, <2>2, FdsFinite DEF Held
  <2>4. epoll_fd \in Fds /\ out_fd \in Fds /\ epoll_fd # out_fd
    BY <1>1, <2>1 DEF Files, BetweenRounds
  <2> QED
    BY <1>1, <2>3, <2>4, FdsFinite, TwoFewer DEF Counted, LossesAccounted
<1>6. Counted'
  BY <1>1, <1>2, <1>5 DEF Counted, LossesAccounted
<1> QED
  BY <1>2, <1>3, <1>4, <1>6 DEF FdInv

-----------------------------------------------------------------------------
(* The loop.                                                               *)

\* The lists are emptied at the head of the loop.
LEMMA EnterLoopFds ==
  ASSUME IInv, FdInv, EnterNextLoop
  PROVE  FdInv'
<1>1. /\ pc = "top" /\ pc' \in {"watchdog", "failsafe"} /\ UNCHANGED <<state, events>>
      /\ interesting' = [st \in Awaited |-> {}]
      /\ UNCHANGED <<fd_of, peer, tried, epoll_fd, out_fd, lost, registered, reported>>
      /\ Handles /\ Polled /\ Counted
  BY DEF EnterNextLoop, EnterLoop, tc_vars, file_vars, FdInv
<1>2. Handles' /\ Held' = Held
  BY <1>1, HandlesStay
<1>3. Files' /\ Counted'
  BY <1>1, <1>2, OpenStep DEF BetweenRounds, Counted
<1>4. registered = {} /\ events = {} /\ reported = {}
  BY <1>1, NoneReported DEF Polled, WatchesTheListed
<1>5. Polled'
  BY <1>1, <1>4 DEF Polled, WatchesTheListed, EventsReachTheirClient
<1> QED
  BY <1>2, <1>3, <1>5 DEF FdInv

\* Each attempt to connect that fails costs one descriptor, if there is one.
LEMMA TryFailsFds ==
  ASSUME IInv, FdInv, NEW c \in Metas, TryFails(c)
  PROVE  FdInv'
<1>1. /\ pc = "connect" /\ UNCHANGED <<pc, state, events>>
      /\ UNCHANGED <<fd_of, epoll_fd, out_fd, interesting, registered, reported>>
      /\ tried' = tried \cup {c}
      /\ Handles /\ Files /\ Polled /\ Counted
  BY DEF TryFails, vars, loop_vars, tc_vars, poll_vars, FdInv
<1>2. tried' \subseteq Metas
  BY <1>1 DEF Counted
<1>3. Polled'
  BY <1>1, UnpolledStep
<1>4. CASE Free = {}
  <2>1. UNCHANGED <<peer, lost>>
    BY <1>4 DEF TryFails
  <2>2. Handles' /\ Held' = Held
    BY <1>1, <2>1, HandlesStay
  <2>3. Files' /\ Counted'
    BY <1>1, <1>2, <2>1, <2>2, OpenStep DEF BetweenRounds
  <2> QED
    BY <1>3, <2>2, <2>3 DEF FdInv
<1>5. CASE Free # {}
  <2> DEFINE n == Lowest(Free)
  <2>1. n \in Fds /\ n \notin DOMAIN peer
    BY <1>5, FdsFinite DEF Free
  <2>2. /\ DOMAIN peer' = DOMAIN peer \cup {n} /\ lost' = lost + 1
        /\ \A f \in DOMAIN peer' : peer'[f] = IF f = n THEN 0 ELSE peer[f]
    BY <1>5 DEF TryFails, Opened
  <2> HIDE DEF n
  <2>3. \A d \in Metas : fd_of[d] # n
    BY <1>1, <2>1, FdsFinite DEF Handles, HandlesHeld
  <2>4. Handles'
    BY <1>1, <2>1, <2>2, <2>3, FdsFinite DEF Handles, HandlesHeld, Fds, NoFd
  <2>5. Files'
    BY <1>1, <2>1, <2>2 DEF Files, BetweenRounds
  <2>6. Counted'
    <3>1. Held' = Held
      BY <1>1 DEF Held
    <3>2. n \notin Held
      BY <1>1, <2>1, <2>3 DEF Held, Files, BetweenRounds
    <3>3. DOMAIN peer' \ Held' = (DOMAIN peer \ Held) \cup {n}
      BY <2>2, <3>1, <3>2
    <3>4. IsFiniteSet(DOMAIN peer \ Held)
      BY <1>1, FdsFinite DEF Handles
    <3>5. Cardinality((DOMAIN peer \ Held) \cup {n}) = lost + 1
      BY <1>1, <2>1, <3>4, FS_AddElement DEF Counted, LossesAccounted
    <3> QED
      BY <1>1, <1>2, <2>2, <3>3, <3>5 DEF Counted, LossesAccounted
  <2> QED
    BY <1>3, <2>4, <2>5, <2>6 DEF FdInv
<1> QED
  BY <1>4, <1>5

\* A connection takes one that is free.
LEMMA ConnectToFds ==
  ASSUME IInv, IInv', FdInv, NEW c \in Metas, ConnectTo(c)
  PROVE  FdInv'
<1>1. /\ pc = "connect" /\ pc' \in {"connect", "aborted"}
      /\ UNCHANGED <<events, interesting, registered, reported, epoll_fd, out_fd, lost>>
      /\ tried' = {} /\ Handles /\ Polled
  BY DEF ConnectTo, Connect, Goto, file_vars, poll_vars, FdInv
<1>2. Handles' /\ Files' /\ Counted'
  BY <1>1, ConnectHandles, OpenStep DEF BetweenRounds
<1>3. Polled'
  BY <1>1, UnpolledStep
<1> QED
  BY <1>2, <1>3 DEF FdInv

\* What the turns of the loop have in common: no client is taken, and nothing is
\* polled.
LEMMA TurnFacts ==
  ASSUME IInv, Turn \/ NoneConnects
  PROVE  /\ \A c \in Metas : current_m_id'[c] \in {0, current_m_id[c]}
         /\ pc \notin BetweenRounds \cup {"poll", "events", "aborted", "starved"}
         /\ pc' \notin BetweenRounds \cup {"poll", "events", "starved"}
         /\ UNCHANGED <<events, interesting, reported, epoll_fd, out_fd, lost>>
         /\ tried' \subseteq tried /\ registered' \subseteq registered
         /\ CloseReleased
<1>1. /\ UNCHANGED <<interesting, reported, epoll_fd, out_fd, lost>>
      /\ tried' \subseteq tried /\ registered' \subseteq registered /\ CloseReleased
  BY DEF Turn, NoneConnects, file_vars, Unregister
<1>2. ASSUME NEW S, tc_finished_with_meta(S)
      PROVE  \A c \in Metas : current_m_id'[c] \in {0, current_m_id[c]}
  BY <1>2 DEF tc_finished_with_meta, Update
<1>3. CASE \/ WatchdogFails \/ FailsafeFails \/ SendAuthFails \/ NoneConnects
           \/ TellConnectFails \/ SetBwFails \/ StartMeasuringFails \/ MeasurementDone
  BY <1>1, <1>2, <1>3
  DEF WatchdogFails, FailsafeFails, SendAuthFails, NoneConnects, ConnectFails,
      TellConnectFails, SetBwFails, StartMeasuringFails, SendFails, MeasurementDone,
      measurement_failed, Advancing, Advanced, Goto, BetweenRounds
<1>4. CASE \/ WatchdogDone \/ FailsafePasses \/ FailsafeDone
           \/ StartNone \/ \E m \in Msms : StartNext(m)
  BY <1>1, <1>4 DEF WatchdogDone, FailsafePasses, FailsafeDone, StartNone, StartNext,
                    Goto, BetweenRounds, loop_vars, tc_vars
<1>5. CASE ConnectDone \/ SendAuth \/ TellConnect \/ SetBw \/ StartMeasuring \/ NothingToDo
  BY <1>1, <1>5
  DEF ConnectDone, SendAuth, TellConnect, SetBw, StartMeasuring, NothingToDo, MovedOn,
      tc_auth_socket, tc_tell_connect, tc_set_bw_rate, tc_start_measurement, Sent,
      Advancing, Advanced, Goto, BetweenRounds, tc_vars
<1> QED
  BY <1>3, <1>4, <1>5 DEF Turn

\* In these the descriptors of the clients that are released are closed.
LEMMA TurnFds ==
  ASSUME IInv, IInv', FdInv, Turn \/ NoneConnects
  PROVE  FdInv'
<1>1. Handles /\ Polled /\ tried \subseteq Metas
  BY DEF FdInv, Counted
<1>2. /\ Handles' /\ DOMAIN peer' \ Held' = DOMAIN peer \ Held
      /\ \A f \in DOMAIN peer : peer[f] = 0 => f \in DOMAIN peer' /\ peer'[f] = 0
  BY <1>1, TurnFacts, ReleaseHandles
<1>3. Files' /\ Counted'
  BY <1>1, <1>2, TurnFacts, OpenStep
<1>4. Polled'
  BY <1>1, TurnFacts, UnpolledStep
<1> QED
  BY <1>2, <1>3, <1>4 DEF FdInv

-----------------------------------------------------------------------------
(* Polling.                                                                *)

\* What is given to epoll are open descriptors of clients that are waited for.
LEMMA RegisterFds ==
  ASSUME IInv, FdInv, Register
  PROVE  FdInv'
<1>1. /\ pc = "advance" /\ pc' = (IF Awaiting = {} THEN "top" ELSE "poll")
      /\ UNCHANGED <<state, events, fd_of, peer, tried, epoll_fd, out_fd, lost, reported>>
      /\ Handles /\ Polled /\ Counted
      /\ registered' = registered \cup (Listed' \cap DOMAIN peer)
  BY DEF Register, AdvanceDone, loop_vars, tc_vars, file_vars, FdInv
<1>2. interesting' = ListedByState
  BY DEF Register, ListedByState, FdsIn
<1>3. Handles' /\ Held' = Held
  BY <1>1, HandlesStay
<1>4. Files' /\ Counted'
  BY <1>1, <1>3, OpenStep DEF BetweenRounds, Counted
<1>5. registered = {} /\ events = {} /\ reported = {}
  BY <1>1, NoneReported DEF Polled, WatchesTheListed
<1>6. \A st \in Awaited : ListedByState[st] \subseteq DOMAIN peer /\ ListedByState[st] \subseteq Fds
  <2> SUFFICES ASSUME NEW st \in Awaited, NEW c \in Metas, state[c] = st
               PROVE  fd_of[c] \in DOMAIN peer /\ fd_of[c] \in Fds
    BY DEF ListedByState
  <2>1. state[c] # "invalid"
    BY DEF Awaited, Answering
  <2> QED
    BY <1>1, <2>1 DEF Handles, HandlesHeld
<1>7. Listed' = UNION {ListedByState[st] : st \in Awaited}
  BY <1>2 DEF Listed
<1>8. registered' = Listed' /\ registered' \subseteq Fds
  <2> DEFINE U == UNION {ListedByState[st] : st \in Awaited}
  <2>1. U \subseteq DOMAIN peer /\ U \subseteq Fds
    BY <1>6
  <2>2. Listed' = U
    BY <1>7
  <2> HIDE DEF U
  <2> QED
    BY <1>1, <1>5, <2>1, <2>2
<1>9. Awaiting = {} => registered' = {}
  BY <1>7, <1>8 DEF Awaiting, ListedByState
<1>10. interesting' \in [Awaited -> SUBSET Fds]
  BY <1>2, <1>6 DEF ListedByState
<1>11. ListedByState' = ListedByState
  BY <1>1 DEF ListedByState
<1>12. Polled'
  BY <1>1, <1>2, <1>5, <1>8, <1>9, <1>10, <1>11
  DEF Polled, WatchesTheListed, EventsReachTheirClient, Fds
<1> QED
  BY <1>3, <1>4, <1>12 DEF FdInv

\* A poll that reports nothing, and a batch that is handled, end at the head of
\* the loop with nothing watched.
LEMMA EndOfPollFds ==
  ASSUME IInv, FdInv, PollInVain \/ AllHandled
  PROVE  FdInv'
<1>1. /\ pc \in {"poll", "events"} /\ pc' = "top" /\ events = {}
      /\ UNCHANGED <<state, events, fd_of, peer, tried, epoll_fd, out_fd, lost,
                     interesting, reported>>
      /\ registered' = registered \ (ReleasedFds \cup Listed)
      /\ Handles /\ Polled /\ Counted
  BY DEF PollInVain, AllHandled, PollFails, EventsDone, loop_vars, tc_vars, file_vars,
         FdInv, Unregister, Deleted, IInv, PlaceInv
<1>2. Handles' /\ Held' = Held
  BY <1>1, HandlesStay
<1>3. Files' /\ Counted'
  BY <1>1, <1>2, OpenStep DEF BetweenRounds, Counted
<1>4. registered' = {} /\ reported = {}
  BY <1>1 DEF Polled, WatchesTheListed, EventsReachTheirClient
<1>5. Polled'
  BY <1>1, <1>4 DEF Polled, WatchesTheListed, EventsReachTheirClient, Fds
<1> QED
  BY <1>2, <1>3, <1>5 DEF FdInv

\* What epoll reports are the clients that can be read, each by its descriptor.
LEMMA PollReportsFds ==
  ASSUME IInv, FdInv, PollReports
  PROVE  FdInv'
<1>1. /\ pc = "poll" /\ pc' = "events" /\ events' = Readable
      /\ UNCHANGED <<state, fd_of, peer, tried, epoll_fd, out_fd, lost, interesting, registered>>
      /\ reported' = {f \in registered : peer[f] # 0 /\ inbox[peer[f]] # "none"}
      /\ Handles /\ Polled /\ Counted
  BY DEF PollReports, PollReturns, tc_vars, file_vars, FdInv
<1>2. Handles' /\ Held' = Held /\ \A f : meta_with_fd(f)' = meta_with_fd(f)
  BY <1>1, HandlesStay
<1>3. Files' /\ Counted'
  BY <1>1, <1>2, OpenStep DEF BetweenRounds, Counted
<1>4. /\ interesting = ListedByState /\ registered = Listed
      /\ Listed = UNION {{fd_of[c] : c \in {d \in Metas : state[d] = st}} : st \in Awaited}
  BY <1>1 DEF Polled, WatchesTheListed, Listed, ListedByState
<1>5. \A c \in Metas : state[c] \in Awaited =>
        fd_of[c] \in DOMAIN peer /\ peer[fd_of[c]] = c /\ c # 0
  BY <1>1, FdsFinite DEF Handles, HandlesHeld, Awaited, Answering
<1>6. ASSUME NEW f \in reported'
      PROVE  /\ f \in DOMAIN peer /\ meta_with_fd(f) = peer[f] /\ peer[f] \in Readable
             /\ \A st \in Awaited : f \in interesting[st] <=> state[peer[f]] = st
  <2>1. PICK c \in Metas : f = fd_of[c] /\ state[c] \in Awaited
    BY <1>1, <1>4
  <2>2. f \in DOMAIN peer /\ peer[f] = c /\ peer[f] # 0 /\ inbox[c] # "none"
    BY <1>1, <1>5, <2>1
  <2>3. meta_with_fd(f) = c
    BY <1>1, <2>2, MetaWithFd
  <2>4. ASSUME NEW st \in Awaited PROVE f \in interesting[st] <=> state[c] = st
    <3>1. f \in interesting[st] <=> \E d \in Metas : state[d] = st /\ f = fd_of[d]
      BY <1>4 DEF ListedByState
    <3>2. \A d \in Metas : state[d] \in Awaited /\ f = fd_of[d] => d = c
      BY <1>5, <2>2
    <3> QED
      BY <2>1, <3>1, <3>2
  <2> QED
    BY <2>1, <2>2, <2>3, <2>4 DEF Readable, Awaiting
<1>7. ASSUME NEW c \in Readable PROVE \E f \in reported' : meta_with_fd(f) = c
  <2>1. c \in Metas /\ state[c] \in Awaited /\ inbox[c] # "none"
    BY DEF Readable, Awaiting
  <2>2. fd_of[c] \in reported'
    BY <1>1, <1>4, <1>5, <2>1
  <2>3. meta_with_fd(fd_of[c]) = c
    BY <1>5, <1>6, <2>1, <2>2
  <2> QED
    BY <2>2, <2>3
<1>8. EventsReachTheirClient'
  <2>1. events' = {meta_with_fd(f) : f \in reported'}
    BY <1>1, <1>6, <1>7
  <2> QED
    BY <1>1, <1>2, <1>6, <2>1 DEF EventsReachTheirClient
<1>9. Polled'
  <2>1. Listed' = Listed
    BY <1>1 DEF Listed
  <2> QED
    BY <1>1, <1>4, <1>8, <2>1 DEF Polled, WatchesTheListed, Fds
<1> QED
  BY <1>2, <1>3, <1>9 DEF FdInv

\* What the handling of an event leaves: the other events, or nothing.
LEMMA EventFacts ==
  ASSUME IInv, CrewInv, NEW c \in Metas,
         Answered(c) \/ ResultRead(c) \/ AnswerFails(c) \/ ResultFails(c)
  PROVE  /\ pc = "events" /\ \A d \in Metas : current_m_id'[d] \in {0, current_m_id[d]}
         /\ \/ pc' = "top" /\ events' = {}
            \/ /\ pc' = "events" /\ events' = events \ {c}
               /\ current_m_id' = current_m_id
               /\ \A d \in Metas \ {c} : state'[d] = state[d]
<1>1. CASE Answered(c) \/ ResultRead(c)
  <2>1. /\ pc = "events" /\ events' = events \ {c}
        /\ current_m_id' = current_m_id
        /\ \A d \in Metas \ {c} : state'[d] = state[d]
    BY <1>1, UnderwayFacts DEF Answered, ResultRead, HandledEvent, tc_authed_socket,
       tc_connected_socket, tc_did_set_bw_rate, tc_output_result, Answers
  <2>2. state[c] = "measuring" => current_m_id[c] \in Known
    BY <2>1, UnderwayFacts
  <2>3. ResultAsserts(c)
    BY <2>2 DEF ResultAsserts, CrewInv, Crewed, Staffed
  <2> QED
    BY <1>1, <2>1, <2>3 DEF Answered, ResultRead, Goto
<1>2. CASE AnswerFails(c) \/ ResultFails(c)
  <2> DEFINE m == current_m_id[c]
  <2>1. /\ pc = "events" /\ events' = {} /\ c \in events
        /\ Goto(ResultAsserts(c) /\ FailureAsserts(m), "top")
        /\ tc_finished_with_meta(Crew(m))
    BY <1>2 DEF AnswerFails, ResultFails, EventFails, measurement_failed
  <2>2. state[c] # "invalid"
    BY <2>1 DEF IInv, PlaceInv, EventsAreCurrent, Awaited, Answering
  <2>3. m \in Underway /\ m \in Known
    BY <2>1, <2>2, UnderwayFacts
  <2>4. ResultAsserts(c) /\ FailureAsserts(m)
    BY <2>3, FailureAssertsHold DEF ResultAsserts, CrewInv, Crewed, Staffed
  <2>5. \A d \in Metas : current_m_id'[d] \in {0, current_m_id[d]}
    BY <2>1 DEF tc_finished_with_meta, Update
  <2> HIDE DEF m
  <2> QED
    BY <2>1, <2>4, <2>5 DEF Goto
<1> QED
  BY <1>1, <1>2

\* The other events still reach their clients when one has been handled.
LEMMA HandleEventFds ==
  ASSUME IInv, IInv', CrewInv, FdInv, NEW f \in Fds, HandleEvent(f)
  PROVE  FdInv'
<1> DEFINE c == meta_with_fd(f)
<1>1. /\ f \in reported /\ c \in Metas
      /\ Answered(c) \/ ResultRead(c) \/ AnswerFails(c) \/ ResultFails(c)
      /\ CloseReleased /\ registered' = registered \ (ReleasedFds \cup Deleted)
      /\ reported' = (IF pc' = "top" THEN {} ELSE reported \ {f})
      /\ UNCHANGED <<interesting, tried, epoll_fd, out_fd, lost>>
      /\ Handles /\ Polled /\ tried \subseteq Metas
  BY DEF HandleEvent, Unregister, file_vars, FdInv, Counted
<1>2. /\ pc = "events" /\ \A d \in Metas : current_m_id'[d] \in {0, current_m_id[d]}
      /\ \/ pc' = "top" /\ events' = {}
         \/ /\ pc' = "events" /\ events' = events \ {c}
            /\ current_m_id' = current_m_id
            /\ \A d \in Metas \ {c} : state'[d] = state[d]
  BY <1>1, EventFacts
<1>3. /\ Handles' /\ DOMAIN peer' \ Held' = DOMAIN peer \ Held
      /\ \A g \in DOMAIN peer : peer[g] = 0 => g \in DOMAIN peer' /\ peer'[g] = 0
  BY <1>1, <1>2, ReleaseHandles
<1>4. Files' /\ Counted'
  BY <1>1, <1>2, <1>3, OpenStep DEF BetweenRounds
<1>5. /\ registered = Listed /\ events = {meta_with_fd(g) : g \in reported}
      /\ \A g \in reported :
           /\ g \in DOMAIN peer /\ meta_with_fd(g) = peer[g]
           /\ \A st \in Awaited : g \in interesting[st] <=> state[peer[g]] = st
  BY <1>1, <1>2 DEF Polled, WatchesTheListed, EventsReachTheirClient
<1> HIDE DEF c
<1>6. CASE pc' = "top"
  <2>1. registered' = {} /\ reported' = {} /\ events' = {}
    BY <1>1, <1>2, <1>5, <1>6 DEF Deleted
  <2>2. EventsReachTheirClient' /\ WatchesTheListed'
    BY <1>6, <2>1 DEF WatchesTheListed, EventsReachTheirClient
  <2>3. interesting' \in [Awaited -> SUBSET Fds]
    BY <1>1 DEF Polled
  <2>4. Polled'
    BY <1>6, <2>1, <2>2, <2>3 DEF Polled, Fds
  <2> QED
    BY <1>3, <1>4, <2>4 DEF FdInv
<1>7. CASE pc' = "events"
  <2>1. Released = {} /\ ReleasedFds = {} /\ Deleted = {}
    BY <1>2, <1>7 DEF Released, ReleasedFds, Deleted
  <2>2. /\ fd_of' = fd_of /\ DOMAIN peer' = DOMAIN peer
        /\ \A g \in DOMAIN peer : peer'[g] = peer[g]
        /\ registered' = registered /\ reported' = reported \ {f}
    BY <1>1, <1>7, <2>1 DEF CloseReleased, Update, Handles
  <2>3. \A g : meta_with_fd(g)' = meta_with_fd(g)
    BY <2>2 DEF meta_with_fd
  <2>4. ASSUME NEW g \in reported PROVE meta_with_fd(g) = c => g = f
    <3>1. 0 \notin Metas /\ peer[g] = meta_with_fd(g) /\ peer[f] = c
      BY <1>1, <1>5, FdsFinite DEF c
    <3> QED
      BY <1>1, <1>5, <3>1 DEF Handles
  <2>5. events' = {meta_with_fd(g) : g \in reported'}
    BY <1>1, <1>2, <1>5, <1>7, <2>2, <2>4 DEF c
  <2>6. ASSUME NEW g \in reported'
        PROVE  /\ g \in DOMAIN peer' /\ meta_with_fd(g) = peer'[g]
               /\ \A st \in Awaited : g \in interesting'[st] <=> state'[peer'[g]] = st
    <3>1. g \in reported /\ g # f /\ peer'[g] = peer[g]
      BY <1>5, <2>2
    <3>2. peer[g] \in Metas \ {c}
      <4>1. meta_with_fd(g) \in Metas
        BY <1>5, <3>1 DEF IInv, PlaceInv
      <4> QED
        BY <1>5, <2>4, <3>1, <4>1
    <3>3. state'[peer[g]] = state[peer[g]]
      BY <1>2, <1>7, <3>2
    <3> QED
      BY <1>1, <1>5, <2>2, <3>1, <3>3
  <2>7. EventsReachTheirClient'
    BY <2>3, <2>5, <2>6 DEF EventsReachTheirClient
  <2>8. Listed' = Listed
    BY <1>1 DEF Listed
  <2>9. Polled'
    BY <1>1, <1>5, <1>7, <2>2, <2>7, <2>8 DEF Polled, WatchesTheListed, Fds
  <2> QED
    BY <1>3, <1>4, <2>9 DEF FdInv
<1> QED
  BY <1>2, <1>6, <1>7

-----------------------------------------------------------------------------
(* The theorems.                                                           *)

\* Whatever the descriptors do, the coordinator takes one of its own steps or
\* none, unless the process starves.
LEMMA DescriptorsStep ==
  ASSUME [DescriptorsNext]_<<vars, fd_vars>>, ~ FinishStarved
  PROVE  [Next]_vars
<1>1. CASE UNCHANGED <<vars, fd_vars>>
  BY <1>1
<1>2. CASE \E file \in Schedules : StartRound(file)
  BY <1>2 DEF StartRound, Next
<1>3. CASE FinishRound \/ EnterNextLoop \/ Register \/ PollInVain \/ PollReports \/ AllHandled
  BY <1>3 DEF FinishRound, EnterNextLoop, Register, PollInVain, PollReports, AllHandled,
              Next, Loop
<1>4. CASE \E c \in Metas : TryFails(c) \/ ConnectTo(c)
  BY <1>4 DEF TryFails, ConnectTo, Next, Loop
<1>5. CASE NoneConnects \/ Turn
  BY <1>5 DEF NoneConnects, Turn, Next, Loop
<1>6. CASE \E f \in Fds : HandleEvent(f)
  BY <1>6 DEF HandleEvent, Next, Loop
<1>7. CASE Around \/ Ended
  BY <1>7 DEF Around, Ended, Next
<1> QED
  BY <1>1, <1>2, <1>3, <1>4, <1>5, <1>6, <1>7 DEF DescriptorsNext

\* What goes on around the process leaves its descriptors and its array alone.
LEMMA AroundStill ==
  ASSUME Around \/ Ended \/ UNCHANGED <<vars, fd_vars>>
  PROVE  UNCHANGED <<pc, fd_vars, state, events, known_m_ids>>
BY DEF Around, Ended, ClientWrites, TimePasses, Arrive, vars, loop_vars, tc_vars

\* Nobody starts the process again when it has starved.
LEMMA StarvedStays ==
  ASSUME [DescriptorsNext]_<<vars, fd_vars>>, pc = "starved"
  PROVE  Around \/ Ended \/ UNCHANGED <<vars, fd_vars>>
<1>1. /\ \A file \in Schedules : ~ StartRound(file)
      /\ ~ (FinishRound \/ FinishStarved \/ EnterNextLoop)
  BY DEF StartRound, Startup, FinishRound, Finish, FinishStarved, EnterNextLoop, EnterLoop
<1>2. \A c \in Metas : ~ (TryFails(c) \/ ConnectTo(c))
  BY DEF TryFails, ConnectTo, Connect
<1>3. ~ NoneConnects
  BY DEF NoneConnects, ConnectFails
<1>4. ~ Turn
  BY DEF Turn, WatchdogFails, WatchdogDone, FailsafeFails, FailsafePasses, FailsafeDone,
         StartNone, StartNext, ConnectDone, SendAuth, SendAuthFails, TellConnect,
         TellConnectFails, SetBw, SetBwFails, StartMeasuring, StartMeasuringFails,
         MeasurementDone, NothingToDo, Advancing
<1>5. ~ (Register \/ PollInVain \/ PollReports \/ AllHandled)
  BY DEF Register, AdvanceDone, PollInVain, PollFails, PollReports, PollReturns,
         AllHandled, EventsDone
<1>6. \A f \in Fds : ~ HandleEvent(f)
  BY DEF HandleEvent, Answered, ResultRead, AnswerFails, ResultFails
<1> QED
  BY <1>1, <1>2, <1>3, <1>4, <1>5, <1>6 DEF DescriptorsNext

\* The descriptors, and the coordinator until it starves, are right in every state.
DescriptorsInv == Running /\ FdInv /\ KnownFits

\* At the start,
LEMMA DescriptorsInitInv == DescriptorsInit => DescriptorsInv
<1> SUFFICES ASSUME DescriptorsInit PROVE DescriptorsInv
  OBVIOUS
<1>1. IInv /\ CrewInv
  BY InitInv, InitCrew DEF DescriptorsInit
<1> QED
  BY <1>1, CrewsFit, InitFds DEF DescriptorsInv, Running

\* and after every step.
LEMMA DescriptorsNextInv ==
  DescriptorsInv /\ [DescriptorsNext]_<<vars, fd_vars>> => DescriptorsInv'
<1> SUFFICES ASSUME DescriptorsInv, [DescriptorsNext]_<<vars, fd_vars>>
             PROVE  DescriptorsInv'
  OBVIOUS
<1>1. FdInv /\ KnownFits
  BY DEF DescriptorsInv
<1>2. CASE Around \/ Ended \/ UNCHANGED <<vars, fd_vars>>
  <2>1. FdInv' /\ KnownFits' /\ UNCHANGED pc
    BY <1>1, <1>2, AroundStill, StillFds DEF KnownFits
  <2>2. Running'
    <3>1. CASE pc = "starved"
      BY <2>1, <3>1 DEF Running
    <3>2. CASE pc # "starved"
      <4>1. ~ FinishStarved
        BY <2>1, <3>2 DEF FinishStarved
      <4> QED
        BY <2>1, <3>2, <4>1, DescriptorsStep, NextInv, NextCrew DEF DescriptorsInv, Running
    <3> QED
      BY <3>1, <3>2
  <2> QED
    BY <2>1, <2>2 DEF DescriptorsInv
<1>3. CASE FinishStarved
  <2>1. pc = "top" /\ pc' = "starved" /\ UNCHANGED known_m_ids
    BY <1>3 DEF FinishStarved, loop_vars
  <2>2. IInv
    BY <2>1 DEF DescriptorsInv, Running
  <2> QED
    BY <1>1, <1>3, <2>1, <2>2, FinishStarvedFds DEF DescriptorsInv, Running, KnownFits
<1>4. ASSUME DescriptorsNext, ~ FinishStarved,
             ~ (Around \/ Ended \/ UNCHANGED <<vars, fd_vars>>)
      PROVE  DescriptorsInv'
  <2>1. pc # "starved"
    BY <1>4, StarvedStays
  <2>2. IInv /\ CrewInv
    BY <2>1 DEF DescriptorsInv, Running
  <2>3. [Next]_vars
    BY <1>4, DescriptorsStep
  <2>4. IInv' /\ CrewInv' /\ KnownFits'
    <3>1. IInv' /\ CrewInv'
      BY <2>2, <2>3, NextInv, NextCrew
    <3>2. (IInv /\ CrewInv => KnownFits)'
      BY CrewsFit, PTL
    <3> QED
      BY <3>1, <3>2
  <2>5. FdInv'
    BY <1>1, <1>4, <2>2, <2>4, StartRoundFds, FinishRoundFds, EnterLoopFds, TryFailsFds,
       ConnectToFds, TurnFds, RegisterFds, EndOfPollFds, PollReportsFds, HandleEventFds
    DEF DescriptorsNext
  <2> QED
    BY <2>4, <2>5 DEF DescriptorsInv, Running
<1> QED
  BY <1>2, <1>3, <1>4

\* The invariant holds for every number of descriptors, clients and measurements.
THEOREM DescriptorsInvariant == DescriptorsSpec => []DescriptorsInv
BY DescriptorsInitInv, DescriptorsNextInv, PTL DEF DescriptorsSpec

\* Every variable keeps its type.
THEOREM DescriptorsTypes == DescriptorsSpec => []DescriptorsTypeOK
<1>1. DescriptorsInv => DescriptorsTypeOK
  <2> SUFFICES ASSUME DescriptorsInv PROVE DescriptorsTypeOK
    OBVIOUS
  <2>1. {epoll_fd, out_fd} \subseteq Fds \cup {NoFd}
    BY DEF DescriptorsInv, FdInv, Files, Handles
  <2> QED
    BY <2>1 DEF DescriptorsInv, FdInv, Handles, Polled, Counted, DescriptorsTypeOK
<1> QED
  BY <1>1, DescriptorsInvariant, PTL

\* No descriptor is two clients', and none is a client's that is not in use.
THEOREM HandlesAreHeld == DescriptorsSpec => []HandlesHeld
<1>1. DescriptorsInv => HandlesHeld
  BY DEF DescriptorsInv, FdInv, Handles
<1> QED
  BY <1>1, DescriptorsInvariant, PTL

\* Every event is handled for the client whose connection it is about.
THEOREM EventsArrive == DescriptorsSpec => []EventsReachTheirClient
<1>1. DescriptorsInv => EventsReachTheirClient
  BY DEF DescriptorsInv, FdInv, Polled
<1> QED
  BY <1>1, DescriptorsInvariant, PTL

\* epoll watches what is in the lists while they are polled, and nothing after.
THEOREM ListsAreWatched == DescriptorsSpec => []WatchesTheListed
<1>1. DescriptorsInv => WatchesTheListed
  BY DEF DescriptorsInv, FdInv, Polled
<1> QED
  BY <1>1, DescriptorsInvariant, PTL

\* Descriptors are lost only where a connection fails or a client file is read,
\* and the process starves only when all but two of them are.
THEOREM LossesAreAccounted == DescriptorsSpec => []LossesAccounted
<1>1. DescriptorsInv => LossesAccounted
  BY DEF DescriptorsInv, FdInv, Counted
<1> QED
  BY <1>1, DescriptorsInvariant, PTL

\* The array is large enough in a process that runs out of descriptors, too.
THEOREM ArrayFitsDescriptors == DescriptorsSpec => []KnownFits
<1>1. DescriptorsInv => KnownFits
  BY DEF DescriptorsInv
<1> QED
  BY <1>1, DescriptorsInvariant, PTL

\* Every step with descriptors is one that the coordinator may take, or the one
\* that ends a process without any left.
THEOREM StepsAreTheCoordinators == DescriptorsSpec => Init /\ [][Next \/ FinishStarved]_vars
<1>1. DescriptorsInit => Init
  BY DEF DescriptorsInit
<1>2. [DescriptorsNext]_<<vars, fd_vars>> => [Next \/ FinishStarved]_vars
  BY DescriptorsStep
<1> QED
  BY <1>1, <1>2, PTL DEF DescriptorsSpec
=============================================================================
