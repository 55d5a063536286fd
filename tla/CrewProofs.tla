----------------------------- MODULE CrewProofs -----------------------------
(***************************************************************************)
(* The crews of the coordinator are right for every schedule and every     *)
(* list of clients: a measurement that is known has a client for each of   *)
(* its hosts and no other, they go through the handshake in step, and each *)
(* host slot is told to one of them.  From these, no assertion fails when  *)
(* every background class is "bg", and the coordinator implements Campaign. *)
(***************************************************************************)
EXTENDS CoordinatorProofs

-----------------------------------------------------------------------------
(* Counting.                                                               *)

\* How many members of S come before x.
Rank(S, x) == Cardinality({y \in S : y < x})

\* A rank is a number below the size of the set.
LEMMA RankType ==
  ASSUME NEW S, S \subseteq Nat, IsFiniteSet(S), NEW x \in S
  PROVE  /\ Rank(S, x) \in 0 .. (Cardinality(S) - 1)
         /\ Cardinality(S) \in Nat
<1> DEFINE T == {y \in S : y < x}
<1>1. T \in SUBSET S /\ T # S
  OBVIOUS
<1>2. /\ IsFiniteSet(T)
      /\ Cardinality(T) <= Cardinality(S)
      /\ Cardinality(S) # Cardinality(T)
  BY <1>1, FS_Subset
<1>3. Cardinality(T) \in Nat /\ Cardinality(S) \in Nat
  BY <1>2, FS_CardinalityType
<1> QED
  BY <1>2, <1>3 DEF Rank

\* The later of two members has the higher rank.
LEMMA RankIncreases ==
  ASSUME NEW S, S \subseteq Nat, IsFiniteSet(S), NEW x \in S, NEW y \in S, x < y
  PROVE  Rank(S, x) < Rank(S, y)
<1> DEFINE T == {z \in S : z < x}
           U == {z \in S : z < y}
<1> HIDE DEF T, U
<1>1. T \in SUBSET U /\ x \in U /\ x \notin T /\ U \in SUBSET S
  <2>1. /\ x \in Nat /\ y \in Nat
        /\ \A z \in S : z \in Nat
    OBVIOUS
  <2>2. \A z \in S : z < x => z < y
    BY <2>1
  <2>3. ~ x < x
    BY <2>1
  <2>4. x \in U /\ x \notin T
    BY <2>3 DEF T, U
  <2> QED
    BY <2>2, <2>4 DEF T, U
<1>2. IsFiniteSet(U)
  BY <1>1, FS_Subset
<1>3. IsFiniteSet(T) /\ Cardinality(T) <= Cardinality(U) /\ Cardinality(U) # Cardinality(T)
  BY <1>1, <1>2, FS_Subset
<1>4. Cardinality(T) \in Nat /\ Cardinality(U) \in Nat
  BY <1>2, <1>3, FS_CardinalityType
<1> QED
  BY <1>3, <1>4 DEF Rank, T, U

\* So no two members have the same,
LEMMA RankDistinct ==
  ASSUME NEW S, S \subseteq Nat, IsFiniteSet(S), NEW x \in S, NEW y \in S,
         Rank(S, x) = Rank(S, y)
  PROVE  x = y
<1>1. x \in Nat /\ y \in Nat
  OBVIOUS
<1>2. Cardinality(S) \in Nat /\ Rank(S, x) \in 0 .. (Cardinality(S) - 1)
  BY RankType
<1>3. ~ Rank(S, x) < Rank(S, y) /\ ~ Rank(S, y) < Rank(S, x)
  BY <1>2
<1>4. ~ x < y
  BY <1>3, RankIncreases
<1>5. ~ y < x
  BY <1>3, RankIncreases
<1> QED
  BY <1>1, <1>4, <1>5

\* and each number below the size of the set is the rank of a member.
LEMMA RankOnto ==
  ASSUME NEW S, S \subseteq Nat, IsFiniteSet(S),
         NEW n \in 0 .. (Cardinality(S) - 1)
  PROVE  \E x \in S : Rank(S, x) = n
<1> DEFINE N == Cardinality(S)
           T == 0 .. (N - 1)
           f == [x \in S |-> Rank(S, x)]
<1>1. N \in Nat
  BY FS_CardinalityType
<1>2. IsFiniteSet(T) /\ Cardinality(T) = N
  <2>1. 0 \in Int /\ N - 1 \in Int
    BY <1>1
  <2>2. IsFiniteSet(T) /\ Cardinality(T) = IF 0 > N - 1 THEN 0 ELSE N - 1 - 0 + 1
    BY <2>1, FS_Interval
  <2> QED
    BY <1>1, <2>2
<1>3. f \in [S -> T]
  BY RankType
<1>4. \A x, y \in S : f[x] = f[y] => x = y
  BY RankDistinct
<1>5. f \in Injection(S, T)
  BY <1>3, <1>4 DEF Injection, IsInjective
<1>6. f \in Surjection(S, T)
  BY <1>2, <1>5, FS_Injection
<1> QED
  BY <1>6 DEF Surjection

-----------------------------------------------------------------------------
(* Clients and slots by class.                                             *)

Classes == Range(Class) \cup UNION {{Hosts[m][k].class : k \in DOMAIN Hosts[m]} : m \in Msms}

CrewOf(m, class) == {c \in Crew(m) : Class[c] = class}
SlotsOf(m, n, class) == {k \in 1 .. n : Hosts[m][k].class = class}

\* Measurement m has as many clients of each class as its first n hosts ask for.
Matched(m, n) ==
  \A class \in Classes :
    Cardinality(CrewOf(m, class)) = Cardinality(SlotsOf(m, n, class))

-----------------------------------------------------------------------------
(* Handing out host slots.                                                 *)

\* The clients of a measurement and its slots are finitely many.
LEMMA CrewFinite ==
  ASSUME NEW m
  PROVE  /\ Crew(m) \subseteq Metas /\ Metas \subseteq Nat
         /\ IsFiniteSet(Metas) /\ Cardinality(Metas) = NumMetas
         /\ IsFiniteSet(Crew(m))
         /\ \A class : /\ CrewOf(m, class) \subseteq Nat
                       /\ IsFiniteSet(CrewOf(m, class))
                       /\ Cardinality(CrewOf(m, class)) \in Nat
<1>1. NumMetas \in Nat /\ IsFiniteSet(Metas) /\ Cardinality(Metas) = NumMetas
  BY SegmentSize, TorClientAssumption DEF Metas
<1>2. Metas \subseteq Nat
  BY <1>1 DEF Metas
<1>3. Crew(m) \in SUBSET Metas
  BY DEF Crew
<1>4. IsFiniteSet(Crew(m))
  BY <1>1, <1>3, FS_Subset
<1>5. ASSUME NEW class
      PROVE  /\ CrewOf(m, class) \subseteq Nat
             /\ IsFiniteSet(CrewOf(m, class))
             /\ Cardinality(CrewOf(m, class)) \in Nat
  <2>1. CrewOf(m, class) \in SUBSET Crew(m)
    BY DEF CrewOf
  <2>2. IsFiniteSet(CrewOf(m, class))
    BY <1>4, <2>1, FS_Subset
  <2> QED
    BY <1>2, <1>3, <2>1, <2>2, FS_CardinalityType
<1> QED
  BY <1>1, <1>2, <1>3, <1>4, <1>5

\* (The slots.)
LEMMA SlotsFinite ==
  ASSUME NEW m \in Msms
  PROVE  /\ Len(Hosts[m]) \in Nat
         /\ DOMAIN Hosts[m] = 1 .. Len(Hosts[m])
         /\ \A n \in Nat : \A class :
              /\ SlotsOf(m, n, class) \subseteq Nat
              /\ IsFiniteSet(SlotsOf(m, n, class))
              /\ Cardinality(SlotsOf(m, n, class)) \in Nat
<1>1. /\ Len(Hosts[m]) \in Nat
      /\ DOMAIN Hosts[m] = 1 .. Len(Hosts[m])
  BY CoordinatorAssumption
<1>2. ASSUME NEW n \in Nat, NEW class
      PROVE  /\ SlotsOf(m, n, class) \subseteq Nat
             /\ IsFiniteSet(SlotsOf(m, n, class))
             /\ Cardinality(SlotsOf(m, n, class)) \in Nat
  <2>1. SlotsOf(m, n, class) \in SUBSET (1 .. n)
    BY DEF SlotsOf
  <2>2. IsFiniteSet(SlotsOf(m, n, class))
    BY <2>1, SegmentSize, FS_Subset
  <2> QED
    BY <2>1, <2>2, FS_CardinalityType
<1> QED
  BY <1>1, <1>2

\* All the slots of a class.
AllSlots(m, class) == SlotsOf(m, Len(Hosts[m]), class)

\* When a measurement has as many clients of each class as it has slots, each
\* of them has the slot of its class that comes as late as it does.
LEMMA SlotOfClient ==
  ASSUME NEW m \in Msms, Matched(m, Len(Hosts[m])), NEW c \in Crew(m)
  PROVE  /\ HostFor(m, c) \in AllSlots(m, Class[c])
         /\ Rank(AllSlots(m, Class[c]), HostFor(m, c)) = Rank(CrewOf(m, Class[c]), c)
<1> DEFINE S == AllSlots(m, Class[c])
           C == CrewOf(m, Class[c])
           rank == {d \in Crew(m) : d < c /\ Class[d] = Class[c]}
           before(k) == {j \in 1 .. (k - 1) : Hosts[m][j].class = Class[c]}
           slots == {k \in DOMAIN Hosts[m] :
                       /\ Hosts[m][k].class = Class[c]
                       /\ Cardinality(before(k)) = Cardinality(rank)}
<1>1. /\ Len(Hosts[m]) \in Nat /\ DOMAIN Hosts[m] = 1 .. Len(Hosts[m])
      /\ S \subseteq Nat /\ IsFiniteSet(S)
  BY SlotsFinite DEF AllSlots
<1>2. C \subseteq Nat /\ IsFiniteSet(C) /\ c \in C /\ c \in Metas
  BY CrewFinite DEF CrewOf
<1>3. Cardinality(C) = Cardinality(S)
  <2>1. Class[c] \in Classes
    BY <1>2, TorClientAssumption DEF Classes, Range
  <2> QED
    BY <2>1 DEF Matched, AllSlots
<1>4. PICK k \in S : Rank(S, k) = Rank(C, c)
  <2>1. Rank(C, c) \in 0 .. (Cardinality(S) - 1)
    BY <1>2, <1>3, RankType
  <2> QED
    BY <1>1, <2>1, RankOnto
<1>5. rank = {d \in C : d < c}
  BY DEF CrewOf
<1>6. ASSUME NEW l \in S PROVE before(l) = {j \in S : j < l}
  <2>1. l \in 1 .. Len(Hosts[m]) /\ l \in Nat
    BY DEF AllSlots, SlotsOf
  <2>2. \A j : j \in 1 .. (l - 1) <=> j \in 1 .. Len(Hosts[m]) /\ j < l
    BY <1>1, <2>1
  <2> QED
    BY <2>2 DEF AllSlots, SlotsOf
<1>7. \A l \in S : Cardinality(before(l)) = Rank(S, l)
  BY <1>6 DEF Rank
<1>8. Cardinality(rank) = Rank(C, c)
  BY <1>5 DEF Rank
<1>9. slots = {l \in S : Rank(S, l) = Rank(C, c)}
  <2>1. \A l : l \in S <=> l \in DOMAIN Hosts[m] /\ Hosts[m][l].class = Class[c]
    BY <1>1 DEF AllSlots, SlotsOf
  <2> QED
    BY <1>7, <1>8, <2>1
<1>10. HostFor(m, c) = IF slots = {} THEN 0 ELSE CHOOSE l \in slots : TRUE
  BY DEF HostFor
<1>11. HostFor(m, c) \in slots
  <2>1. slots # {}
    BY <1>4, <1>9
  <2> QED
    BY <1>10, <2>1
<1> QED
  BY <1>9, <1>11

\* No slot is given to two clients,
LEMMA SlotsDistinct ==
  ASSUME NEW m \in Msms, Matched(m, Len(Hosts[m])), NEW c \in Crew(m), NEW d \in Crew(m),
         HostFor(m, c) = HostFor(m, d)
  PROVE  c = d
<1>1. Class[c] = Class[d]
  BY SlotOfClient DEF AllSlots, SlotsOf
<1>2. Rank(CrewOf(m, Class[c]), c) = Rank(CrewOf(m, Class[c]), d)
  BY <1>1, SlotOfClient
<1>3. c \in CrewOf(m, Class[c]) /\ d \in CrewOf(m, Class[c])
  BY <1>1 DEF CrewOf
<1> QED
  BY <1>2, <1>3, CrewFinite, RankDistinct

\* and each slot is given to one.
LEMMA SlotsCovered ==
  ASSUME NEW m \in Msms, Matched(m, Len(Hosts[m])), NEW k \in DOMAIN Hosts[m]
  PROVE  \E c \in Crew(m) : HostFor(m, c) = k
<1> DEFINE class == Hosts[m][k].class
           S == AllSlots(m, class)
           C == CrewOf(m, class)
<1>1. S \subseteq Nat /\ IsFiniteSet(S) /\ k \in S
  BY SlotsFinite DEF AllSlots, SlotsOf
<1>2. Cardinality(C) = Cardinality(S)
  <2>1. class \in Classes
    BY DEF Classes
  <2> QED
    BY <2>1 DEF Matched, AllSlots
<1>3. PICK c \in C : Rank(C, c) = Rank(S, k)
  <2>1. Rank(S, k) \in 0 .. (Cardinality(C) - 1)
    BY <1>1, <1>2, RankType
  <2> QED
    BY <2>1, CrewFinite, RankOnto
<1>4. c \in Crew(m) /\ Class[c] = class
  BY DEF CrewOf
<1>5. HostFor(m, c) \in S /\ Rank(S, HostFor(m, c)) = Rank(S, k)
  BY <1>3, <1>4, SlotOfClient
<1>6. HostFor(m, c) = k
  BY <1>1, <1>5, RankDistinct
<1> QED
  BY <1>4, <1>6

\* So every client is assigned a slot, every slot a client, and there are as
\* many of the ones as of the others.
LEMMA SlotsAssigned ==
  ASSUME NEW m \in Msms, Matched(m, Len(Hosts[m]))
  PROVE  /\ Assigned(m) = Crew(m)
         /\ AllAssigned(m)
         /\ Cardinality(Crew(m)) = Len(Hosts[m])
<1>1. \A c \in Crew(m) : HostFor(m, c) \in 1 .. Len(Hosts[m])
  BY SlotOfClient DEF AllSlots, SlotsOf
<1>2. Len(Hosts[m]) \in Nat /\ DOMAIN Hosts[m] = 1 .. Len(Hosts[m])
  BY SlotsFinite
<1>3. Assigned(m) = Crew(m)
  BY <1>1, <1>2 DEF Assigned
<1>4. AllAssigned(m)
  BY SlotsCovered DEF AllAssigned
<1>5. Cardinality(Crew(m)) = Len(Hosts[m])
  <2> DEFINE T == 1 .. Len(Hosts[m])
             f == [c \in Crew(m) |-> HostFor(m, c)]
  <2>1. f \in [Crew(m) -> T]
    BY <1>1
  <2>2. f \in Bijection(Crew(m), T)
    <3>1. \A c, d \in Crew(m) : f[c] = f[d] => c = d
      BY SlotsDistinct
    <3>2. \A k \in T : \E c \in Crew(m) : f[c] = k
      BY <1>2, SlotsCovered
    <3> QED
      BY <2>1, <3>1, <3>2 DEF Bijection, Injection, Surjection, IsInjective
  <2>3. Cardinality(T) = Cardinality(Crew(m))
    BY <2>2, CrewFinite, FS_Bijection DEF ExistsBijection
  <2> QED
    BY <1>2, <2>3, SegmentSize
<1> QED
  BY <1>3, <1>4, <1>5

\* A measurement with parameters has a host, so it has a client.
LEMMA CrewNotEmpty ==
  ASSUME NEW m \in Msms, Fillable(m), Matched(m, Len(Hosts[m]))
  PROVE  Crew(m) # {}
<1>1. Cardinality(Crew(m)) = Len(Hosts[m]) /\ Len(Hosts[m]) \in Nat /\ Len(Hosts[m]) > 0
  BY SlotsAssigned, SlotsFinite DEF Fillable
<1>2. Cardinality({}) = 0
  BY FS_EmptySet
<1>3. ASSUME Crew(m) = {} PROVE FALSE
  <2>1. Cardinality(Crew(m)) = 0
    BY <1>2, <1>3
  <2> QED
    BY <1>1, <2>1
<1> QED
  BY <1>3

-----------------------------------------------------------------------------
(* The inductive invariant.                                                *)

Staffed ==
  /\ \A m \in Known : Fillable(m) /\ Matched(m, Len(Hosts[m]))
  /\ pc = "connect" =>
       /\ i \in 1 .. (Len(Hosts[new_m_id]) + 1)
       /\ Matched(new_m_id, i - 1)
  /\ pc \in {"connect", "auth"} => \A c \in Crew(new_m_id) : state[c] = "connected"

\* A measurement that has been sent its passwords is in a later stage than that.
InStep ==
  /\ \A c \in Metas : state[c] # "failed"
  /\ \A m \in Known :
       \/ pc = "auth" /\ m = new_m_id
       \/ \E stage \in Stages \ {{"connected"}} : \A c \in Crew(m) : state[c] \in stage

\* The states before a client is told its number of connections, and its bandwidth.
BeforeConns == {"invalid", "connected", "authing", "authed"}
BeforeBw == BeforeConns \cup {"told_connect_target", "connected_target"}

SlotsTold ==
  \A c \in Metas :
    /\ nconn_of[c] = IF state[c] \in BeforeConns THEN 0 ELSE HostFor(current_m_id[c], c)
    /\ bw_of[c] = IF state[c] \in BeforeBw THEN 0 ELSE HostFor(current_m_id[c], c)

\* A measurement the loop has advanced is waited for.
Waited(m) == Crew(m) \cap Awaiting # {}
Attended ==
  /\ pc = "advance" => i > 0 /\ \A j \in DOMAIN known_m_ids : j < i => Waited(known_m_ids[j])
  /\ pc = "poll" => \A m \in Known : Waited(m)

\* What the parser would have to check for the assertion of tc_tell_connect().
BackgroundIsBg ==
  \A m \in Msms : \A k \in DOMAIN Hosts[m] :
    Hosts[m][k].class \in BgClasses => Hosts[m][k].conns = 1

Crewed == Staffed /\ InStep /\ SlotsTold
Sound == BackgroundIsBg => NeverAborts

CrewInv == Crewed /\ Attended /\ Sound

\* A measurement whose clients stay keeps its count and its slots.
LEMMA CrewKept ==
  ASSUME NEW m, Crew(m)' = Crew(m)
  PROVE  /\ \A n : Matched(m, n)' <=> Matched(m, n)
         /\ \A c : HostFor(m, c)' = HostFor(m, c)
<1>1. \A class : CrewOf(m, class)' = CrewOf(m, class)
  BY DEF CrewOf
<1>2. \A n : Matched(m, n)' <=> Matched(m, n)
  BY <1>1 DEF Matched, Classes, SlotsOf
<1>3. \A c : HostFor(m, c)' = HostFor(m, c)
  BY DEF HostFor
<1> QED
  BY <1>2, <1>3

\* What the bookkeeping says about the measurements under way.
LEMMA UnderwayFacts ==
  ASSUME IInv
  PROVE  /\ 0 \notin Msms /\ Known \subseteq Msms
         /\ state \in [Metas -> CsmState] /\ current_m_id \in [Metas -> Msms \cup {0}]
         /\ nconn_of \in [Metas -> Nat] /\ bw_of \in [Metas -> Nat]
         /\ \A c \in Metas : (current_m_id[c] = 0) <=> (state[c] = "invalid")
         /\ \A c \in Metas : current_m_id[c] # 0 => current_m_id[c] \in Underway
         /\ \A m \in Underway : /\ m \in Msms /\ msm_state[m] = "InProgress"
                                /\ \A c \in Crew(m) : c \in Metas /\ state[c] # "invalid"
         /\ i \in Nat /\ known_m_ids \in Seq(Msms)
         /\ pc \notin {"connect", "auth", "aborted"} => Underway = Known /\ new_m_id = 0
         /\ pc \in {"connect", "auth"} => new_m_id \in Msms /\ new_m_id \in Underway
         /\ pc = "connect" => new_m_id \notin Known
         /\ pc = "auth" => new_m_id \in Known
         /\ \A k \in DOMAIN known_m_ids : known_m_ids[k] \in Known
<1>1. 0 \notin Msms /\ known_m_ids \in Seq(Msms)
  BY SchedAssumption DEF IInv, DataInv
<1>2. Known \subseteq Msms /\ \A k \in DOMAIN known_m_ids : known_m_ids[k] \in Known
  BY <1>1 DEF Known, Range
<1>3. \A m \in Underway : m \in Msms /\ msm_state[m] = "InProgress"
  BY DEF IInv, DataInv
<1>4. ClientInv /\ current_m_id \in [Metas -> Msms \cup {0}] /\ new_m_id \in Msms \cup {0}
  BY DEF IInv, DataInv
<1>5. \A m \in Underway : \A c \in Crew(m) : c \in Metas /\ state[c] # "invalid"
  BY <1>1, <1>3, <1>4 DEF Crew, ClientInv, UsedIffOpen
<1>6. /\ pc \notin {"connect", "auth", "aborted"} => Underway = Known /\ new_m_id = 0
      /\ pc \in {"connect", "auth"} => new_m_id \in Msms /\ new_m_id \in Underway
      /\ pc = "connect" => new_m_id \notin Known
      /\ pc = "auth" => new_m_id \in Known
  BY <1>4 DEF IInv, PlaceInv, Underway
<1> QED
  BY <1>1, <1>2, <1>3, <1>4, <1>5, <1>6
  DEF IInv, DataInv, PlaceInv, ClientInv, TorClientTypeOK, UsedIffOpen

\* The assertions on the way of a failing measurement hold.
LEMMA FailureAssertsHold ==
  ASSUME IInv, InStep, NEW m \in Underway
  PROVE  FailureAsserts(m)
<1>1. \A c \in Crew(m) : state[c] \in MayFail
  BY UnderwayFacts DEF InStep, MayFail
<1> QED
  BY <1>1, UnderwayFacts DEF FailureAsserts, FailureAssertsIn, GoodStateChanges

\* So they do when a part of its clients has been sent a command.
LEMMA HalfSentAssertsHold ==
  ASSUME IInv, InStep, NEW m \in Underway, NEW S, NEW c, NEW st \in MayFail
  PROVE  FailureAssertsIn(m, HalfSent(S, c, st))
<1>1. \A d \in Crew(m) : d \in Metas /\ state[d] \in MayFail
  BY UnderwayFacts DEF InStep, MayFail
<1>2. \A d \in Crew(m) : HalfSent(S, c, st)[d] \in MayFail
  BY <1>1 DEF HalfSent, Update
<1> QED
  BY <1>2, UnderwayFacts DEF FailureAssertsIn, GoodStateChanges

-----------------------------------------------------------------------------
(* The ends of a measurement.                                              *)

\* When the clients of one measurement are released, the others' stay.
LEMMA ReleaseCrew ==
  ASSUME IInv, Crewed, NEW m \in Underway, tc_finished_with_meta(Crew(m)),
         Known' = Known \ {m}, new_m_id' = 0, new_m_id \in {0, m},
         pc' \notin {"connect", "auth"}
  PROVE  /\ Crewed'
         /\ \A d \in Known' : Crew(d)' = Crew(d) /\ (Waited(d) => Waited(d)')
<1>1. /\ \A c \in Metas : /\ c \in Crew(m) => /\ state'[c] = "invalid"
                                              /\ current_m_id'[c] = 0
                                              /\ nconn_of'[c] = 0 /\ bw_of'[c] = 0
                          /\ c \notin Crew(m) => /\ state'[c] = state[c]
                                                 /\ current_m_id'[c] = current_m_id[c]
                                                 /\ nconn_of'[c] = nconn_of[c]
                                                 /\ bw_of'[c] = bw_of[c]
  BY UnderwayFacts DEF tc_finished_with_meta, Update, Crew
<1>2. m \in Msms /\ m # 0 /\ 0 \notin Msms /\ Known \subseteq Msms
  BY UnderwayFacts
<1>3. \A d \in Msms \ {m} : /\ Crew(d)' = Crew(d)
                            /\ \A c \in Crew(d) : c \in Metas /\ c \notin Crew(m)
  BY <1>1, <1>2 DEF Crew
<1>4. Staffed'
  <2>1. \A d \in Known' : Fillable(d)' /\ Matched(d, Len(Hosts[d]))'
    BY <1>2, <1>3, CrewKept DEF Crewed, Staffed, Fillable
  <2> QED
    BY <2>1 DEF Staffed
<1>5. InStep'
  <2>1. \A c \in Metas : state'[c] # "failed"
    BY <1>1 DEF Crewed, InStep
  <2>2. \A d \in Known' : d \in Known /\ d # new_m_id /\ d \in Msms \ {m}
    BY <1>2
  <2>3. \A d \in Known' : \E stage \in Stages \ {{"connected"}} :
          \A c \in Crew(d) : state[c] \in stage
    BY <2>2 DEF Crewed, InStep
  <2>4. \A d \in Known' : \E stage \in Stages \ {{"connected"}} :
          \A c \in Crew(d)' : state'[c] \in stage
    BY <1>1, <1>3, <2>2, <2>3
  <2> QED
    BY <2>1, <2>4 DEF InStep, Stages
<1>6. SlotsTold'
  <2> SUFFICES ASSUME NEW c \in Metas
               PROVE  /\ nconn_of'[c] = IF state'[c] \in BeforeConns THEN 0
                                        ELSE HostFor(current_m_id[c], c)'
                      /\ bw_of'[c] = IF state'[c] \in BeforeBw THEN 0
                                     ELSE HostFor(current_m_id[c], c)'
    BY DEF SlotsTold, BeforeConns, BeforeBw
  <2>1. CASE c \in Crew(m)
    BY <1>1, <2>1 DEF BeforeConns, BeforeBw
  <2>2. CASE c \notin Crew(m) /\ current_m_id[c] = 0
    <3>1. state[c] = "invalid"
      BY <2>2, UnderwayFacts
    <3> QED
      BY <1>1, <2>2, <3>1 DEF BeforeConns, BeforeBw, Crewed, SlotsTold
  <2>3. CASE c \notin Crew(m) /\ current_m_id[c] # 0
    <3>1. current_m_id[c] \in Msms \ {m}
      BY <2>3, UnderwayFacts DEF Crew
    <3>2. HostFor(current_m_id[c], c)' = HostFor(current_m_id[c], c)
      BY <1>1, <1>3, <2>3, <3>1, CrewKept
    <3> QED
      BY <1>1, <2>3, <3>2 DEF Crewed, SlotsTold
  <2> QED
    BY <2>1, <2>2, <2>3
<1>7. ASSUME NEW d \in Known', Waited(d) PROVE Waited(d)'
  <2>1. d \in Msms \ {m}
    BY <1>2
  <2> QED
    BY <1>1, <1>3, <1>7, <2>1 DEF Waited, Awaiting
<1> QED
  BY <1>2, <1>3, <1>4, <1>5, <1>6, <1>7 DEF Crewed

\* A measurement under way fails, on a path that ends at the loop's head or
\* begins the loop over the known ones anew.
LEMMA FailCrew ==
  ASSUME IInv, CrewInv, NEW m \in Underway, measurement_failed(m),
         new_m_id' = 0, new_m_id \in {0, m},
         pc' \notin {"connect", "auth", "poll"}, pc' = "advance" => i' = 1,
         FailureAsserts(m) => pc' # "aborted"
  PROVE  CrewInv'
<1>1. Known' = Known \ {m}
  <2>1. known_m_ids \in Seq(Msms) /\ Distinct(known_m_ids)
    BY DEF IInv, DataInv
  <2> QED
    BY <2>1, WithoutRange DEF measurement_failed, Known
<1>2. Crewed'
  BY <1>1, ReleaseCrew DEF CrewInv, measurement_failed
<1>3. Attended'
  <2>1. known_m_ids' \in Seq(Msms)
    <3>1. known_m_ids \in Seq(Msms) /\ Distinct(known_m_ids)
      BY DEF IInv, DataInv
    <3> QED
      BY <3>1, WithoutRange DEF measurement_failed
  <2>2. \A j \in DOMAIN known_m_ids' : ~ j < 1
    BY <2>1
  <2> QED
    BY <2>2 DEF Attended
<1>4. Sound'
  <2>1. FailureAsserts(m)
    BY FailureAssertsHold DEF CrewInv, Crewed
  <2> QED
    BY <2>1 DEF Sound, NeverAborts
<1> QED
  BY <1>2, <1>3, <1>4 DEF CrewInv

\* Every failure is one.
LEMMA FailuresCrew ==
  ASSUME IInv, CrewInv,
         \/ WatchdogFails \/ FailsafeFails \/ ConnectFails \/ SendAuthFails
         \/ TellConnectFails \/ SetBwFails \/ StartMeasuringFails
         \/ \E c \in Metas : AnswerFails(c) \/ ResultFails(c)
  PROVE  CrewInv'
<1>1. /\ known_m_ids \in Seq(Msms)
      /\ \A k \in DOMAIN known_m_ids : known_m_ids[k] \in Known
      /\ Known \subseteq Underway
      /\ pc \notin {"connect", "auth", "aborted"} => new_m_id = 0 /\ Underway = Known
      /\ pc \in {"connect", "auth"} => new_m_id \in Underway
  BY UnderwayFacts DEF Underway
<1>2. \A m \in Known : Fillable(m)
  BY DEF CrewInv, Crewed, Staffed
<1>3. CASE WatchdogFails
  <2> DEFINE m == known_m_ids[Len(known_m_ids)]
  <2>1. Len(known_m_ids) \in DOMAIN known_m_ids
    BY <1>1, <1>3 DEF WatchdogFails
  <2>2. m \in Underway
    BY <1>1, <2>1
  <2>3. /\ pc = "watchdog" /\ measurement_failed(m)
        /\ Goto(FailureAsserts(m), "watchdog") /\ UNCHANGED new_m_id
    BY <1>3 DEF WatchdogFails
  <2> HIDE DEF m
  <2> QED
    BY <1>1, <2>2, <2>3, FailCrew DEF Goto
<1>4. CASE FailsafeFails
  <2>1. /\ pc = "failsafe" /\ measurement_failed(Current) /\ Current \in Known
        /\ Goto(Fillable(Current) /\ FailureAsserts(Current), "failsafe")
        /\ UNCHANGED new_m_id
    BY <1>1, <1>4 DEF FailsafeFails, InLoop, Current
  <2> QED
    BY <1>1, <1>2, <2>1, FailCrew DEF Goto
<1>5. CASE ConnectFails
  <2>1. /\ pc = "connect" /\ measurement_failed(new_m_id)
        /\ Goto(FailureAsserts(new_m_id), "advance") /\ i' = 1 /\ new_m_id' = 0
    BY <1>5 DEF ConnectFails
  <2> QED
    BY <1>1, <2>1, FailCrew DEF Goto
<1>6. CASE SendAuthFails
  <2>1. /\ pc = "auth" /\ measurement_failed(new_m_id) /\ i' = 1 /\ new_m_id' = 0
        /\ \E c \in Crew(new_m_id) :
             Goto(/\ MayChange(Crew(new_m_id), "authing")
                  /\ FailureAssertsIn(new_m_id, HalfSent(Crew(new_m_id), c, "authing")),
                  "advance")
    BY <1>6 DEF SendAuthFails
  <2>2. MayChange(Crew(new_m_id), "authing")
    BY <2>1 DEF CrewInv, Crewed, Staffed, MayChange, GoodStateChanges
  <2>3. \A c : FailureAssertsIn(new_m_id, HalfSent(Crew(new_m_id), c, "authing"))
    BY <1>1, <2>1, HalfSentAssertsHold DEF CrewInv, Crewed, MayFail, CsmState
  <2>4. pc' = "advance"
    BY <2>1, <2>2, <2>3 DEF Goto
  <2> QED
    BY <1>1, <2>1, <2>4, FailCrew
<1>7. CASE TellConnectFails \/ SetBwFails \/ StartMeasuringFails
  <2>1. /\ pc = "advance" /\ measurement_failed(Current) /\ Current \in Known
        /\ UNCHANGED new_m_id
        /\ \E S, st : st \in MayFail /\ SendFails(S, st)
    BY <1>1, <1>7 DEF TellConnectFails, SetBwFails, StartMeasuringFails, SendFails,
                      Advancing, InLoop, Current, MayFail, CsmState
  <2>2. PICK S, st : st \in MayFail /\ SendFails(S, st)
    BY <2>1
  <2>3. \A c : FailureAssertsIn(Current, HalfSent(S, c, st))
    BY <1>1, <2>1, <2>2, HalfSentAssertsHold DEF CrewInv, Crewed
  <2>4. pc' = "top"
    BY <1>2, <2>1, <2>2, <2>3 DEF SendFails, Goto
  <2> QED
    BY <1>1, <2>1, <2>4, FailCrew
<1>8. ASSUME NEW c \in Metas, AnswerFails(c) \/ ResultFails(c)
      PROVE  CrewInv'
  <2> DEFINE m == current_m_id[c]
  <2>1. /\ pc = "events" /\ c \in events /\ measurement_failed(m)
        /\ Goto(ResultAsserts(c) /\ FailureAsserts(m), "top")
        /\ UNCHANGED new_m_id
    BY <1>8 DEF AnswerFails, ResultFails, EventFails
  <2>2. state[c] # "invalid"
    BY <2>1 DEF IInv, PlaceInv, EventsAreCurrent, Awaited, Answering
  <2>3. m \in Underway /\ m \in Known
    BY <1>1, <2>1, <2>2, UnderwayFacts
  <2>4. ResultAsserts(c)
    BY <1>2, <2>3 DEF ResultAsserts
  <2> HIDE DEF m
  <2> QED
    BY <1>1, <2>1, <2>3, <2>4, FailCrew DEF Goto
<1> QED
  BY <1>3, <1>4, <1>5, <1>6, <1>7, <1>8

\* A measurement succeeds: those the loop has visited are where they were.
LEMMA MeasurementDoneCrew ==
  ASSUME IInv, CrewInv, MeasurementDone
  PROVE  CrewInv'
<1>1. /\ pc = "advance" /\ i \in DOMAIN known_m_ids /\ i' = i
      /\ Goto(/\ Fillable(Current)
              /\ MayChange(Crew(Current), "invalid")
              /\ msm_state[Current] = "InProgress", "advance")
      /\ known_m_ids' = SwapRemove(known_m_ids, i)
      /\ tc_finished_with_meta(Crew(Current))
      /\ TotallyIn(Current, "done")
      /\ UNCHANGED new_m_id
  BY DEF MeasurementDone, Advancing, InLoop, Advanced, RemoveCurrent, Goto, AllReached
<1>2. /\ new_m_id = 0 /\ Current \in Known /\ Current \in Underway
      /\ known_m_ids \in Seq(Msms) /\ Distinct(known_m_ids) /\ i \in Nat
  BY <1>1, UnderwayFacts DEF Current, Underway, IInv, DataInv
<1>3. Known' = Known \ {Current}
  BY <1>1, <1>2, SwapRemoveRange DEF Known, Current
<1>4. /\ Crewed'
      /\ \A d \in Known' : Waited(d) => Waited(d)'
  BY <1>1, <1>2, <1>3, ReleaseCrew DEF CrewInv, Goto
<1>5. Attended'
  <2>1. /\ DOMAIN known_m_ids' = 1 .. (Len(known_m_ids) - 1)
        /\ \A k \in 1 .. (Len(known_m_ids) - 1) :
             known_m_ids'[k] = IF k = i THEN known_m_ids[Len(known_m_ids)]
                                        ELSE known_m_ids[k]
    BY <1>1, <1>2, SwapRemoveType
  <2>2. ASSUME NEW j \in DOMAIN known_m_ids', j < i, NEW d, d = known_m_ids'[j]
        PROVE  Waited(d)'
    <3>1. j \in DOMAIN known_m_ids /\ d = known_m_ids[j]
      BY <1>1, <1>2, <2>1, <2>2
    <3>2. Waited(d)
      BY <1>1, <2>2, <3>1 DEF CrewInv, Attended
    <3>3. d \in Known'
      BY <2>2 DEF Known, Range
    <3> QED
      BY <1>4, <3>2, <3>3
  <2>3. \A j \in DOMAIN known_m_ids' : j < i => Waited(known_m_ids[j])'
    BY <2>2
  <2>4. i' > 0 /\ pc' # "poll"
    BY <1>1 DEF CrewInv, Attended, Goto
  <2> QED
    BY <1>1, <2>3, <2>4 DEF Attended
<1>6. Sound'
  <2>1. Fillable(Current) /\ MayChange(Crew(Current), "invalid")
    BY <1>1, <1>2 DEF CrewInv, Crewed, Staffed, TotallyIn, MayChange, GoodStateChanges
  <2>2. msm_state[Current] = "InProgress"
    BY <1>2, UnderwayFacts
  <2> QED
    BY <1>1, <2>1, <2>2 DEF Goto, Sound, NeverAborts
<1> QED
  BY <1>4, <1>5, <1>6 DEF CrewInv

-----------------------------------------------------------------------------
(* Steps in which no client moves.                                         *)

\* Crews that stay as they are, between two places where they are complete.
LEMMA QuietCrew ==
  ASSUME Crewed, UNCHANGED <<state, current_m_id, nconn_of, bw_of, known_m_ids>>,
         \/ UNCHANGED <<pc, i, new_m_id>>
         \/ pc # "auth" /\ pc' \notin {"connect", "auth"}
  PROVE  /\ Crewed'
         /\ \A m : Crew(m)' = Crew(m) /\ (Waited(m)' <=> Waited(m))
<1>1. \A m : Crew(m)' = Crew(m)
  BY DEF Crew
<1>2. \A m : Waited(m)' <=> Waited(m)
  BY <1>1 DEF Waited, Awaiting
<1>3. Known' = Known
  BY DEF Known
<1>4. /\ \A m, n : Matched(m, n)' <=> Matched(m, n)
      /\ \A m, c : HostFor(m, c)' = HostFor(m, c)
  BY <1>1, CrewKept
<1>5. Staffed'
  <2>1. \A m \in Known' : Fillable(m)' /\ Matched(m, Len(Hosts[m]))'
    BY <1>3, <1>4 DEF Crewed, Staffed, Fillable
  <2>2. CASE UNCHANGED <<pc, i, new_m_id>>
    BY <1>1, <1>4, <2>1, <2>2 DEF Crewed, Staffed
  <2>3. CASE pc' \notin {"connect", "auth"}
    BY <2>1, <2>3 DEF Staffed
  <2> QED
    BY <2>2, <2>3
<1>6. InStep'
  BY <1>1, <1>3 DEF Crewed, InStep, Stages
<1>7. SlotsTold'
  BY <1>4 DEF Crewed, SlotsTold, BeforeConns, BeforeBw
<1> QED
  BY <1>1, <1>2, <1>5, <1>6, <1>7 DEF Crewed

\* What other clients do, and the clock, move nobody.
LEMMA WorldCrew ==
  ASSUME IInv, CrewInv, ClientWrites \/ \E m \in Msms : TimePasses(m)
  PROVE  CrewInv'
<1>1. UNCHANGED <<pc, loop_vars, state, current_m_id, nconn_of, bw_of>>
  BY DEF ClientWrites, Arrive, TimePasses, tc_vars
<1>2. Crewed' /\ \A m : Waited(m)' <=> Waited(m)
  BY <1>1, QuietCrew DEF CrewInv, loop_vars
<1>3. Attended'
  BY <1>1, <1>2 DEF CrewInv, Attended, loop_vars, Known
<1> QED
  BY <1>1, <1>2, <1>3 DEF CrewInv, Sound, NeverAborts

\* A known measurement with nothing to do is waited for.
LEMMA IdleIsWaited ==
  ASSUME IInv, Crewed, NEW m \in Known, pc = "advance",
         ~ TotallyIn(m, "authed"),
         \A st \in {"connected_target", "bw_set", "done"} :
           ~ (Crew(m) # {} /\ TotallyIn(m, st))
  PROVE  Waited(m)
<1>1. PICK stage \in Stages \ {{"connected"}} : \A c \in Crew(m) : state[c] \in stage
  BY DEF Crewed, InStep
<1>2. Crew(m) # {}
  BY DEF TotallyIn
<1>3. \A c \in Crew(m) : c \in Metas
  BY DEF Crew
<1>4. CASE stage = {"authing", "authed"}
  BY <1>1, <1>3, <1>4 DEF TotallyIn, Waited, Awaiting, Awaited, Answering
<1>5. CASE stage = {"told_connect_target", "connected_target"}
  BY <1>1, <1>2, <1>3, <1>5 DEF TotallyIn, Waited, Awaiting, Awaited, Answering
<1>6. CASE stage = {"setting_bw", "bw_set"}
  BY <1>1, <1>2, <1>3, <1>6 DEF TotallyIn, Waited, Awaiting, Awaited, Answering
<1>7. CASE stage = {"measuring", "done"}
  BY <1>1, <1>2, <1>3, <1>7 DEF TotallyIn, Waited, Awaiting, Awaited, Answering
<1> QED
  BY <1>1, <1>4, <1>5, <1>6, <1>7 DEF Stages

\* The steps from one place of the loop to the next.
LEMMA ControlCrew ==
  ASSUME IInv, CrewInv,
         \/ EnterLoop \/ Finish \/ WatchdogDone \/ FailsafePasses \/ FailsafeDone
         \/ StartNone \/ NothingToDo \/ AdvanceDone \/ PollFails \/ PollReturns
         \/ EventsDone
  PROVE  CrewInv'
<1>1. /\ UNCHANGED <<new_m_id, known_m_ids, state, current_m_id, nconn_of, bw_of>>
      /\ pc \notin {"connect", "auth", "aborted"}
  BY DEF EnterLoop, Finish, WatchdogDone, FailsafePasses, FailsafeDone, StartNone,
         NothingToDo, MovedOn, Advancing, AdvanceDone, PollFails, PollReturns,
         EventsDone, loop_vars, tc_vars
<1>2. /\ known_m_ids \in Seq(Msms) /\ Len(known_m_ids) \in Nat /\ i \in Nat
      /\ DOMAIN known_m_ids = 1 .. Len(known_m_ids)
      /\ \A k \in DOMAIN known_m_ids : known_m_ids[k] \in Known
      /\ \A m \in Known : Fillable(m)
  BY UnderwayFacts DEF CrewInv, Crewed, Staffed
<1>3. Known' = Known
  BY <1>1 DEF Known
<1>4. CASE NothingToDo
  <2>1. /\ pc = "advance" /\ InLoop /\ i' = i + 1
        /\ Goto(Fillable(Current), "advance")
    BY <1>4 DEF NothingToDo, Advancing, Advanced, MovedOn, Goto
  <2>2. Current \in Known
    BY <1>2, <2>1 DEF InLoop, Current
  <2>3. pc' = "advance"
    BY <1>2, <2>1, <2>2 DEF Goto
  <2>4. Crewed' /\ \A m : Waited(m)' <=> Waited(m)
    BY <1>1, <2>3, QuietCrew DEF CrewInv
  <2>5. Waited(Current)
    BY <1>4, <2>1, <2>2, IdleIsWaited DEF CrewInv, NothingToDo, AllReached
  <2>6. \A j \in DOMAIN known_m_ids : j < i + 1 => Waited(known_m_ids[j])
    BY <1>2, <2>1, <2>5 DEF CrewInv, Attended, Current
  <2>7. Attended'
    BY <1>1, <1>2, <2>1, <2>3, <2>4, <2>6 DEF Attended
  <2> QED
    BY <2>3, <2>4, <2>7 DEF CrewInv, Sound, NeverAborts
<1>5. CASE AdvanceDone
  <2>1. /\ pc = "advance" /\ ~ InLoop
        /\ pc' = IF Awaiting = {} THEN "top" ELSE "poll"
    BY <1>5 DEF AdvanceDone
  <2>2. Crewed' /\ \A m : Waited(m)' <=> Waited(m)
    BY <1>1, <2>1, QuietCrew DEF CrewInv
  <2>3. \A m \in Known : Waited(m)
    <3>1. \A j \in DOMAIN known_m_ids : j < i
      BY <1>2, <2>1 DEF InLoop, CrewInv, Attended
    <3> QED
      BY <2>1, <3>1 DEF CrewInv, Attended, Known, Range
  <2>4. Attended'
    BY <1>3, <2>1, <2>2, <2>3 DEF Attended
  <2> QED
    BY <2>1, <2>2, <2>4 DEF CrewInv, Sound, NeverAborts
<1>6. CASE StartNone
  <2>1. pc' = "advance" /\ i' = 1
    BY <1>6 DEF StartNone
  <2>2. Crewed'
    BY <1>1, <2>1, QuietCrew DEF CrewInv
  <2>3. Attended'
    BY <1>1, <1>2, <2>1 DEF Attended
  <2> QED
    BY <2>1, <2>2, <2>3 DEF CrewInv, Sound, NeverAborts
<1>7. CASE FailsafePasses
  <2>1. pc' = "failsafe"
    BY <1>2, <1>7 DEF FailsafePasses, InLoop, Current, Goto
  <2>2. Crewed'
    BY <1>1, <2>1, QuietCrew DEF CrewInv
  <2> QED
    BY <2>1, <2>2 DEF CrewInv, Attended, Sound, NeverAborts
<1>8. CASE \/ EnterLoop \/ Finish \/ WatchdogDone \/ FailsafeDone \/ PollFails
           \/ PollReturns \/ EventsDone
  <2>1. pc' \in {"watchdog", "failsafe", "finished", "start", "top", "events"}
    BY <1>8 DEF EnterLoop, Finish, WatchdogDone, FailsafeDone, PollFails,
                PollReturns, EventsDone
  <2>2. Crewed'
    BY <1>1, <2>1, QuietCrew DEF CrewInv
  <2> QED
    BY <2>1, <2>2 DEF CrewInv, Attended, Sound, NeverAborts
<1> QED
  BY <1>4, <1>5, <1>6, <1>7, <1>8

-----------------------------------------------------------------------------
(* Starting a measurement.                                                 *)

\* When a new round begins nobody is under way.
LEMMA StartupCrew ==
  ASSUME IInv, CrewInv, NEW file \in Schedules, Startup(file)
  PROVE  CrewInv'
<1>1. CASE Accepts(file)
  <2>1. /\ pc' = "top" /\ known_m_ids' = <<>> /\ tc_client_file_read
    BY <1>1 DEF Startup
  <2>2. Known' = {}
    BY <2>1 DEF Known, Range
  <2> QED
    BY <2>1, <2>2 DEF tc_client_file_read, CrewInv, Crewed, Staffed, InStep,
       SlotsTold, Attended, Sound, NeverAborts, BeforeConns, BeforeBw
<1>2. CASE ~ Accepts(file)
  <2>1. /\ pc' = "panicked" /\ pc # "auth"
        /\ UNCHANGED <<known_m_ids, state, current_m_id, nconn_of, bw_of>>
    BY <1>2 DEF Startup, loop_vars, tc_vars
  <2>2. Crewed'
    BY <2>1, QuietCrew DEF CrewInv
  <2> QED
    BY <2>1, <2>2 DEF CrewInv, Attended, Sound, NeverAborts
<1> QED
  BY <1>1, <1>2

\* A measurement that is handed out has no client yet.
LEMMA StartNextCrew ==
  ASSUME IInv, CrewInv, NEW m \in Msms, StartNext(m)
  PROVE  CrewInv'
<1>1. /\ pc = "start" /\ pc' = "connect" /\ i' = 1 /\ new_m_id' = m
      /\ msm_state[m] = "Waiting"
      /\ UNCHANGED <<known_m_ids, state, current_m_id, nconn_of, bw_of>>
  BY DEF StartNext, sched_next, Ready, tc_vars
<1>2. Known' = Known
  BY <1>1 DEF Known
<1>3. \A d : Crew(d)' = Crew(d)
  BY <1>1 DEF Crew
<1>4. m \notin Underway /\ 0 \notin Msms
  BY <1>1, UnderwayFacts
<1>5. Crew(m)' = {}
  <2>1. \A c \in Metas : current_m_id[c] # m
    BY <1>4, UnderwayFacts
  <2> QED
    BY <1>3, <2>1 DEF Crew
<1>6. Matched(m, 0)'
  <2>1. \A class : CrewOf(m, class)' = {} /\ SlotsOf(m, 0, class)' = {}
    BY <1>5 DEF CrewOf, SlotsOf
  <2> QED
    BY <2>1 DEF Matched
<1>7. Staffed'
  <2>1. \A d \in Known' : Fillable(d)' /\ Matched(d, Len(Hosts[d]))'
    BY <1>2, <1>3, CrewKept DEF CrewInv, Crewed, Staffed, Fillable
  <2>2. Len(Hosts[m]) \in Nat
    BY SlotsFinite
  <2>3. i' \in 1 .. (Len(Hosts[m]) + 1) /\ i' - 1 = 0
    BY <1>1, <2>2
  <2> QED
    BY <1>1, <1>5, <1>6, <2>1, <2>3 DEF Staffed
<1>8. InStep'
  BY <1>1, <1>2, <1>3 DEF CrewInv, Crewed, InStep, Stages
<1>9. SlotsTold'
  BY <1>1, <1>3, CrewKept DEF CrewInv, Crewed, SlotsTold, BeforeConns, BeforeBw
<1> QED
  BY <1>1, <1>7, <1>8, <1>9 DEF CrewInv, Crewed, Attended, Sound, NeverAborts

\* A host's slot that is filled: the crew grows by a client of its class.
LEMMA MatchedGrows ==
  ASSUME NEW m \in Msms, NEW n \in DOMAIN Hosts[m], NEW c \in Metas,
         c \notin Crew(m), Crew(m)' = Crew(m) \cup {c},
         Class[c] = Hosts[m][n].class, Matched(m, n - 1)
  PROVE  Matched(m, n)'
<1> SUFFICES ASSUME NEW class \in Classes
             PROVE  Cardinality(CrewOf(m, class)') = Cardinality(SlotsOf(m, n, class))
  BY DEF Matched, Classes, SlotsOf
<1> DEFINE C == CrewOf(m, class)
           S == SlotsOf(m, n - 1, class)
<1>1. n \in Nat /\ n - 1 \in Nat /\ \A k : k \in 1 .. n <=> k \in 1 .. (n - 1) \/ k = n
  BY SlotsFinite
<1>2. IsFiniteSet(C) /\ IsFiniteSet(S) /\ Cardinality(C) = Cardinality(S)
  BY <1>1, CrewFinite, SlotsFinite DEF Matched
<1>3. CASE class = Class[c]
  <2>1. CrewOf(m, class)' = C \cup {c} /\ c \notin C
    BY <1>3 DEF CrewOf
  <2>2. SlotsOf(m, n, class) = S \cup {n} /\ n \notin S
    BY <1>1, <1>3 DEF SlotsOf
  <2>3. /\ Cardinality(C \cup {c}) = Cardinality(C) + 1
        /\ Cardinality(S \cup {n}) = Cardinality(S) + 1
    BY <1>2, <2>1, <2>2, FS_AddElement
  <2> QED
    BY <1>2, <2>1, <2>2, <2>3
<1>4. CASE class # Class[c]
  <2>1. CrewOf(m, class)' = C
    BY <1>4 DEF CrewOf
  <2>2. SlotsOf(m, n, class) = S
    BY <1>1, <1>4 DEF SlotsOf
  <2> QED
    BY <1>2, <2>1, <2>2
<1> QED
  BY <1>3, <1>4

\* The assertion that a client that is taken was not connected holds.
LEMMA ConnectCrew ==
  ASSUME IInv, CrewInv, NEW c \in Metas, Connect(c), NEW m, m = new_m_id
  PROVE  CrewInv'
<1> DEFINE class == Hosts[m][i].class
<1>1. /\ pc = "connect" /\ i \in DOMAIN Hosts[m] /\ i' = i + 1
      /\ UNCHANGED <<new_m_id, known_m_ids>>
      /\ Goto(\A d \in Available(class) : d <= c => state[d] = "invalid", "connect")
      /\ tc_next_available(c, class, m)
  BY DEF Connect
<1>2. /\ Class[c] = class /\ current_m_id[c] = 0
      /\ state' = [state EXCEPT ![c] = "connected"]
      /\ current_m_id' = [current_m_id EXCEPT ![c] = m]
      /\ UNCHANGED <<nconn_of, bw_of>>
  BY <1>1 DEF tc_next_available, Available
<1>3. /\ m \in Msms /\ m \notin Known /\ 0 \notin Msms /\ Known \subseteq Msms
      /\ state \in [Metas -> CsmState] /\ current_m_id \in [Metas -> Msms \cup {0}]
      /\ state[c] = "invalid"
  BY <1>1, <1>2, UnderwayFacts
<1>4. /\ Crew(m)' = Crew(m) \cup {c} /\ c \notin Crew(m)
      /\ \A d \in Msms \ {m} : Crew(d)' = Crew(d) /\ c \notin Crew(d)
  BY <1>2, <1>3 DEF Crew
<1>5. Known' = Known
  BY <1>1 DEF Known
<1>6. pc' = "connect"
  BY <1>1, UnderwayFacts DEF Goto, Available
<1>7. Staffed'
  <2>1. \A d \in Known' : Fillable(d)' /\ Matched(d, Len(Hosts[d]))'
    BY <1>3, <1>4, <1>5, CrewKept DEF CrewInv, Crewed, Staffed, Fillable
  <2>2. Len(Hosts[m]) \in Nat /\ i \in 1 .. Len(Hosts[m])
    BY <1>1, <1>3, SlotsFinite
  <2>3. i' \in 1 .. (Len(Hosts[m]) + 1) /\ i' - 1 = i
    BY <1>1, <2>2
  <2>4. Matched(m, i - 1)
    BY <1>1 DEF CrewInv, Crewed, Staffed
  <2>5. \A n : n = i => Matched(m, n)'
    BY <1>1, <1>2, <1>3, <1>4, <2>4, MatchedGrows
  <2>6. \A d \in Crew(m)' : state'[d] = "connected"
    BY <1>1, <1>2, <1>3, <1>4 DEF CrewInv, Crewed, Staffed, Crew
  <2> QED
    BY <1>1, <1>6, <2>1, <2>3, <2>5, <2>6 DEF Staffed
<1>8. InStep'
  <2>1. \A d \in Known' : \A e \in Crew(d)' : e \in Crew(d) /\ state'[e] = state[e]
    BY <1>2, <1>3, <1>4, <1>5 DEF Crew
  <2>2. \A d \in Metas : state'[d] # "failed"
    BY <1>2, <1>3 DEF CrewInv, Crewed, InStep
  <2>3. \A d \in Known : \E stage \in Stages \ {{"connected"}} :
          \A e \in Crew(d) : state[e] \in stage
    BY <1>1 DEF CrewInv, Crewed, InStep
  <2>4. \A d \in Known' : \E stage \in Stages \ {{"connected"}} :
          \A e \in Crew(d)' : state'[e] \in stage
    BY <1>5, <2>1, <2>3
  <2> QED
    BY <2>2, <2>4 DEF InStep, Stages
<1>9. SlotsTold'
  <2> SUFFICES ASSUME NEW d \in Metas
               PROVE  /\ nconn_of'[d] = IF state'[d] \in BeforeConns THEN 0
                                        ELSE HostFor(current_m_id[d], d)'
                      /\ bw_of'[d] = IF state'[d] \in BeforeBw THEN 0
                                     ELSE HostFor(current_m_id[d], d)'
    BY DEF SlotsTold, BeforeConns, BeforeBw
  <2>1. /\ nconn_of'[d] = IF state[d] \in BeforeConns THEN 0
                                        ELSE HostFor(current_m_id[d], d)
        /\ bw_of'[d] = IF state[d] \in BeforeBw THEN 0
                                     ELSE HostFor(current_m_id[d], d)
    BY <1>2 DEF CrewInv, Crewed, SlotsTold
  <2>2. CASE d \in Crew(m)'
    <3>1. state'[d] = "connected" /\ state[d] \in {"invalid", "connected"}
      BY <1>1, <1>2, <1>3, <1>4, <2>2 DEF CrewInv, Crewed, Staffed
    <3> QED
      BY <2>1, <3>1 DEF BeforeConns, BeforeBw
  <2>3. CASE d \notin Crew(m)'
    <3>1. d # c /\ state'[d] = state[d] /\ current_m_id'[d] = current_m_id[d]
      BY <1>2, <1>3, <1>4, <2>3
    <3>2. CASE current_m_id[d] = 0
      <4>1. state[d] = "invalid"
        BY <3>2, UnderwayFacts
      <4> QED
        BY <2>1, <3>1, <4>1 DEF BeforeConns, BeforeBw
    <3>3. CASE current_m_id[d] # 0
      <4>1. current_m_id[d] \in Msms \ {m}
        BY <1>3, <1>4, <2>3, <3>3 DEF Crew
      <4>2. HostFor(current_m_id[d], d)' = HostFor(current_m_id[d], d)
        BY <1>4, <3>1, <4>1, CrewKept
      <4> QED
        BY <2>1, <3>1, <4>2
    <3> QED
      BY <3>2, <3>3
  <2> QED
    BY <2>2, <2>3
<1> QED
  BY <1>6, <1>7, <1>8, <1>9 DEF CrewInv, Crewed, Attended, Sound, NeverAborts

\* The measurement is known when all of its hosts have a client.
LEMMA ConnectDoneCrew ==
  ASSUME IInv, CrewInv, ConnectDone
  PROVE  CrewInv'
<1>1. /\ pc = "connect" /\ pc' = "auth" /\ UNCHANGED new_m_id
      /\ UNCHANGED <<state, current_m_id, nconn_of, bw_of>>
      /\ Fillable(new_m_id) /\ i > Len(Hosts[new_m_id])
      /\ known_m_ids' = Append(known_m_ids, new_m_id)
  BY DEF ConnectDone, tc_vars
<1>2. new_m_id \in Msms /\ known_m_ids \in Seq(Msms)
  BY <1>1, UnderwayFacts
<1>3. Known' = Known \cup {new_m_id}
  <2>1. /\ Len(known_m_ids) \in Nat /\ DOMAIN known_m_ids = 1 .. Len(known_m_ids)
        /\ DOMAIN known_m_ids' = 1 .. (Len(known_m_ids) + 1)
        /\ \A j \in 1 .. Len(known_m_ids) : known_m_ids'[j] = known_m_ids[j]
        /\ known_m_ids'[Len(known_m_ids) + 1] = new_m_id
    BY <1>1, <1>2
  <2> QED
    BY <2>1 DEF Known, Range
<1>4. \A m : Crew(m)' = Crew(m)
  BY <1>1 DEF Crew
<1>5. Matched(new_m_id, Len(Hosts[new_m_id]))
  <2>1. Len(Hosts[new_m_id]) \in Nat /\ i \in 1 .. (Len(Hosts[new_m_id]) + 1)
    BY <1>1, <1>2, SlotsFinite DEF CrewInv, Crewed, Staffed
  <2>2. i - 1 = Len(Hosts[new_m_id])
    BY <1>1, <2>1
  <2> QED
    BY <1>1, <2>2 DEF CrewInv, Crewed, Staffed
<1>6. Staffed'
  <2>1. \A d \in Known \cup {new_m_id} : Fillable(d) /\ Matched(d, Len(Hosts[d]))
    BY <1>1, <1>5 DEF CrewInv, Crewed, Staffed
  <2>2. \A d \in Known' : Fillable(d)' /\ Matched(d, Len(Hosts[d]))'
    BY <1>3, <1>4, <2>1, CrewKept DEF Fillable
  <2> QED
    BY <1>1, <1>4, <2>2 DEF Staffed, CrewInv, Crewed
<1>7. InStep'
  BY <1>1, <1>3, <1>4 DEF CrewInv, Crewed, InStep, Stages
<1>8. SlotsTold'
  BY <1>1, <1>4, CrewKept DEF CrewInv, Crewed, SlotsTold, BeforeConns, BeforeBw
<1> QED
  BY <1>1, <1>6, <1>7, <1>8 DEF CrewInv, Crewed, Attended, Sound, NeverAborts

-----------------------------------------------------------------------------
(* Commands and answers.                                                   *)

\* A command sent to the whole crew of a measurement moves that crew to the
\* command's stage, and no other client.
LEMMA SentCrew ==
  ASSUME IInv, Crewed, NEW m \in Known, NEW st,
         state' = Update(state, Crew(m), st), UNCHANGED <<current_m_id, known_m_ids>>,
         NEW stage \in Stages \ {{"connected"}}, st \in stage,
         pc' \notin {"connect", "auth"}, pc = "auth" => m = new_m_id
  PROVE  /\ Staffed' /\ InStep'
         /\ \A d : Crew(d)' = Crew(d)
         /\ \A d, c : HostFor(d, c)' = HostFor(d, c)
         /\ \A c \in Metas : state'[c] = IF c \in Crew(m) THEN st ELSE state[c]
         /\ \A d \in Known \ {m} : Waited(d)' <=> Waited(d)
<1>1. \A d : Crew(d)' = Crew(d)
  BY DEF Crew
<1>2. Known' = Known
  BY DEF Known
<1>3. \A c \in Metas : state'[c] = IF c \in Crew(m) THEN st ELSE state[c]
  BY DEF Update
<1>4. \A d \in Known \ {m} : \A c \in Crew(d) : c \in Metas /\ state'[c] = state[c]
  BY <1>3 DEF Crew
<1>5. Staffed'
  BY <1>1, <1>2, CrewKept DEF Crewed, Staffed, Fillable
<1>6. InStep'
  <2>1. \A c \in Metas : state'[c] # "failed"
    BY <1>3 DEF Crewed, InStep, Stages
  <2>2. ASSUME NEW d \in Known
        PROVE  \E s \in Stages \ {{"connected"}} : \A c \in Crew(d) : state'[c] \in s
    <3>1. CASE d = m
      BY <1>3, <3>1 DEF Crew
    <3>2. CASE d # m
      <4>1. \E s \in Stages \ {{"connected"}} : \A c \in Crew(d) : state[c] \in s
        BY <3>2 DEF Crewed, InStep
      <4> QED
        BY <1>4, <3>2, <4>1
    <3> QED
      BY <3>1, <3>2
  <2>3. \A d \in Known' : \E s \in Stages \ {{"connected"}} :
          \A c \in Crew(d)' : state'[c] \in s
    BY <1>1, <1>2, <2>2
  <2> QED
    BY <2>1, <2>3 DEF InStep, Stages
<1>7. \A d \in Known \ {m} : Waited(d)' <=> Waited(d)
  BY <1>1, <1>4 DEF Waited, Awaiting
<1> QED
  BY <1>1, <1>3, <1>5, <1>6, <1>7, CrewKept

\* The password.
LEMMA SendAuthCrew ==
  ASSUME IInv, CrewInv, SendAuth, NEW m, m = new_m_id
  PROVE  CrewInv'
<1>1. /\ pc = "auth" /\ i' = 1 /\ new_m_id' = 0 /\ UNCHANGED known_m_ids
      /\ Goto(MayChange(Crew(m), "authing"), "advance")
      /\ state' = Update(state, Crew(m), "authing")
      /\ UNCHANGED <<current_m_id, nconn_of, bw_of>>
  BY DEF SendAuth, tc_auth_socket, Sent
<1>2. m \in Known /\ known_m_ids \in Seq(Msms)
  BY <1>1, UnderwayFacts
<1>3. \A c \in Crew(m) : c \in Metas /\ state[c] = "connected"
  BY <1>1 DEF CrewInv, Crewed, Staffed, Crew
<1>4. pc' = "advance"
  BY <1>1, <1>3 DEF Goto, MayChange, GoodStateChanges
<1>5. /\ Staffed' /\ InStep'
      /\ \A d, c : HostFor(d, c)' = HostFor(d, c)
      /\ \A c \in Metas : state'[c] = IF c \in Crew(m) THEN "authing" ELSE state[c]
  <2>1. {"authing", "authed"} \in Stages \ {{"connected"}}
    BY DEF Stages
  <2> QED
    BY <1>1, <1>2, <1>4, <2>1, SentCrew DEF CrewInv
<1>6. SlotsTold'
  BY <1>1, <1>3, <1>5 DEF CrewInv, Crewed, SlotsTold, BeforeConns, BeforeBw
<1>7. Attended'
  BY <1>1, <1>2, <1>4 DEF Attended
<1> QED
  BY <1>4, <1>5, <1>6, <1>7 DEF CrewInv, Crewed, Sound, NeverAborts

\* The loop goes on from a measurement that is now waited for.
LEMMA AdvancedAttended ==
  ASSUME IInv, CrewInv, pc = "advance", i \in DOMAIN known_m_ids, i' = i + 1,
         pc' \in {"advance", "aborted"}, UNCHANGED known_m_ids,
         NEW m, m = Current, Waited(m)',
         \A d \in Known \ {m} : Waited(d)' <=> Waited(d)
  PROVE  Attended'
<1>1. i \in Nat /\ DOMAIN known_m_ids \subseteq Nat /\ known_m_ids[i] = m
  BY UnderwayFacts DEF Current
<1>2. ASSUME NEW j \in DOMAIN known_m_ids, j < i + 1, NEW d, d = known_m_ids[j]
      PROVE  Waited(d)'
  <2>1. d \in Known
    BY <1>2 DEF Known, Range
  <2>2. CASE j = i
    BY <1>1, <1>2, <2>2
  <2>3. CASE j < i
    BY <1>2, <2>1, <2>3 DEF CrewInv, Attended
  <2> QED
    BY <1>1, <1>2, <2>2, <2>3
<1>3. \A j \in DOMAIN known_m_ids' : j < i' => Waited(known_m_ids[j])'
  BY <1>2
<1> QED
  BY <1>1, <1>3 DEF Attended

\* What holds of the measurement the loop is at.
LEMMA CurrentFacts ==
  ASSUME IInv, CrewInv, pc = "advance", i \in DOMAIN known_m_ids
  PROVE  /\ Current \in Known /\ Current \in Msms
         /\ Fillable(Current) /\ Matched(Current, Len(Hosts[Current]))
         /\ Crew(Current) # {} /\ Crew(Current) \subseteq Metas
         /\ Assigned(Current) = Crew(Current) /\ AllAssigned(Current)
         /\ Cardinality(Crew(Current)) = Len(Hosts[Current])
<1>1. Current \in Known /\ Current \in Msms
  BY UnderwayFacts DEF Current
<1>2. Fillable(Current) /\ Matched(Current, Len(Hosts[Current]))
  BY <1>1 DEF CrewInv, Crewed, Staffed
<1>3. /\ Assigned(Current) = Crew(Current) /\ AllAssigned(Current)
      /\ Cardinality(Crew(Current)) = Len(Hosts[Current])
  BY <1>1, <1>2, SlotsAssigned
<1>4. Crew(Current) # {}
  BY <1>1, <1>2, CrewNotEmpty
<1> QED
  BY <1>1, <1>2, <1>3, <1>4, CrewFinite

\* The number of connections: each client is told that of the slot it has, and
\* the assertion on it is the one that needs the file to be right.
LEMMA TellConnectCrew ==
  ASSUME IInv, CrewInv, TellConnect, NEW m, m = Current
  PROVE  CrewInv'
<1>1. /\ pc = "advance" /\ i \in DOMAIN known_m_ids /\ i' = i + 1
      /\ UNCHANGED <<new_m_id, known_m_ids>>
      /\ \A c \in Crew(m) : state[c] = "authed"
      /\ Goto(/\ Fillable(m) /\ ConnsAssert(Assigned(m))
              /\ MayChange(Assigned(m), "told_connect_target") /\ AllAssigned(m),
              "advance")
      /\ tc_tell_connect(Assigned(m), Slots(m))
  BY DEF TellConnect, Advancing, InLoop, Advanced, MovedOn, TotallyIn, Goto
<1>2. /\ m \in Known /\ m \in Msms /\ Fillable(m) /\ Matched(m, Len(Hosts[m]))
      /\ Crew(m) # {} /\ Crew(m) \subseteq Metas
      /\ Assigned(m) = Crew(m) /\ AllAssigned(m)
  BY <1>1, CurrentFacts
<1>3. /\ state' = Update(state, Crew(m), "told_connect_target")
      /\ \A c \in Metas : nconn_of'[c] = IF c \in Crew(m) THEN HostFor(m, c)
                                                          ELSE nconn_of[c]
      /\ UNCHANGED <<current_m_id, bw_of>>
  BY <1>1, <1>2 DEF tc_tell_connect, Slots
<1>4. /\ Staffed' /\ InStep'
      /\ \A d : Crew(d)' = Crew(d)
      /\ \A d, c : HostFor(d, c)' = HostFor(d, c)
      /\ \A c \in Metas :
           state'[c] = IF c \in Crew(m) THEN "told_connect_target" ELSE state[c]
      /\ \A d \in Known \ {m} : Waited(d)' <=> Waited(d)
  <2>1. {"told_connect_target", "connected_target"} \in Stages \ {{"connected"}}
    BY DEF Stages
  <2> QED
    BY <1>1, <1>2, <1>3, <2>1, SentCrew DEF CrewInv, Goto
<1>5. SlotsTold'
  <2> SUFFICES ASSUME NEW c \in Metas
               PROVE  /\ nconn_of'[c] = IF state'[c] \in BeforeConns THEN 0
                                        ELSE HostFor(current_m_id[c], c)
                      /\ bw_of'[c] = IF state'[c] \in BeforeBw THEN 0
                                     ELSE HostFor(current_m_id[c], c)
    BY <1>3, <1>4 DEF SlotsTold, BeforeConns, BeforeBw
  <2>1. CASE c \in Crew(m)
    BY <1>1, <1>3, <1>4, <2>1 DEF CrewInv, Crewed, SlotsTold, BeforeConns, BeforeBw, Crew
  <2>2. CASE c \notin Crew(m)
    BY <1>3, <1>4, <2>2 DEF CrewInv, Crewed, SlotsTold
  <2> QED
    BY <2>1, <2>2
<1>6. Attended'
  <2>1. Waited(m)'
    BY <1>2, <1>4 DEF Waited, Awaiting, Awaited, Answering
  <2> QED
    BY <1>1, <1>4, <2>1, AdvancedAttended DEF Goto
<1>7. Sound'
  <2> SUFFICES ASSUME BackgroundIsBg PROVE pc' # "aborted"
    BY DEF Sound, NeverAborts, BackgroundIsBg
  <2>1. MayChange(Crew(m), "told_connect_target")
    BY <1>1 DEF MayChange, GoodStateChanges
  <2>2. ASSUME NEW c \in Crew(m), IsBg(c) PROVE Hosts[m][HostFor(m, c)].conns = 1
    <3>1. HostFor(m, c) \in DOMAIN Hosts[m] /\ Hosts[m][HostFor(m, c)].class = Class[c]
      BY <1>2, SlotOfClient, SlotsFinite DEF AllSlots, SlotsOf
    <3> QED
      BY <1>2, <2>2, <3>1 DEF BackgroundIsBg, IsBg
  <2>3. ConnsAssert(Crew(m))
    BY <2>2 DEF ConnsAssert
  <2> QED
    BY <1>1, <1>2, <2>1, <2>3 DEF Goto
<1> QED
  BY <1>4, <1>5, <1>6, <1>7 DEF CrewInv, Crewed

\* The bandwidth, which is that of the same slot.
LEMMA SetBwCrew ==
  ASSUME IInv, CrewInv, SetBw, NEW m, m = Current
  PROVE  CrewInv'
<1>1. /\ pc = "advance" /\ i \in DOMAIN known_m_ids /\ i' = i + 1
      /\ UNCHANGED <<new_m_id, known_m_ids>>
      /\ \A c \in Crew(m) : state[c] = "connected_target"
      /\ Goto(/\ Fillable(m) /\ MayChange(Assigned(m), "setting_bw") /\ AllAssigned(m),
              "advance")
      /\ tc_set_bw_rate(Assigned(m), Slots(m))
  BY DEF SetBw, Advancing, InLoop, Advanced, MovedOn, AllReached, TotallyIn, Goto
<1>2. /\ m \in Known /\ m \in Msms /\ Fillable(m)
      /\ Crew(m) # {} /\ Crew(m) \subseteq Metas
      /\ Assigned(m) = Crew(m) /\ AllAssigned(m)
  BY <1>1, CurrentFacts
<1>3. /\ state' = Update(state, Crew(m), "setting_bw")
      /\ \A c \in Metas : bw_of'[c] = IF c \in Crew(m) THEN HostFor(m, c) ELSE bw_of[c]
      /\ UNCHANGED <<current_m_id, nconn_of>>
  BY <1>1, <1>2 DEF tc_set_bw_rate, Slots
<1>4. pc' = "advance"
  BY <1>1, <1>2 DEF Goto, MayChange, GoodStateChanges
<1>5. /\ Staffed' /\ InStep'
      /\ \A d : Crew(d)' = Crew(d)
      /\ \A d, c : HostFor(d, c)' = HostFor(d, c)
      /\ \A c \in Metas : state'[c] = IF c \in Crew(m) THEN "setting_bw" ELSE state[c]
      /\ \A d \in Known \ {m} : Waited(d)' <=> Waited(d)
  <2>1. {"setting_bw", "bw_set"} \in Stages \ {{"connected"}}
    BY DEF Stages
  <2> QED
    BY <1>1, <1>2, <1>3, <1>4, <2>1, SentCrew DEF CrewInv
<1>6. SlotsTold'
  <2> SUFFICES ASSUME NEW c \in Metas
               PROVE  /\ nconn_of'[c] = IF state'[c] \in BeforeConns THEN 0
                                        ELSE HostFor(current_m_id[c], c)
                      /\ bw_of'[c] = IF state'[c] \in BeforeBw THEN 0
                                     ELSE HostFor(current_m_id[c], c)
    BY <1>3, <1>5 DEF SlotsTold, BeforeConns, BeforeBw
  <2>1. CASE c \in Crew(m)
    BY <1>1, <1>3, <1>5, <2>1 DEF CrewInv, Crewed, SlotsTold, BeforeConns, BeforeBw, Crew
  <2>2. CASE c \notin Crew(m)
    BY <1>3, <1>5, <2>2 DEF CrewInv, Crewed, SlotsTold
  <2> QED
    BY <2>1, <2>2
<1>7. Attended'
  <2>1. Waited(m)'
    BY <1>2, <1>5 DEF Waited, Awaiting, Awaited, Answering
  <2> QED
    BY <1>1, <1>4, <1>5, <2>1, AdvancedAttended
<1> QED
  BY <1>4, <1>5, <1>6, <1>7 DEF CrewInv, Crewed, Sound, NeverAborts

\* The duration, to as many clients as the measurement has hosts.
LEMMA StartMeasuringCrew ==
  ASSUME IInv, CrewInv, StartMeasuring, NEW m, m = Current
  PROVE  CrewInv'
<1>1. /\ pc = "advance" /\ i \in DOMAIN known_m_ids /\ i' = i + 1
      /\ UNCHANGED <<new_m_id, known_m_ids>>
      /\ \A c \in Crew(m) : state[c] = "bw_set"
      /\ Goto(/\ Fillable(m) /\ MayChange(Crew(m), "measuring")
              /\ Cardinality(Crew(m)) = Len(Hosts[m]), "advance")
      /\ state' = Update(state, Crew(m), "measuring")
      /\ UNCHANGED <<current_m_id, nconn_of, bw_of>>
  BY DEF StartMeasuring, Advancing, InLoop, Advanced, AllReached, TotallyIn, Goto,
         tc_start_measurement, Sent
<1>2. /\ m \in Known /\ Fillable(m) /\ Crew(m) # {} /\ Crew(m) \subseteq Metas
      /\ Cardinality(Crew(m)) = Len(Hosts[m])
  BY <1>1, CurrentFacts
<1>3. pc' = "advance"
  BY <1>1, <1>2 DEF Goto, MayChange, GoodStateChanges
<1>4. /\ Staffed' /\ InStep'
      /\ \A d : Crew(d)' = Crew(d)
      /\ \A d, c : HostFor(d, c)' = HostFor(d, c)
      /\ \A c \in Metas : state'[c] = IF c \in Crew(m) THEN "measuring" ELSE state[c]
      /\ \A d \in Known \ {m} : Waited(d)' <=> Waited(d)
  <2>1. {"measuring", "done"} \in Stages \ {{"connected"}}
    BY DEF Stages
  <2> QED
    BY <1>1, <1>2, <1>3, <2>1, SentCrew DEF CrewInv
<1>5. SlotsTold'
  BY <1>1, <1>4 DEF CrewInv, Crewed, SlotsTold, BeforeConns, BeforeBw
<1>6. Attended'
  <2>1. Waited(m)'
    BY <1>2, <1>4 DEF Waited, Awaiting, Awaited, Answering
  <2> QED
    BY <1>1, <1>3, <1>4, <2>1, AdvancedAttended
<1> QED
  BY <1>3, <1>4, <1>5, <1>6 DEF CrewInv, Crewed, Sound, NeverAborts

\* An answer moves one client, within the stage its measurement is in.
LEMMA ReadingCrew ==
  ASSUME IInv, CrewInv, NEW c \in Metas, Answered(c) \/ ResultRead(c)
  PROVE  CrewInv'
<1>1. /\ pc = "events" /\ UNCHANGED <<new_m_id, known_m_ids, current_m_id, nconn_of, bw_of>>
      /\ \A d \in Metas : d # c => state'[d] = state[d]
      /\ <<state[c], state'[c]>> \in
           {<<"authing", "authed">>, <<"told_connect_target", "connected_target">>,
            <<"setting_bw", "bw_set">>, <<"measuring", "measuring">>,
            <<"measuring", "done">>}
  <2>1. state \in [Metas -> CsmState]
    BY UnderwayFacts
  <2> QED
    BY <2>1 DEF Answered, ResultRead, HandledEvent, tc_authed_socket,
       tc_connected_socket, tc_did_set_bw_rate, tc_output_result, Answers
<1>2. pc' = "events"
  <2>1. state[c] # "invalid"
    BY <1>1
  <2>2. current_m_id[c] \in Known
    BY <1>1, <2>1, UnderwayFacts
  <2>3. ResultAsserts(c)
    BY <2>2 DEF ResultAsserts, CrewInv, Crewed, Staffed
  <2> QED
    BY <1>1, <2>3 DEF Answered, ResultRead, Goto
<1>3. Known' = Known /\ \A d : Crew(d)' = Crew(d)
  BY <1>1 DEF Known, Crew
<1>4. Staffed'
  BY <1>2, <1>3, CrewKept DEF CrewInv, Crewed, Staffed, Fillable
<1>5. InStep'
  <2>1. \A d \in Metas : state'[d] # "failed"
    BY <1>1 DEF CrewInv, Crewed, InStep
  <2>2. \A stage \in Stages : state[c] \in stage => state'[c] \in stage
    BY <1>1 DEF Stages
  <2>3. \A d \in Known : \E stage \in Stages \ {{"connected"}} :
          \A e \in Crew(d) : state[e] \in stage
    BY <1>1 DEF CrewInv, Crewed, InStep
  <2>4. \A d : \A e \in Crew(d) : e \in Metas
    BY DEF Crew
  <2>5. \A d \in Known' : \E stage \in Stages \ {{"connected"}} :
          \A e \in Crew(d)' : state'[e] \in stage
    BY <1>1, <1>3, <2>2, <2>3, <2>4
  <2> QED
    BY <2>1, <2>5 DEF InStep, Stages
<1>6. SlotsTold'
  <2>1. /\ state'[c] \in BeforeConns <=> state[c] \in BeforeConns
        /\ state'[c] \in BeforeBw <=> state[c] \in BeforeBw
    BY <1>1 DEF BeforeConns, BeforeBw
  <2>2. \A d, e : HostFor(d, e)' = HostFor(d, e)
    BY <1>3, CrewKept
  <2>3. \A d \in Metas : /\ state'[d] \in BeforeConns <=> state[d] \in BeforeConns
                         /\ state'[d] \in BeforeBw <=> state[d] \in BeforeBw
    BY <1>1, <2>1
  <2>4. BeforeConns' = BeforeConns /\ BeforeBw' = BeforeBw
    BY DEF BeforeConns, BeforeBw
  <2> HIDE DEF BeforeConns, BeforeBw
  <2> QED
    BY <1>1, <2>2, <2>3, <2>4 DEF CrewInv, Crewed, SlotsTold
<1> QED
  BY <1>2, <1>4, <1>5, <1>6 DEF CrewInv, Crewed, Attended, Sound, NeverAborts

-----------------------------------------------------------------------------
(* The theorems.                                                           *)

\* The invariant holds at the start,
LEMMA InitCrew == Init => CrewInv
<1> SUFFICES ASSUME Init PROVE CrewInv
  OBVIOUS
<1>1. Known = {} /\ DOMAIN known_m_ids = {}
  BY DEF Init, Known, Range
<1> QED
  BY <1>1 DEF Init, TorClientInit, CrewInv, Crewed, Staffed, InStep, SlotsTold,
              Attended, Sound, NeverAborts, BeforeConns, BeforeBw

\* and every step keeps it.
LEMMA NextCrew == IInv /\ CrewInv /\ [Next]_vars => CrewInv'
<1> SUFFICES ASSUME IInv, CrewInv, [Next]_vars PROVE CrewInv'
  OBVIOUS
<1>1. CASE UNCHANGED vars
  <2>1. UNCHANGED <<pc, i, new_m_id, known_m_ids, state, current_m_id, nconn_of, bw_of>>
    BY <1>1 DEF vars, loop_vars, tc_vars
  <2>2. Crewed' /\ \A m : Waited(m)' <=> Waited(m)
    BY <2>1, QuietCrew DEF CrewInv
  <2> QED
    BY <2>1, <2>2 DEF CrewInv, Attended, Known, Sound, NeverAborts
<1>2. CASE Loop
  BY <1>2, StartNextCrew, ConnectCrew, ConnectDoneCrew, MeasurementDoneCrew,
     FailuresCrew, SendAuthCrew, TellConnectCrew, SetBwCrew, StartMeasuringCrew,
     ReadingCrew, ControlCrew DEF Loop
<1>3. CASE Exited
  BY <1>1, <1>3 DEF Exited
<1> QED
  BY <1>1, <1>2, <1>3, StartupCrew, WorldCrew DEF Next

\* The crews are right in every state of every round, also in a process that
\* an assertion is about to end.
THEOREM CrewInvariant == Spec => []CrewInv
BY InitInv, NextInv, InitCrew, NextCrew, PTL DEF Spec

\* No assertion of the program fails, if background hosts have one connection
\* by what the client file takes for background, not only by the parser's "bg".
THEOREM NoAssertionFails == ASSUME BackgroundIsBg PROVE Spec => []NeverAborts
<1>1. CrewInv => NeverAborts
  BY DEF CrewInv, Sound
<1> QED
  BY <1>1, CrewInvariant, PTL

\* A known measurement has one client for each of its hosts.
THEOREM CrewsFull == Spec => []FullCrew
<1>1. IInv /\ CrewInv => FullCrew
  <2> SUFFICES ASSUME IInv, CrewInv, NEW m \in Known
               PROVE  \E f \in [DOMAIN Hosts[m] -> Crew(m)] :
                        /\ \A j, k \in DOMAIN Hosts[m] : f[j] = f[k] => j = k
                        /\ \A c \in Crew(m) : \E k \in DOMAIN Hosts[m] : f[k] = c
                        /\ \A k \in DOMAIN Hosts[m] : Class[f[k]] = Hosts[m][k].class
    BY DEF FullCrew
  <2>1. m \in Msms /\ Matched(m, Len(Hosts[m]))
    BY UnderwayFacts DEF CrewInv, Crewed, Staffed
  <2>2. \A c \in Crew(m) : HostFor(m, c) \in DOMAIN Hosts[m]
                           /\ Hosts[m][HostFor(m, c)].class = Class[c]
    BY <2>1, SlotOfClient, SlotsFinite DEF AllSlots, SlotsOf
  <2> DEFINE f == [k \in DOMAIN Hosts[m] |-> CHOOSE c \in Crew(m) : HostFor(m, c) = k]
  <2>3. \A k \in DOMAIN Hosts[m] : f[k] \in Crew(m) /\ HostFor(m, f[k]) = k
    BY <2>1, SlotsCovered
  <2>4. \A c \in Crew(m) : f[HostFor(m, c)] = c
    BY <2>1, <2>2, <2>3, SlotsDistinct
  <2>5. f \in [DOMAIN Hosts[m] -> Crew(m)]
    BY <2>3
  <2> HIDE DEF f
  <2> QED
    BY <2>2, <2>3, <2>4, <2>5
<1> QED
  BY <1>1, CoordinatorInvariant, CrewInvariant, PTL

\* The clients of a measurement go through the handshake in step.
THEOREM HandshakeInStep == Spec => []LockStep
<1>1. IInv /\ CrewInv => LockStep
  <2> SUFFICES ASSUME IInv, CrewInv, NEW m \in Known
               PROVE  \E stage \in Stages : \A c \in Crew(m) : state[c] \in stage
    BY DEF LockStep
  <2>1. CASE pc = "auth" /\ m = new_m_id
    BY <2>1 DEF CrewInv, Crewed, Staffed, Stages
  <2>2. CASE ~ (pc = "auth" /\ m = new_m_id)
    BY <2>2 DEF CrewInv, Crewed, InStep
  <2> QED
    BY <2>1, <2>2
<1> QED
  BY <1>1, CoordinatorInvariant, CrewInvariant, PTL

\* Each slot is told to one client of its class, by both passes to the same.
THEOREM SlotsToldToOne == Spec => []SlotsToldOnce
<1>1. IInv /\ CrewInv => SlotsToldOnce
  <2> SUFFICES ASSUME IInv, CrewInv, NEW m \in Known, NEW c \in Crew(m)
               PROVE  /\ bw_of[c] # 0 => bw_of[c] = nconn_of[c]
                      /\ nconn_of[c] # 0 => Hosts[m][nconn_of[c]].class = Class[c]
                      /\ \A d \in Crew(m) :
                           nconn_of[c] # 0 /\ d # c => nconn_of[d] \notin {0, nconn_of[c]}
    BY DEF SlotsToldOnce
  <2>1. m \in Msms /\ Matched(m, Len(Hosts[m]))
    BY UnderwayFacts DEF CrewInv, Crewed, Staffed
  <2>2. \A d \in Crew(m) : d \in Metas /\ current_m_id[d] = m
    BY DEF Crew
  <2>3. \A d \in Crew(m) :
          /\ nconn_of[d] = IF state[d] \in BeforeConns THEN 0 ELSE HostFor(m, d)
          /\ bw_of[d] = IF state[d] \in BeforeBw THEN 0 ELSE HostFor(m, d)
    BY <2>2 DEF CrewInv, Crewed, SlotsTold
  <2>4. bw_of[c] # 0 => bw_of[c] = nconn_of[c]
    BY <2>3 DEF BeforeConns, BeforeBw
  <2>5. \A d \in Crew(m) : /\ HostFor(m, d) \in 1 .. Len(Hosts[m])
                           /\ Hosts[m][HostFor(m, d)].class = Class[d]
    BY <2>1, SlotOfClient DEF AllSlots, SlotsOf
  <2>6. nconn_of[c] # 0 => Hosts[m][nconn_of[c]].class = Class[c]
    BY <2>3, <2>5
  <2>7. ASSUME nconn_of[c] # 0, NEW d \in Crew(m), d # c
        PROVE  nconn_of[d] \notin {0, nconn_of[c]}
    <3>1. PICK stage \in Stages : \A e \in Crew(m) : state[e] \in stage
      <4>1. CASE pc = "auth" /\ m = new_m_id
        BY <4>1 DEF CrewInv, Crewed, Staffed, Stages
      <4>2. CASE ~ (pc = "auth" /\ m = new_m_id)
        BY <4>2 DEF CrewInv, Crewed, InStep
      <4> QED
        BY <4>1, <4>2
    <3>2. state[c] \notin BeforeConns
      BY <2>3, <2>7
    <3>3. state[d] \notin BeforeConns
      BY <3>1, <3>2 DEF Stages, BeforeConns
    <3>4. nconn_of[c] = HostFor(m, c) /\ nconn_of[d] = HostFor(m, d)
      BY <2>3, <3>2, <3>3
    <3>5. HostFor(m, d) # HostFor(m, c)
      BY <2>1, <2>7, SlotsDistinct
    <3>6. HostFor(m, d) # 0
      BY <2>1, <2>5, SlotsFinite
    <3> QED
      BY <3>4, <3>5, <3>6
  <2> QED
    BY <2>4, <2>6, <2>7
<1> QED
  BY <1>1, CoordinatorInvariant, CrewInvariant, PTL

\* The loop never goes to sleep on a measurement that nobody is waited for.
THEOREM NobodyIsForgotten == Spec => []NobodyForgotten
<1>1. CrewInv => NobodyForgotten
  BY DEF CrewInv, Attended, Waited, NobodyForgotten
<1> QED
  BY <1>1, CrewInvariant, PTL

\* Each measurement of the array has a client of its own, so that they are no
\* more than there are clients.
LEMMA CrewsFit == IInv /\ CrewInv => KnownFits
<1> SUFFICES ASSUME IInv, CrewInv PROVE Len(known_m_ids) <= NumMetas
  BY DEF KnownFits
<1> DEFINE n == Len(known_m_ids)
           f == [k \in 1 .. n |-> CHOOSE c \in Crew(known_m_ids[k]) : TRUE]
<1>1. n \in Nat /\ DOMAIN known_m_ids = 1 .. n /\ Distinct(known_m_ids)
  BY UnderwayFacts DEF IInv, DataInv
<1>2. ASSUME NEW m \in Known PROVE Crew(m) # {}
  <2>1. m \in Msms /\ Fillable(m) /\ Matched(m, Len(Hosts[m]))
    BY UnderwayFacts DEF CrewInv, Crewed, Staffed
  <2> QED
    BY <2>1, CrewNotEmpty
<1>3. \A k \in 1 .. n : Crew(known_m_ids[k]) # {}
  BY <1>1, <1>2, UnderwayFacts
<1>4. \A k \in 1 .. n : f[k] \in Metas /\ current_m_id[f[k]] = known_m_ids[k]
  BY <1>3 DEF Crew
<1>5. f \in Injection(1 .. n, Metas)
  <2>1. f \in [1 .. n -> Metas]
    BY <1>4
  <2>2. \A j, k \in 1 .. n : f[j] = f[k] => j = k
    BY <1>1, <1>4 DEF Distinct
  <2> HIDE DEF f
  <2> QED
    BY <2>1, <2>2 DEF Injection, IsInjective
<1>6. Cardinality(1 .. n) <= Cardinality(Metas)
  BY <1>5, CrewFinite, FS_Injection
<1> QED
  BY <1>1, <1>6, CrewFinite, SegmentSize

\* The array never needs more than its allocation, which is for all clients.
THEOREM ArrayFits == Spec => []KnownFits
BY CrewsFit, CoordinatorInvariant, CrewInvariant, PTL

-----------------------------------------------------------------------------
(* The coordinator implements Campaign: each step of the main loop is one  *)
(* step of the campaign, or none that the campaign can see.                *)

\* What the campaign's variables stand for.
PhaseBar == [m \in Msms |-> CampaignPhase(m)]
CrewBar == [m \in Msms |-> Crew(m)]
ReportedBar == {c \in Metas : state[c] = "done"}

\* The library's operators mean the same to the campaign.
LEMMA SameOperators ==
  /\ \A S : Promise!Cardinality(S) = Cardinality(S)
  /\ \A f : Promise!Range(f) = Range(f)
<1>1. \A S : Promise!Cardinality(S) = Cardinality(S)
  BY DEF Promise!Cardinality, Cardinality
<1>2. \A f : Promise!Range(f) = Range(f)
  BY DEF Promise!Range, Range
<1> QED
  BY <1>1, <1>2

\* The clients of a measurement that is running.
RunningStates == {"measuring", "done"}

\* The phase of a measurement follows from its state in the table and from
\* whether one of its clients has been told to start.
LEMMA PhaseKept ==
  ASSUME NEW m, msm_state'[m] = msm_state[m], RunningCrew(m)' <=> RunningCrew(m)
  PROVE  CampaignPhase(m)' = CampaignPhase(m)
BY DEF CampaignPhase

\* Steps that end, begin and run no measurement.
LEMMA UnseenStep ==
  ASSUME UNCHANGED <<depends, msm_state, current_m_id, count_success, count_failure>>,
         \A c \in Metas : /\ state'[c] \in RunningStates <=> state[c] \in RunningStates
                          /\ state'[c] = "done" <=> state[c] = "done"
  PROVE  UNCHANGED Promise!campaign_vars
<1>1. \A m : Crew(m)' = Crew(m)
  BY DEF Crew
<1>2. \A m : RunningCrew(m)' <=> RunningCrew(m)
  BY <1>1 DEF RunningCrew, RunningStates, Crew
<1>3. \A m : CampaignPhase(m)' = CampaignPhase(m)
  BY <1>2, PhaseKept
<1>4. PhaseBar' = PhaseBar /\ CrewBar' = CrewBar /\ ReportedBar' = ReportedBar
  BY <1>1, <1>3 DEF PhaseBar, CrewBar, ReportedBar
<1> QED
  BY <1>4 DEF Promise!campaign_vars, PhaseBar, CrewBar, ReportedBar

\* In particular those that move no client.
LEMMA StillStep ==
  ASSUME UNCHANGED <<depends, msm_state, current_m_id, state, count_success,
                     count_failure>>
  PROVE  UNCHANGED Promise!campaign_vars
BY UnseenStep

-----------------------------------------------------------------------------
(* Beginning and recruiting.                                               *)

\* At the start there is no measurement, and nobody is recruited.
LEMMA InitCampaign == Init => Promise!Init
<1> SUFFICES ASSUME Init PROVE Promise!Init
  OBVIOUS
<1>1. \A m \in Msms : CampaignPhase(m) = "absent"
  BY DEF Init, SchedInit, CampaignPhase
<1>2. \A m \in Msms : Crew(m) = {}
  BY SchedAssumption DEF Init, TorClientInit, Crew
<1>3. ReportedBar = {}
  BY DEF Init, TorClientInit, ReportedBar
<1> QED
  BY <1>1, <1>2, <1>3 DEF Init, SchedInit, Promise!Init, ReportedBar

\* A schedule file that is accepted is a new campaign: nothing is under way
\* when it is read, and nobody is held.
LEMMA StartupCampaign ==
  ASSUME IInv, NEW file \in Schedules, Startup(file)
  PROVE  Promise!Plan(file) \/ UNCHANGED Promise!campaign_vars
<1>1. CASE ~ Accepts(file)
  BY <1>1, StillStep DEF Startup, loop_vars, sched_vars, tc_vars
<1>2. CASE Accepts(file)
  <2>1. /\ tc_client_file_read /\ sched_new(file)
        /\ count_success' = 0 /\ count_failure' = 0
    BY <1>2 DEF Startup
  <2>2. /\ sched_finished /\ SchedTypeOK /\ DOMAIN file \subseteq Msms /\ 0 \notin Msms
    BY SchedAssumption DEF Startup, IInv, PlaceInv, DataInv
  <2>3. Underway = {}
    BY <2>2 DEF IInv, DataInv, sched_finished
  <2>4. \A c \in Metas : current_m_id[c] = 0 /\ state[c] = "invalid"
    BY <2>3, UnderwayFacts
  <2>5. /\ \A m \in Msms : Crew(m) = {} /\ Crew(m)' = {}
        /\ ReportedBar = {} /\ ReportedBar' = {}
    BY <2>1, <2>2, <2>4 DEF Crew, ReportedBar, tc_client_file_read
  <2>6. depends' = [m \in Msms |-> IF m \in DOMAIN file THEN file[m] ELSE depends[m]]
    BY <2>1 DEF sched_new, Inserted
  <2>7. \A m \in Msms : CampaignPhase(m) \in {"absent", "over"}
    BY <2>2 DEF sched_finished, CampaignPhase
  <2>8. \A m \in Msms :
          CampaignPhase(m)' = IF m \in DOMAIN file THEN "waiting" ELSE CampaignPhase(m)
    <3>1. \A m \in Msms : msm_state'[m] = IF m \in DOMAIN file THEN "Waiting"
                                                               ELSE msm_state[m]
      BY <2>1 DEF sched_new, Inserted, All
    <3> QED
      BY <2>2, <3>1 DEF sched_finished, CampaignPhase
  <2>9. /\ PhaseBar' = [m \in Msms |-> IF m \in DOMAIN file THEN "waiting" ELSE PhaseBar[m]]
        /\ CrewBar' = CrewBar /\ ReportedBar' = ReportedBar
    BY <2>5, <2>8 DEF PhaseBar, CrewBar
  <2>10. \A m \in Msms : PhaseBar[m] \in {"absent", "over"}
    BY <2>7 DEF PhaseBar
  <2> QED
    BY <2>1, <2>6, <2>9, <2>10 DEF Promise!Plan, PhaseBar, CrewBar, ReportedBar
<1> QED
  BY <1>1, <1>2

\* What is handed out has its dependencies behind it, and nobody yet.
LEMMA StartNextCampaign ==
  ASSUME IInv, SchedInv, NEW m \in Msms, StartNext(m)
  PROVE  Promise!Begin(m)
<1>1. /\ Ready(m) /\ msm_state[m] = "Waiting"
      /\ msm_state' = [msm_state EXCEPT ![m] = "InProgress"]
      /\ msm_state \in [Msms -> State]
      /\ UNCHANGED <<depends, state, current_m_id, count_success, count_failure>>
  BY DEF StartNext, sched_next, Ready, tc_vars, SchedInv, SchedTypeOK
<1>2. \A d : Crew(d)' = Crew(d) /\ (RunningCrew(d)' <=> RunningCrew(d))
  BY <1>1 DEF Crew, RunningCrew
<1>3. Crew(m) = {}
  <2>1. m \notin Underway /\ m # 0
    BY <1>1, UnderwayFacts
  <2> QED
    BY <2>1, UnderwayFacts DEF Crew
<1>4. CampaignPhase(m) = "waiting" /\ CampaignPhase(m)' = "recruiting"
  BY <1>1, <1>2, <1>3 DEF CampaignPhase, RunningCrew
<1>5. \A d \in Msms \ {m} : CampaignPhase(d)' = CampaignPhase(d)
  BY <1>1, <1>2, PhaseKept
<1>6. /\ PhaseBar' = [PhaseBar EXCEPT ![m] = "recruiting"] /\ PhaseBar[m] = "waiting"
      /\ CrewBar' = CrewBar /\ ReportedBar' = ReportedBar
  BY <1>1, <1>2, <1>4, <1>5 DEF PhaseBar, CrewBar, ReportedBar
<1>7. \A d \in Range(depends[m]) : PhaseBar[d] = "over"
  <2>1. \A d \in Range(depends[m]) : msm_state[d] = "Complete"
    BY <1>1, ReadyMeansDone
  <2>2. Range(depends[m]) \subseteq Msms
    BY <1>1 DEF SchedInv, OnlyLoadedRuns, DependsLoaded, SchedTypeOK
  <2> QED
    BY <2>1, <2>2 DEF PhaseBar, CampaignPhase
<1> QED
  BY <1>1, <1>6, <1>7, SameOperators DEF Promise!Begin, PhaseBar, CrewBar, ReportedBar

\* A client that is taken was free, and its measurement has room for one more
\* of its class.
LEMMA ConnectCampaign ==
  ASSUME IInv, CrewInv, NEW c \in Metas, Connect(c), NEW m, m = new_m_id
  PROVE  m \in Msms /\ Promise!Recruit(m, c)
<1>1. /\ pc = "connect" /\ i \in DOMAIN Hosts[m]
      /\ Class[c] = Hosts[m][i].class /\ current_m_id[c] = 0
      /\ state' = [state EXCEPT ![c] = "connected"]
      /\ current_m_id' = [current_m_id EXCEPT ![c] = m]
      /\ UNCHANGED <<depends, msm_state, count_success, count_failure>>
  BY DEF Connect, tc_next_available, Available, sched_vars
<1>2. /\ m \in Msms /\ m \in Underway /\ msm_state[m] = "InProgress" /\ 0 \notin Msms
      /\ state \in [Metas -> CsmState] /\ current_m_id \in [Metas -> Msms \cup {0}]
      /\ state[c] = "invalid"
  BY <1>1, UnderwayFacts
<1>3. /\ Crew(m)' = Crew(m) \cup {c}
      /\ \A d \in Msms \ {m} : Crew(d)' = Crew(d)
      /\ \A d \in Msms : c \notin Crew(d)
  BY <1>1, <1>2 DEF Crew
<1>4. \A d \in Metas \ {c} : state'[d] = state[d]
  BY <1>1, <1>2
<1>5. state'[c] = "connected" /\ \A d \in Crew(m) : d \in Metas /\ state[d] = "connected"
  BY <1>1, <1>2 DEF CrewInv, Crewed, Staffed, Crew
<1>6. \A d \in Msms : RunningCrew(d)' <=> RunningCrew(d)
  <2>1. ~ RunningCrew(m) /\ ~ RunningCrew(m)'
    BY <1>3, <1>4, <1>5 DEF RunningCrew
  <2>2. ASSUME NEW d \in Msms \ {m} PROVE RunningCrew(d)' <=> RunningCrew(d)
    <3>1. \A e \in Crew(d) : state'[e] = state[e]
      BY <1>3, <1>4 DEF Crew
    <3> QED
      BY <1>3, <3>1 DEF RunningCrew
  <2> QED
    BY <2>1, <2>2
<1>7. PhaseBar' = PhaseBar /\ PhaseBar[m] = "recruiting"
  <2>1. \A d \in Msms : CampaignPhase(d)' = CampaignPhase(d)
    BY <1>1, <1>6, PhaseKept
  <2>2. CampaignPhase(m) = "recruiting"
    BY <1>2, <1>5 DEF CampaignPhase, RunningCrew
  <2> QED
    BY <1>2, <2>1, <2>2 DEF PhaseBar
<1>8. CrewBar' = [CrewBar EXCEPT ![m] = @ \cup {c}]
  BY <1>2, <1>3 DEF CrewBar
<1>9. ReportedBar' = ReportedBar
  BY <1>1, <1>2, <1>4 DEF ReportedBar
<1>10. c \notin UNION {CrewBar[d] : d \in Msms}
  BY <1>3 DEF CrewBar
<1>11. Cardinality({k \in DOMAIN Hosts[m] : Hosts[m][k].class = Class[c]})
         > Cardinality({d \in CrewBar[m] : Class[d] = Class[c]})
  <2> DEFINE T == SlotsOf(m, i - 1, Class[c])
  <2>1. /\ Len(Hosts[m]) \in Nat /\ DOMAIN Hosts[m] = 1 .. Len(Hosts[m])
        /\ i \in Nat /\ i - 1 \in Nat
        /\ IsFiniteSet(AllSlots(m, Class[c]))
        /\ Cardinality(AllSlots(m, Class[c])) \in Nat /\ Cardinality(T) \in Nat
    BY <1>1, <1>2, SlotsFinite DEF AllSlots
  <2>2. T \in SUBSET AllSlots(m, Class[c]) /\ i \in AllSlots(m, Class[c]) /\ i \notin T
    BY <1>1, <2>1 DEF AllSlots, SlotsOf
  <2>3. Cardinality(T) < Cardinality(AllSlots(m, Class[c]))
    BY <2>1, <2>2, FS_Subset
  <2>4. Cardinality(CrewOf(m, Class[c])) = Cardinality(T)
    <3>1. Class[c] \in Classes
      BY TorClientAssumption DEF Classes, Range
    <3> QED
      BY <1>1, <3>1 DEF CrewInv, Crewed, Staffed, Matched
  <2>5. {k \in DOMAIN Hosts[m] : Hosts[m][k].class = Class[c]} = AllSlots(m, Class[c])
    BY <2>1 DEF AllSlots, SlotsOf
  <2>6. {d \in CrewBar[m] : Class[d] = Class[c]} = CrewOf(m, Class[c])
    BY <1>2 DEF CrewBar, CrewOf
  <2> HIDE DEF T
  <2> QED
    BY <2>1, <2>3, <2>4, <2>5, <2>6
<1> QED
  BY <1>1, <1>2, <1>7, <1>8, <1>9, <1>10, <1>11, SameOperators
  DEF Promise!Recruit, Promise!Held, Promise!Needs, PhaseBar, CrewBar, ReportedBar

-----------------------------------------------------------------------------
(* Running and reporting.                                                  *)

\* A measurement that is started has its whole crew.
LEMMA StartMeasuringCampaign ==
  ASSUME IInv, CrewInv, StartMeasuring, NEW m, m = Current
  PROVE  m \in Msms /\ Promise!Run(m)
<1>1. /\ pc = "advance" /\ i \in DOMAIN known_m_ids
      /\ \A c \in Crew(m) : state[c] = "bw_set"
      /\ state' = Update(state, Crew(m), "measuring")
      /\ UNCHANGED <<depends, msm_state, current_m_id, count_success, count_failure>>
  BY DEF StartMeasuring, Advancing, InLoop, AllReached, TotallyIn,
         tc_start_measurement, Sent, sched_reset_failsafe_stop
<1>2. /\ m \in Msms /\ m \in Known /\ Matched(m, Len(Hosts[m]))
      /\ Crew(m) # {} /\ Crew(m) \subseteq Metas
  BY <1>1, CurrentFacts
<1>3. msm_state[m] = "InProgress"
  BY <1>2, UnderwayFacts DEF Underway
<1>4. \A c \in Metas : state'[c] = IF c \in Crew(m) THEN "measuring" ELSE state[c]
  BY <1>1 DEF Update
<1>5. \A d : Crew(d)' = Crew(d)
  BY <1>1 DEF Crew
<1>6. CampaignPhase(m) = "recruiting" /\ CampaignPhase(m)' = "running"
  BY <1>1, <1>2, <1>3, <1>4, <1>5 DEF CampaignPhase, RunningCrew
<1>7. ASSUME NEW d \in Msms \ {m} PROVE CampaignPhase(d)' = CampaignPhase(d)
  <2>1. \A c \in Crew(d) : state'[c] = state[c]
    BY <1>4 DEF Crew
  <2> QED
    BY <1>1, <1>5, <2>1, PhaseKept DEF RunningCrew
<1>8. /\ PhaseBar' = [PhaseBar EXCEPT ![m] = "running"] /\ PhaseBar[m] = "recruiting"
      /\ CrewBar' = CrewBar
  BY <1>2, <1>5, <1>6, <1>7 DEF PhaseBar, CrewBar
<1>9. ReportedBar' = ReportedBar
  BY <1>1, <1>4 DEF ReportedBar
<1>10. \A k \in DOMAIN Hosts[m] :
         ~ Cardinality({l \in DOMAIN Hosts[m] : Hosts[m][l].class = Hosts[m][k].class})
             > Cardinality({c \in CrewBar[m] : Class[c] = Hosts[m][k].class})
  <2> TAKE k \in DOMAIN Hosts[m]
  <2> DEFINE class == Hosts[m][k].class
  <2>1. class \in Classes
    BY <1>2 DEF Classes
  <2>2. Cardinality(CrewOf(m, class)) = Cardinality(AllSlots(m, class))
    BY <1>2, <2>1 DEF Matched, AllSlots
  <2>3. {l \in DOMAIN Hosts[m] : Hosts[m][l].class = class} = AllSlots(m, class)
    BY <1>2, SlotsFinite DEF AllSlots, SlotsOf
  <2>4. {c \in CrewBar[m] : Class[c] = class} = CrewOf(m, class)
    BY <1>2 DEF CrewBar, CrewOf
  <2>5. Cardinality(CrewOf(m, class)) \in Nat
    BY CrewFinite
  <2>6. ~ Cardinality(AllSlots(m, class)) > Cardinality(CrewOf(m, class))
    BY <2>2, <2>5
  <2> QED
    BY <2>3, <2>4, <2>6
<1> QED
  BY <1>1, <1>2, <1>8, <1>9, <1>10, SameOperators
  DEF Promise!Run, Promise!Complete, Promise!Needs, PhaseBar, CrewBar, ReportedBar

\* A client whose results end has reported, for a measurement that is running.
LEMMA ReadingCampaign ==
  ASSUME IInv, CrewInv, NEW c \in Metas, Answered(c) \/ ResultRead(c)
  PROVE  Promise!Report(c) \/ UNCHANGED Promise!campaign_vars
<1>1. /\ UNCHANGED <<depends, msm_state, current_m_id, count_success, count_failure>>
      /\ pc = "events"
      /\ \A d \in Metas : d # c => state'[d] = state[d]
      /\ <<state[c], state'[c]>> \in
           {<<"authing", "authed">>, <<"told_connect_target", "connected_target">>,
            <<"setting_bw", "bw_set">>, <<"measuring", "measuring">>,
            <<"measuring", "done">>}
  <2>1. state \in [Metas -> CsmState]
    BY UnderwayFacts
  <2> QED
    BY <2>1 DEF Answered, ResultRead, HandledEvent, sched_vars, tc_authed_socket,
       tc_connected_socket, tc_did_set_bw_rate, tc_output_result, Answers
<1>2. CASE ~ (state[c] = "measuring" /\ state'[c] = "done")
  <2>1. \A d \in Metas : /\ state'[d] \in RunningStates <=> state[d] \in RunningStates
                         /\ state'[d] = "done" <=> state[d] = "done"
    BY <1>1, <1>2 DEF RunningStates
  <2> QED
    BY <1>1, <2>1, UnseenStep
<1>3. CASE state[c] = "measuring" /\ state'[c] = "done"
  <2> DEFINE m == current_m_id[c]
  <2>1. /\ m \in Msms /\ c \in Crew(m) /\ msm_state[m] = "InProgress"
    BY <1>1, <1>3, UnderwayFacts DEF Crew
  <2>2. /\ \A d : Crew(d)' = Crew(d)
        /\ \A d : RunningCrew(d)' <=> RunningCrew(d)
    BY <1>1, <1>3 DEF Crew, RunningCrew
  <2>3. PhaseBar' = PhaseBar /\ CrewBar' = CrewBar
    BY <1>1, <2>2, PhaseKept DEF PhaseBar, CrewBar
  <2>4. PhaseBar[m] = "running" /\ c \in CrewBar[m]
    BY <1>3, <2>1 DEF PhaseBar, CrewBar, CampaignPhase, RunningCrew
  <2>5. ReportedBar' = ReportedBar \cup {c}
    BY <1>1, <1>3 DEF ReportedBar
  <2> HIDE DEF m
  <2> QED
    BY <1>1, <2>1, <2>3, <2>4, <2>5 DEF Promise!Report, PhaseBar, CrewBar, ReportedBar
<1> QED
  BY <1>2, <1>3

-----------------------------------------------------------------------------
(* Ending.                                                                 *)

\* The clients of a measurement that ends are released at once.
LEMMA EndCampaign ==
  ASSUME IInv, NEW m \in Underway, tc_finished_with_meta(Crew(m)), sched_mark_done(m)
  PROVE  /\ m \in Msms /\ Promise!Over(m)
         /\ PhaseBar[m] = IF RunningCrew(m) THEN "running" ELSE "recruiting"
<1>1. /\ \A c \in Metas : /\ c \in Crew(m) => state'[c] = "invalid" /\ current_m_id'[c] = 0
                          /\ c \notin Crew(m) => /\ state'[c] = state[c]
                                                 /\ current_m_id'[c] = current_m_id[c]
  BY UnderwayFacts DEF tc_finished_with_meta, Update
<1>2. /\ m \in Msms /\ 0 \notin Msms /\ msm_state[m] = "InProgress"
      /\ msm_state \in [Msms -> State]
      /\ msm_state' = [msm_state EXCEPT ![m] = "Complete"]
      /\ UNCHANGED depends
  BY UnderwayFacts DEF sched_mark_done, IInv, DataInv, SchedTypeOK
<1>3. Crew(m)' = {}
  BY <1>1, <1>2 DEF Crew
<1>4. ASSUME NEW d \in Msms \ {m}
      PROVE  Crew(d)' = Crew(d) /\ CampaignPhase(d)' = CampaignPhase(d)
  <2>1. Crew(d)' = Crew(d)
    BY <1>1, <1>2 DEF Crew
  <2>2. \A c \in Crew(d) : state'[c] = state[c]
    BY <1>1 DEF Crew
  <2>3. RunningCrew(d)' <=> RunningCrew(d)
    BY <2>1, <2>2 DEF RunningCrew
  <2> QED
    BY <1>2, <2>1, <2>3, PhaseKept
<1>5. CampaignPhase(m)' = "over"
  BY <1>2 DEF CampaignPhase
<1>6. CampaignPhase(m) = IF RunningCrew(m) THEN "running" ELSE "recruiting"
  BY <1>2 DEF CampaignPhase
<1>7. /\ PhaseBar' = [PhaseBar EXCEPT ![m] = "over"]
      /\ CrewBar' = [CrewBar EXCEPT ![m] = {}]
      /\ CrewBar[m] = Crew(m)
      /\ PhaseBar[m] = IF RunningCrew(m) THEN "running" ELSE "recruiting"
  BY <1>2, <1>3, <1>4, <1>5, <1>6 DEF PhaseBar, CrewBar
<1>8. ReportedBar' = ReportedBar \ Crew(m)
  BY <1>1 DEF ReportedBar
<1> QED
  BY <1>2, <1>7, <1>8 DEF Promise!Over, PhaseBar, CrewBar, ReportedBar

\* It was a success if all of it had reported,
LEMMA MeasurementDoneCampaign ==
  ASSUME IInv, CrewInv, MeasurementDone, NEW m, m = Current
  PROVE  m \in Msms /\ Promise!Succeed(m)
<1>1. /\ pc = "advance" /\ i \in DOMAIN known_m_ids
      /\ tc_finished_with_meta(Crew(m)) /\ sched_mark_done(m)
      /\ \A c \in Crew(m) : state[c] = "done"
      /\ count_success' = count_success + 1 /\ UNCHANGED count_failure
  BY DEF MeasurementDone, Advancing, InLoop, AllReached, TotallyIn
<1>2. m \in Underway /\ Crew(m) # {} /\ Crew(m) \subseteq Metas
  BY <1>1, CurrentFacts DEF Underway
<1>3. RunningCrew(m)
  BY <1>1, <1>2 DEF RunningCrew
<1>4. m \in Msms /\ Promise!Over(m) /\ PhaseBar[m] = "running"
  BY <1>1, <1>2, <1>3, EndCampaign
<1>5. CrewBar[m] \subseteq ReportedBar
  BY <1>1, <1>2, <1>4 DEF CrewBar, ReportedBar
<1> QED
  BY <1>1, <1>4, <1>5 DEF Promise!Succeed, PhaseBar, CrewBar, ReportedBar

\* and a failure on every other path.
LEMMA FailureCampaign ==
  ASSUME IInv, NEW m \in Underway, measurement_failed(m)
  PROVE  m \in Msms /\ Promise!Fail(m)
<1>1. /\ tc_finished_with_meta(Crew(m)) /\ sched_mark_done(m)
      /\ count_failure' = count_failure + 1 /\ UNCHANGED count_success
  BY DEF measurement_failed
<1>2. m \in Msms /\ Promise!Over(m) /\ PhaseBar[m] \in {"recruiting", "running"}
  BY <1>1, EndCampaign
<1> QED
  BY <1>1, <1>2 DEF Promise!Fail, PhaseBar

-----------------------------------------------------------------------------
(* The refinement.                                                         *)

\* The passwords, the connections and the bandwidth are no business of the
\* campaign's.
LEMMA HandshakeUnseen ==
  ASSUME IInv, CrewInv, SendAuth \/ TellConnect \/ SetBw
  PROVE  UNCHANGED Promise!campaign_vars
<1>1. UNCHANGED <<depends, msm_state, current_m_id, count_success, count_failure>>
  BY DEF SendAuth, TellConnect, SetBw, MovedOn, tc_auth_socket, Sent,
         tc_tell_connect, tc_set_bw_rate, sched_vars
<1>2. ASSUME NEW m, NEW S, S \subseteq Crew(m),
             NEW st \in {"authing", "told_connect_target", "setting_bw"},
             state' = Update(state, S, st),
             \A c \in Crew(m) : state[c] \notin RunningStates
      PROVE  UNCHANGED Promise!campaign_vars
  <2>1. \A c \in Metas : /\ state'[c] \in RunningStates <=> state[c] \in RunningStates
                         /\ state'[c] = "done" <=> state[c] = "done"
    BY <1>2 DEF Update, RunningStates
  <2> QED
    BY <1>1, <2>1, UnseenStep
<1>3. CASE SendAuth
  <2>1. /\ pc = "auth" /\ state' = Update(state, Crew(new_m_id), "authing")
    BY <1>3 DEF SendAuth, tc_auth_socket, Sent
  <2>2. \A c \in Crew(new_m_id) : state[c] \notin RunningStates
    BY <2>1 DEF CrewInv, Crewed, Staffed, RunningStates
  <2> QED
    BY <1>2, <2>1, <2>2
<1>4. CASE TellConnect
  <2>1. /\ state' = Update(state, Assigned(Current), "told_connect_target")
        /\ \A c \in Crew(Current) : state[c] \notin RunningStates
    BY <1>4 DEF TellConnect, tc_tell_connect, TotallyIn, RunningStates
  <2>2. Assigned(Current) \subseteq Crew(Current)
    BY DEF Assigned
  <2> QED
    BY <1>2, <2>1, <2>2
<1>5. CASE SetBw
  <2>1. /\ state' = Update(state, Assigned(Current), "setting_bw")
        /\ \A c \in Crew(Current) : state[c] \notin RunningStates
    BY <1>5 DEF SetBw, tc_set_bw_rate, AllReached, TotallyIn, RunningStates
  <2>2. Assigned(Current) \subseteq Crew(Current)
    BY DEF Assigned
  <2> QED
    BY <1>2, <2>1, <2>2
<1> QED
  BY <1>3, <1>4, <1>5

\* Every step is a step of the campaign, or one it does not see.
LEMMA NextCampaign ==
  IInv /\ CrewInv /\ SchedInv /\ [Next]_vars => [Promise!Next]_Promise!campaign_vars
<1> SUFFICES ASSUME IInv, CrewInv, SchedInv, [Next]_vars
             PROVE  Promise!Next \/ UNCHANGED Promise!campaign_vars
  OBVIOUS
<1>1. CASE \/ EnterLoop \/ Finish \/ WatchdogDone \/ FailsafePasses \/ FailsafeDone
           \/ StartNone \/ NothingToDo \/ AdvanceDone \/ PollFails \/ PollReturns
           \/ EventsDone \/ ConnectDone \/ ClientWrites \/ Exited \/ UNCHANGED vars
           \/ \E m \in Msms : TimePasses(m)
  <2>1. UNCHANGED <<depends, msm_state, current_m_id, state, count_success,
                    count_failure>>
    BY <1>1 DEF EnterLoop, Finish, WatchdogDone, FailsafePasses, FailsafeDone,
       StartNone, NothingToDo, MovedOn, AdvanceDone, PollFails, PollReturns,
       EventsDone, ConnectDone, ClientWrites, Arrive, Exited, TimePasses, Expire,
       vars, loop_vars, sched_vars, tc_vars
  <2> QED
    BY <2>1, StillStep
<1>2. CASE \/ WatchdogFails \/ FailsafeFails \/ ConnectFails \/ SendAuthFails
           \/ TellConnectFails \/ SetBwFails \/ StartMeasuringFails
           \/ \E c \in Metas : AnswerFails(c) \/ ResultFails(c)
  <2>1. \E m \in Underway : measurement_failed(m)
    BY <1>2, FailuresUnderway
  <2> QED
    BY <2>1, FailureCampaign DEF Promise!Next
<1>3. CASE SendAuth \/ TellConnect \/ SetBw
  BY <1>3, HandshakeUnseen
<1>4. ASSUME NEW m \in Msms, StartNext(m) PROVE Promise!Next
  BY <1>4, StartNextCampaign DEF Promise!Next
<1>5. ASSUME NEW c \in Metas, Connect(c) PROVE Promise!Next
  BY <1>5, ConnectCampaign DEF Promise!Next
<1>6. CASE StartMeasuring
  BY <1>6, StartMeasuringCampaign DEF Promise!Next
<1>7. CASE MeasurementDone
  BY <1>7, MeasurementDoneCampaign DEF Promise!Next
<1>8. ASSUME NEW c \in Metas, Answered(c) \/ ResultRead(c)
      PROVE  Promise!Next \/ UNCHANGED Promise!campaign_vars
  BY <1>8, ReadingCampaign DEF Promise!Next
<1>9. ASSUME NEW file \in Schedules, Startup(file)
      PROVE  Promise!Next \/ UNCHANGED Promise!campaign_vars
  BY <1>9, StartupCampaign DEF Promise!Next
<1> QED
  BY <1>1, <1>2, <1>3, <1>4, <1>5, <1>6, <1>7, <1>8, <1>9 DEF Next, Loop

\* The scheduler's own invariant, which the coordinator keeps by its contract.
LEMMA CoordinatorSched == Spec => []SchedInv
<1>1. Spec => SchedInit
  BY DEF Spec, Init
<1> QED
  BY <1>1, ContractKept, SchedInvariant, PTL

\* The coordinator implements the campaign.
THEOREM CampaignImplemented == Spec => ImplementsCampaign
BY InitCampaign, NextCampaign, CoordinatorInvariant, CrewInvariant, CoordinatorSched, PTL
DEF Spec, ImplementsCampaign, Promise!Spec
=============================================================================
