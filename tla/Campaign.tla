------------------------------ MODULE Campaign ------------------------------
(***************************************************************************)
(* What the coordinator promises, without its loop, its sockets or its     *)
(* handshake: a campaign of measurements, each of which begins when those  *)
(* it depends on are over, recruits clients nobody else is using, runs     *)
(* with all of them at once, and is over as a success when every one has   *)
(* reported its end, or at any moment as a failure.                        *)
(***************************************************************************)
EXTENDS Naturals, Sequences, FiniteSets, Functions

CONSTANTS Msms, Clients, Class, Hosts, Schedules

VARIABLES
  depends,     \* what each measurement waits for
  phase,       \* "absent", "waiting", "recruiting", "running" or "over"
  crew,        \* the clients each measurement holds
  reported,    \* the clients that have reported the end
  successes,
  failures

campaign_vars == <<depends, phase, crew, reported, successes, failures>>

Init ==
  /\ depends = [m \in Msms |-> <<>>]
  /\ phase = [m \in Msms |-> "absent"]
  /\ crew = [m \in Msms |-> {}]
  /\ reported = {}
  /\ successes = 0 /\ failures = 0

Held == UNION {crew[m] : m \in Msms}

\* How many more clients of a class m can use.
Needs(m, class) ==
  Cardinality({k \in DOMAIN Hosts[m] : Hosts[m][k].class = class})
    > Cardinality({c \in crew[m] : Class[c] = class})
Complete(m) == \A k \in DOMAIN Hosts[m] : ~ Needs(m, Hosts[m][k].class)

\* A new campaign, when nothing is left of the last one.
Plan(file) ==
  /\ \A m \in Msms : phase[m] \in {"absent", "over"}
  /\ depends' = [m \in Msms |-> IF m \in DOMAIN file THEN file[m] ELSE depends[m]]
  /\ phase' = [m \in Msms |-> IF m \in DOMAIN file THEN "waiting" ELSE phase[m]]
  /\ successes' = 0 /\ failures' = 0
  /\ UNCHANGED <<crew, reported>>

Begin(m) ==
  /\ phase[m] = "waiting"
  /\ \A d \in Range(depends[m]) : phase[d] = "over"
  /\ phase' = [phase EXCEPT ![m] = "recruiting"]
  /\ UNCHANGED <<depends, crew, reported, successes, failures>>

Recruit(m, c) ==
  /\ phase[m] = "recruiting"
  /\ c \notin Held
  /\ Needs(m, Class[c])
  /\ crew' = [crew EXCEPT ![m] = @ \cup {c}]
  /\ UNCHANGED <<depends, phase, reported, successes, failures>>

Run(m) ==
  /\ phase[m] = "recruiting"
  /\ Complete(m)
  /\ phase' = [phase EXCEPT ![m] = "running"]
  /\ UNCHANGED <<depends, crew, reported, successes, failures>>

Report(c) ==
  /\ \E m \in Msms : phase[m] = "running" /\ c \in crew[m]
  /\ reported' = reported \cup {c}
  /\ UNCHANGED <<depends, phase, crew, successes, failures>>

Over(m) ==
  /\ phase' = [phase EXCEPT ![m] = "over"]
  /\ crew' = [crew EXCEPT ![m] = {}]
  /\ reported' = reported \ crew[m]
  /\ UNCHANGED depends

Succeed(m) ==
  /\ phase[m] = "running"
  /\ crew[m] \subseteq reported
  /\ Over(m)
  /\ successes' = successes + 1
  /\ UNCHANGED failures

Fail(m) ==
  /\ phase[m] \in {"recruiting", "running"}
  /\ Over(m)
  /\ failures' = failures + 1
  /\ UNCHANGED successes

Next ==
  \/ \E file \in Schedules : Plan(file)
  \/ \E m \in Msms : Begin(m) \/ Run(m) \/ Succeed(m) \/ Fail(m)
  \/ \E m \in Msms, c \in Clients : Recruit(m, c)
  \/ \E c \in Clients : Report(c)

Spec == Init /\ [][Next]_campaign_vars
=============================================================================
