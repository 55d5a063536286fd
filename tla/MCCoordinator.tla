--------------------------- MODULE MCCoordinator ----------------------------
(* Small instances of the coordinator. *)
EXTENDS CoordinatorProperties, TLC

Host(class, conns) == [class |-> class, conns |-> conns]

\* A measurer shared by two measurements that may run side by side, one of
\* them with background traffic.
MCMsms == {1, 2}
MCClass == <<"m", "m", "bg">>
MCHosts == <<<<Host("m", 80), Host("bg", 1)>>, <<Host("m", 160)>>>>
MCDur == <<30, 30>>
MCSchedules == {<<<<>>, <<>>>>}

\* Two clients for four measurements: one that takes both, two that take one,
\* one with no duration, which can only fail; a second file lists two of them,
\* and a third one is refused.
MCRoundsMsms == 1 .. 4
MCRoundsClass == <<"m", "m">>
MCRoundsHosts == <<<<Host("m", 80), Host("m", 80)>>, <<Host("m", 160)>>,
                   <<Host("m", 160)>>, <<Host("m", 160)>>>>
MCRoundsDur == <<30, 30, 30, 0>>
MCRoundsSchedules == {<<<<>>, <<1, 4>>, <<1>>, <<>>>>, (2 :> <<>>) @@ (3 :> <<2>>),
                       1 :> <<2>>}

\* Two measurements that compete for two clients and may run side by side.
MCLiveHosts == <<<<Host("m", 160)>>, <<Host("m", 160)>>>>

\* A background client whose class is not exactly "bg", which the client file
\* reader takes for one and the schedule parser does not.
MCBg2Class == <<"bg2">>
MCBg2Msms == {1}
MCBg2Hosts == <<<<Host("bg2", 2)>>>>
MCBg2Schedules == {<<<<>>>>}
MCBg2Dur == <<30>>
=============================================================================
