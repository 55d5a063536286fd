--------------------------- MODULE MCDescriptors ----------------------------
(* Two clients, for a measurement that needs both and two that need one    *)
(* and may run side by side, round after round until descriptors run out.  *)
EXTENDS Descriptors, CoordinatorProperties

MCHost == [class |-> "m", conns |-> 80]
MCMsms == 1 .. 3
MCClass == <<"m", "m">>
MCHosts == <<<<MCHost, MCHost>>, <<MCHost>>, <<MCHost>>>>
MCDur == <<30, 30, 30>>
MCSchedules == {<<<<>>, <<>>, <<>>>>}
=============================================================================
