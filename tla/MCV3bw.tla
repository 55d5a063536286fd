------------------------------- MODULE MCV3bw -------------------------------
(* Two clients and two relays, one of them with a fingerprint in lower    *)
(* case.  With a window of four seconds, 15 is the first second beyond it  *)
(* for 11, and 11 comes before the window of 13.                           *)
EXTENDS V3bw, TLC

CONSTANTS c1, c2

MCFps == {"AA", "bb"}
MCHexFps == {"AA"}
MCClients == {c1, c2}
MCSeconds == {11, 13, 14, 15}
MCBws == {35}
MCSymmetry == Permutations(MCClients)
=============================================================================
