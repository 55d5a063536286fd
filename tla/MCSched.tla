------------------------------ MODULE MCSched -------------------------------
(* Every schedule file over three measurements, dependencies that name one  *)
(* twice and cycles included.                                               *)
EXTENDS SchedCaller

MCMsms == {1, 2, 3}

\* The order in which dependencies are listed makes no difference.
Lists == {<<>>} \cup {<<a>> : a \in MCMsms}
           \cup {<<p[1], p[2]>> : p \in {q \in MCMsms \X MCMsms : q[1] <= q[2]}}
MCSchedules == {file \in UNION {[S -> Lists] : S \in SUBSET MCMsms} : Accepts(file)}
=============================================================================
