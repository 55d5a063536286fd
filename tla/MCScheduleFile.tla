--------------------------- MODULE MCScheduleFile ---------------------------
(* JSON files of up to three sets, the empty one and unsound ones included, *)
(* and lines of text that the parser takes or refuses for each reason.      *)
EXTENDS ScheduleFile, TLC

MCMsms == 1 .. 6

Relay(name, bws) == name :> bws
\* One measurer or two, which do not share 7 connections evenly.
Plain == Relay("r1", [a |-> 800])
Shared == Relay("r2", [a |-> 800, b |-> 801])
BgAtLowest == Relay("r2", [a |-> 800, bg |-> 76])
BgAtHighest == Relay("r1", [a |-> 800, b |-> 80, bg |-> 83])
BgTooLow == Relay("r1", [a |-> 800, bg |-> 75])
BgTooHigh == Relay("r1", [a |-> 800, bg |-> 84])
BgAlone == Relay("r1", [bg |-> 80])
NoClass == Relay("r1", <<>>)

MCSets == {<<>>, Plain, Plain @@ Shared, Plain @@ BgAtLowest, BgAtHighest}
MCUnsound == {BgTooLow, BgTooHigh, BgAlone, NoClass}
MCJsonFiles ==
  (UNION {[1 .. n -> MCSets] : n \in 0 .. 3}) \cup {<<Plain, bad>> : bad \in MCUnsound}

Line(id, classes, bws, conns, deps) == <<id, "r1", 30, classes, bws, conns, deps>>
One(id, deps) == Line(id, <<"a">>, <<100>>, <<7>>, deps)
MCTextFiles ==
  { <<>>,
    << <<>>, One(2, <<0>>), One(1, <<2, 0>>), <<>> >>,
    << <<1>>, <<2, "r1", 30>>, One(3, <<2, 2>>) >>,
    << <<0, "r1", 30>> >>,
    << One(1, <<0>>) \o << <<0>> >> >>,
    << Line(1, <<"a", "b">>, <<100>>, <<4, 3>>, <<0>>) >>,
    << Line(1, <<"a">>, <<100>>, <<4, 3>>, <<0>>) >>,
    << Line(1, <<"a", "bg">>, <<100, 10>>, <<7, 2>>, <<0>>) >>,
    << Line(1, <<"bg", "bg">>, <<10, 10>>, <<1, 1>>, <<0>>) >>,
    << One(1, <<0>>), One(1, <<0>>) >>,
    << One(1, <<0>>), One(2, <<3>>) >>,
    << One(1, <<2>>), One(2, <<1>>) >> }
=============================================================================
