---------------------------- MODULE MCLeagueForm ----------------------------
(* Two events whose pages meet in the same two athletes, in opposite order *)
(* and with different names.                                               *)
EXTENDS LeagueForm

CONSTANTS a, b, x, y, n1, n2

MCResults == {<<a, 1>>, <<a, 2>>, <<b, 1>>}

Runs(p, n) == [athlete |-> p, name |-> n]

MCPages ==
    [r \in MCResults |->
        CASE r = <<a, 1>> -> <<Runs(x, n1), Runs(y, n1)>>
          [] r = <<a, 2>> -> <<Runs(x, n2)>>
          [] r = <<b, 1>> -> <<Runs(y, n1), Runs(x, n2)>>]

MCPlaceless == {<<<<b, 1>>, x>>}

MCUnstarted == {<<a, 2>>}

MCYearOf == [r \in MCResults |-> r[2]]
=============================================================================
