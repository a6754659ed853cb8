--------------------------- MODULE MCLeagueTable ----------------------------
(***************************************************************************)
(* A small instance of LeagueTable for TLC: two men, a woman, one whose    *)
(* gender is unknown, and places that give all, some or no points.         *)
(***************************************************************************)
EXTENDS LeagueTable

CONSTANT nobody

GenderOf == <<"M", "M", "F", "">>

Item(a, g, p, t) == [athlete |-> a, gender |-> g, place |-> p, time |-> t]

ShortTime == <<25, 30>>

SmallItems ==
    {Item(a, GenderOf[a], p, ShortTime) : a \in 1 .. 4, p \in {1, 3}}
        \cup {Item(1, "M", 2, ShortTime), Item(2, "M", NoPlace, ShortTime), Item(3, "F", 5, ShortTime), Item(1, "F", 1, ShortTime),
              Item(2, "M", 1, <<30>>), Item(nobody, "M", 1, <<>>), Item(3, "F", 1, <<1, 15, 59>>)}

(* Two athletes, with times of less and of more than an hour.              *)
TimedItems ==
    {Item(a, GenderOf[a], a, t) : a \in {1, 3},
                                  t \in {ShortTime, <<59, 59>>, <<1, 15, 59>>, <<1, 0, 0>>}}
=============================================================================
