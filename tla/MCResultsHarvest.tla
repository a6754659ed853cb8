-------------------------- MODULE MCResultsHarvest --------------------------
(***************************************************************************)
(* Small instances of ResultsHarvest for TLC: two events, a thread of each *)
(* kind, and assignments of league years, by the result that opens a year. *)
(***************************************************************************)
EXTENDS ResultsHarvest

CONSTANTS a, b, timer, forcer

OneEvent  == <<a>>
TwoEvents == <<b, a>>

SameYear   == [p \in Pages |-> 2018]
NewYearAt2 == [p \in Pages |-> IF p[2] < 2 THEN 2018 ELSE 2019]
NewYearAt3 == [p \in Pages |-> IF p[2] < 3 THEN 2018 ELSE 2019]
(* Event a stays within a year, event b enters another with result 2.      *)
NewYearOfB == [p \in Pages |-> IF p = <<b, 2>> THEN 2019 ELSE 2018]

NoPages    == {}
FirstOfA   == {<<a, 1>>}
SecondOfA  == {<<a, 2>>}
FirstOfB   == {<<b, 1>>}
SecondOfB  == {<<b, 2>>}
ThirdOfB   == {<<b, 3>>}
(* Pages without a table before they have rows: histories and a result.    *)
LateTables  == {<<b, 0>>, <<a, 2>>}
EarlyTables == {<<a, 0>>, <<b, 0>>, <<b, 1>>}
=============================================================================
