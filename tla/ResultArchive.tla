--------------------------- MODULE ResultArchive ----------------------------
(***************************************************************************)
(* What the harvest promises to the pages that read its tables, whatever   *)
(* threads, failures and crashes there are: events are dated once, results *)
(* of dated events are stored once and for good, and a league is replaced  *)
(* as a whole by one built from stored results, the latest being of the    *)
(* league's year.  ResultsHarvest implements it.                           *)
(***************************************************************************)
EXTENDS Integers

CONSTANTS Events, Numbers, LeagueYear

VARIABLES dated,    \* the events that have a birthday
          stored,   \* the results in EVENT_RESULT, as <<event, number>>
          league    \* EVENT_LEAGUE with its items, by event and league year

Years == {LeagueYear[p] : p \in Events \X Numbers}

Init ==
    /\ dated = {}
    /\ stored = {}
    /\ league = [l \in Events \X Years |-> [latest |-> 0, counted |-> {}]]

DateEvent(e) ==
    /\ dated' = dated \cup {e}
    /\ UNCHANGED <<stored, league>>

StoreResult(e, n) ==
    /\ e \in dated
    /\ <<e, n>> \notin stored
    /\ stored' = stored \cup {<<e, n>>}
    /\ UNCHANGED <<dated, league>>

ReplaceLeague(e, latest, counted) ==
    /\ counted # {}
    /\ \A n \in counted \cup {latest} : <<e, n>> \in stored
    /\ league' = [league EXCEPT ![<<e, LeagueYear[<<e, latest>>]>>] =
                      [latest |-> latest, counted |-> counted]]
    /\ UNCHANGED <<dated, stored>>

Next ==
    \E e \in Events :
        \/ DateEvent(e)
        \/ \E n \in Numbers : StoreResult(e, n)
        \/ \E latest \in Numbers, counted \in SUBSET Numbers :
               ReplaceLeague(e, latest, counted)

Spec == Init /\ [][Next]_<<dated, stored, league>>
=============================================================================
