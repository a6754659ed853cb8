---------------------------- MODULE LeagueTable -----------------------------
(***************************************************************************)
(* How a league table is made: processEventLeagues sums the points of the  *)
(* items of a year's results by athlete, and processEventLeagueForYear     *)
(* ranks the athletes and inserts their rows, in a transaction that        *)
(* replaces the league.                                                    *)
(***************************************************************************)
EXTENDS Integers, FiniteSets, Sequences

CONSTANTS
    Athletes,    \* the athletes' numbers
    Nobody,      \* the athlete number of an unknown runner, null in the table
    Items,       \* the EVENT_RESULT_ITEMs there may be
    MaxPoints,   \* what the first of a gender gets
    MaxItems     \* bound, for TLC: how many items are read in all

Genders  == {"M", "F", ""}
NoPlace  == 0      \* the gender position is null
ItemType == [athlete : Athletes \cup {Nobody}, gender : Genders,
             place : Nat, time : Seq(Nat)]   \* as printed, by its parts

ASSUME AthletesAssumption == /\ Athletes \subseteq Nat /\ IsFiniteSet(Athletes)
                             /\ Nobody \notin Athletes
ASSUME ItemsAssumption    == Items \subseteq ItemType
ASSUME PointsAssumption   == MaxPoints \in Nat /\ MaxItems \in Nat

VARIABLES
    read,                 \* the items read since the map was last empty
    tally,                \* eventLeagueItemsMapByAthlete
    phase,                \* "scan", or "rank" within the transaction
    position,             \* the ranking loop's three counters
    genderPosition,
    rows,                 \* EVENT_LEAGUE_ITEM as the transaction sees it
    league,               \* EVENT_LEAGUE_ITEM as committed
    itemsRead             \* of MaxItems

vars == <<read, tally, phase, position, genderPosition, rows, league, itemsRead>>

(* An athlete is in the map if there are runs; has a row if its position   *)
(* is not 0.                                                               *)
NotInMap == [gender |-> "", points |-> 0, runCount |-> 0]
NoRow    == [position |-> 0, genderPosition |-> 0, gender |-> "",
             points |-> 0, runCount |-> 0]

EmptyMap == [a \in Athletes |-> NotInMap]
NoRows   == [a \in Athletes |-> NoRow]

Init ==
    /\ read = <<>>
    /\ tally = EmptyMap
    /\ phase = "scan"
    /\ position = 0
    /\ genderPosition = [g \in {"M", "F"} |-> 0]
    /\ rows = NoRows
    /\ league = NoRows
    /\ itemsRead = 0

-----------------------------------------------------------------------------
(* Summing the items.                                                      *)

(* The seconds that are stored for a printed time: nothing without a       *)
(* colon.  What is before the minutes is taken for hours only if there is  *)
(* a colon in front of it, so 1:15:59 loses its hour.                      *)
Seconds(time) ==
    LET n       == Len(time)
        minutes == IF n > 1 THEN 60 * time[n - 1] + time[n] ELSE 0
        hours   == IF n > 3 THEN 3600 * time[n - 2] ELSE 0
    IN  hours + minutes

(* Runners who are known and have a time count.                            *)
Counts(item) == item.athlete # Nobody /\ Seconds(item.time) > 0

(* Mutant: no end to the points.                                           *)
CalculatePointsOfAll(place) == MaxPoints - place + 1

CalculatePoints(place) == IF place < MaxPoints THEN MaxPoints - place + 1 ELSE 0

PointsOf(item) == IF item.place = NoPlace THEN 0 ELSE CalculatePoints(item.place)

InMap == {a \in Athletes : tally[a].runCount > 0}

Added(entry, item) ==
    IF entry.runCount = 0
      THEN [gender |-> item.gender, points |-> PointsOf(item), runCount |-> 1]
      ELSE [entry EXCEPT !.points = @ + PointsOf(item), !.runCount = @ + 1]

ReadItem(item) ==
    /\ phase = "scan" /\ itemsRead < MaxItems
    /\ itemsRead' = itemsRead + 1
    /\ read' = Append(read, item)
    /\ tally' = IF Counts(item)
                  THEN [tally EXCEPT ![item.athlete] = Added(@, item)]
                  ELSE tally
    /\ UNCHANGED <<phase, position, genderPosition, rows, league>>

-----------------------------------------------------------------------------
(* Ranking the athletes.                                                   *)

(* The old league's items are removed; no league is written without any.   *)
OpenLeague ==
    /\ phase = "scan" /\ InMap # {}
    /\ phase' = "rank"
    /\ rows' = NoRows
    /\ position' = 0
    /\ genderPosition' = [g \in {"M", "F"} |-> 0]
    /\ UNCHANGED <<read, tally, league, itemsRead>>

Unranked == {a \in InMap : rows[a].position = 0}

(* Mutant: the map by points is walked from its beginning.                 *)
AheadFromBegin(a, b) == \/ tally[a].points < tally[b].points
                        \/ tally[a].points = tally[b].points /\ a < b

(* The multimap by points keeps equal points in the order of insertion,    *)
(* that of the athletes' numbers, and is walked from its end.              *)
Ahead(a, b) == \/ tally[a].points > tally[b].points
               \/ tally[a].points = tally[b].points /\ a > b

(* Mutant: whoever is not a man is counted among the women.                *)
RankedOthers(gender) ==
    [genderPosition EXCEPT ![IF gender = "M" THEN "M" ELSE "F"] = @ + 1]

Ranked(gender) == IF gender \in {"M", "F"}
                    THEN [genderPosition EXCEPT ![gender] = @ + 1]
                    ELSE genderPosition

InsertItem(a) ==
    /\ phase = "rank"
    /\ a \in Unranked
    /\ \A b \in Unranked \ {a} : Ahead(a, b)
    /\ LET g == tally[a].gender
       IN  /\ position' = position + 1
           /\ genderPosition' = Ranked(g)
           /\ rows' = [rows EXCEPT ![a] =
                  [position |-> position + 1,
                   genderPosition |-> IF g \in {"M", "F"} THEN genderPosition[g] + 1 ELSE 0,
                   gender |-> g, points |-> tally[a].points,
                   runCount |-> tally[a].runCount]]
    /\ UNCHANGED <<read, tally, phase, league, itemsRead>>

(* Mutant: the map is kept when its league has been written.               *)
CommitKeepsMap ==
    /\ phase = "rank" /\ Unranked = {}
    /\ league' = rows
    /\ phase' = "scan"
    /\ read' = <<>>
    /\ UNCHANGED <<tally, position, genderPosition, rows, itemsRead>>

Commit ==
    /\ phase = "rank" /\ Unranked = {}
    /\ league' = rows
    /\ phase' = "scan"
    /\ read' = <<>> /\ tally' = EmptyMap
    /\ UNCHANGED <<position, genderPosition, rows, itemsRead>>

(* A statement fails: the exception leaves processEventLeagues, and with   *)
(* it go the transaction and the map.                                      *)
Fail ==
    /\ phase' = "scan"
    /\ rows' = league
    /\ read' = <<>> /\ tally' = EmptyMap
    /\ UNCHANGED <<position, genderPosition, league, itemsRead>>

Next ==
    \/ \E item \in Items : ReadItem(item)
    \/ OpenLeague
    \/ \E a \in Athletes : InsertItem(a)
    \/ Commit
    \/ Fail

Spec == Init /\ [][Next]_vars

-----------------------------------------------------------------------------
(* Properties.                                                             *)

Row == [position : Nat, genderPosition : Nat, gender : Genders,
        points : Nat, runCount : Nat]

(* Every variable stays in its type.                                       *)
TypeOK ==
    /\ read \in Seq(Items)
    /\ tally \in [Athletes -> [gender : Genders, points : Nat, runCount : Nat]]
    /\ phase \in {"scan", "rank"}
    /\ position \in Nat
    /\ genderPosition \in [{"M", "F"} -> Nat]
    /\ rows \in [Athletes -> Row]
    /\ league \in [Athletes -> Row]
    /\ itemsRead \in 0 .. MaxItems

(* Athlete b is listed above athlete a in table t.                         *)
HasRow(t, a)  == t[a].position # 0
Above(t, b, a) == /\ HasRow(t, b)
                  /\ \/ t[b].points > t[a].points
                     \/ t[b].points = t[a].points /\ b > a

Ranking(t) ==
    \A a \in Athletes : HasRow(t, a) =>
        t[a].position = Cardinality({b \in Athletes : Above(t, b, a)}) + 1

GenderRanking(t) ==
    \A a \in Athletes : HasRow(t, a) =>
        t[a].genderPosition =
            IF t[a].gender = "" THEN 0
            ELSE Cardinality({b \in Athletes : /\ Above(t, b, a)
                                               /\ t[b].gender = t[a].gender}) + 1

(* In a league that readers see every athlete's position is one more than  *)
(* the number of athletes with more points, or the same and a higher       *)
(* number: it depends on the totals only, not on the order in which rows   *)
(* were read, inserted or interrupted.                                     *)
LeagueIsRanked == Ranking(league)

(* The same holds of the gender position among the athletes of a gender;   *)
(* one whose gender is unknown has none.                                   *)
GendersAreRanked == GenderRanking(league)

RunsOf(a) == {i \in DOMAIN read : Counts(read[i]) /\ read[i].athlete = a}

PointsOfRuns(a) ==
    LET sum[n \in 0 .. Len(read)] ==
            IF n = 0 THEN 0
            ELSE sum[n - 1] + (IF n \in RunsOf(a) THEN PointsOf(read[n]) ELSE 0)
    IN  sum[Len(read)]

(* What is committed for an athlete is the sum over the items read for     *)
(* this league, and nothing of an earlier league's or of a failed one.     *)
LeagueIsSumOfItems ==
    [][league' # league =>
          \A a \in Athletes : /\ league'[a].runCount = Cardinality(RunsOf(a))
                              /\ league'[a].points = PointsOfRuns(a)]_vars

(* A committed league counts every run that its athlete was timed in, for  *)
(* a time of an hour as for a shorter one; the code does not do so.        *)
TimedRunsOf(a) == {i \in DOMAIN read : /\ read[i].athlete = a
                                       /\ \E k \in DOMAIN read[i].time : read[i].time[k] > 0}

TimedRunsCount ==
    [][league' # league =>
          \A a \in Athletes : league'[a].runCount = Cardinality(TimedRunsOf(a))]_vars

=============================================================================
