------------------------- MODULE LeagueTable_proofs -------------------------
(***************************************************************************)
(* A committed league is ranked, whatever the items and the failures: its  *)
(* positions and gender positions are those that follow from the totals,   *)
(* and the totals are the sums of the items read for it.                   *)
(***************************************************************************)
EXTENDS LeagueTable, FiniteSetTheorems, TLAPS

Done == {a \in Athletes : HasRow(rows, a)}

(* While the athletes are being ranked: those that have a row are ahead of *)
(* those that have not, their rows are of their totals, and the counters   *)
(* count the rows.                                                         *)
RowsOfTally ==
    \A a \in Done : /\ a \in InMap
                    /\ rows[a].points = tally[a].points
                    /\ rows[a].gender = tally[a].gender

DoneAreAhead == \A a \in Done, b \in InMap \ Done : Ahead(a, b)

CountersCount ==
    /\ position = Cardinality(Done)
    /\ \A g \in {"M", "F"} :
           genderPosition[g] = Cardinality({a \in Done : rows[a].gender = g})

RankSound == phase = "rank" => /\ RowsOfTally
                               /\ DoneAreAhead
                               /\ CountersCount
                               /\ Ranking(rows)
                               /\ GenderRanking(rows)

IInv == TypeOK /\ RankSound /\ LeagueIsRanked /\ GendersAreRanked

-----------------------------------------------------------------------------
(* Points are natural numbers.                                             *)
LEMMA PointsOfType ==
    ASSUME NEW item \in Items PROVE PointsOf(item) \in Nat
<1>1. item.place \in Nat
  BY ItemsAssumption DEF ItemType
<1>2. MaxPoints \in Nat
  BY PointsAssumption
<1> QED
  BY <1>1, <1>2 DEF PointsOf, CalculatePoints, NoPlace

LEMMA AddedType ==
    ASSUME NEW item \in Items,
           NEW entry \in [gender : Genders, points : Nat, runCount : Nat]
    PROVE  Added(entry, item) \in [gender : Genders, points : Nat, runCount : Nat]
<1>1. PointsOf(item) \in Nat
  BY PointsOfType
<1>2. item.gender \in Genders
  BY ItemsAssumption DEF ItemType
<1>3. CASE entry.runCount = 0
  BY <1>1, <1>2, <1>3 DEF Added
<1>4. CASE entry.runCount # 0
  <2> DEFINE e == [entry EXCEPT !.points = @ + PointsOf(item), !.runCount = @ + 1]
  <2>1. entry.points + PointsOf(item) \in Nat /\ entry.runCount + 1 \in Nat
    BY <1>1
  <2>2. e \in [gender : Genders, points : Nat, runCount : Nat]
    BY <2>1
  <2> QED
    BY <1>4, <2>2 DEF Added
<1> QED
  BY <1>3, <1>4

(* The tables without rows are ranked.                                     *)
LEMMA NoRowsRanked == Ranking(NoRows) /\ GenderRanking(NoRows)
  BY DEF Ranking, GenderRanking, HasRow, NoRows, NoRow

LEMMA NoRowsType == NoRows \in [Athletes -> Row] /\ EmptyMap \in [Athletes -> [gender : Genders, points : Nat, runCount : Nat]]
  BY DEF NoRows, NoRow, Row, Genders, EmptyMap, NotInMap

LEMMA InitIInv == Init => IInv
<1> SUFFICES ASSUME Init PROVE IInv
  OBVIOUS
<1>1. TypeOK
  BY NoRowsType, PointsAssumption DEF Init, TypeOK
<1>2. RankSound
  BY DEF Init, RankSound
<1> QED
  BY <1>1, <1>2, NoRowsRanked DEF Init, IInv, LeagueIsRanked, GendersAreRanked

-----------------------------------------------------------------------------
(* The rows that InsertItem(c) adds one to.                                *)
LEMMA InsertItemType ==
    ASSUME TypeOK, NEW c \in Athletes, InsertItem(c)
    PROVE  TypeOK'
<1>1. tally[c] \in [gender : Genders, points : Nat, runCount : Nat]
  BY DEF TypeOK
<1>2. genderPosition' \in [{"M", "F"} -> Nat]
  BY DEF InsertItem, Ranked, TypeOK
<1>3. rows' \in [Athletes -> Row]
  <2> DEFINE g == tally[c].gender
             gp == IF g \in {"M", "F"} THEN genderPosition[g] + 1 ELSE 0
             row == [position |-> position + 1, genderPosition |-> gp, gender |-> g,
                     points |-> tally[c].points, runCount |-> tally[c].runCount]
  <2>1. gp \in Nat
    BY DEF TypeOK
  <2>2. row \in Row
    BY <1>1, <2>1 DEF TypeOK, Row
  <2>3. rows' = [rows EXCEPT ![c] = row]
    BY DEF InsertItem
  <2> HIDE DEF row
  <2> QED
    BY <2>2, <2>3 DEF TypeOK
<1> QED
  BY <1>2, <1>3 DEF InsertItem, TypeOK

(* InsertItem(c) puts c below all rows there are and changes none of them. *)
LEMMA InsertItemRow ==
    ASSUME TypeOK, RankSound, NEW c \in Athletes, InsertItem(c)
    PROVE  /\ c \in InMap /\ c \notin Done
           /\ Done' = Done \cup {c}
           /\ InMap' = InMap
           /\ \A a \in Athletes \ {c} : rows'[a] = rows[a]
           /\ rows'[c].position = position + 1
           /\ rows'[c].gender = tally[c].gender
           /\ rows'[c].points = tally[c].points
           /\ rows'[c].genderPosition =
                  IF tally[c].gender \in {"M", "F"}
                    THEN genderPosition[tally[c].gender] + 1 ELSE 0
           /\ \A a \in Done : Ahead(a, c) /\ ~Ahead(c, a)
<1>1. c \in InMap /\ c \notin Done
  BY DEF InsertItem, Unranked, Done, HasRow
<1>2. InMap' = InMap
  BY DEF InsertItem, InMap
<1>3. \A a \in Athletes \ {c} : rows'[a] = rows[a]
  BY DEF InsertItem, TypeOK
<1>4. /\ rows'[c].position = position + 1
      /\ rows'[c].gender = tally[c].gender
      /\ rows'[c].points = tally[c].points
      /\ rows'[c].genderPosition =
             IF tally[c].gender \in {"M", "F"}
               THEN genderPosition[tally[c].gender] + 1 ELSE 0
  BY DEF InsertItem, TypeOK
<1>5. Done' = Done \cup {c}
  BY <1>3, <1>4 DEF Done, HasRow, TypeOK
<1>6. \A a \in Done : Ahead(a, c) /\ ~Ahead(c, a)
  <2>1. \A a \in Done : Ahead(a, c)
    BY <1>1 DEF RankSound, DoneAreAhead, InsertItem
  <2>2. \A a \in Athletes : tally[a].points \in Nat /\ a \in Nat
    BY AthletesAssumption DEF TypeOK
  <2> QED
    BY <2>1, <2>2 DEF Ahead, Done
<1> QED
  BY <1>1, <1>2, <1>3, <1>4, <1>5, <1>6

(* Who is above whom among the rows that were there stays as it was, and   *)
(* all of them are above the new one.                                      *)
LEMMA InsertItemAbove ==
    ASSUME TypeOK, RankSound, NEW c \in Athletes, InsertItem(c)
    PROVE  /\ \A a \in Done, b \in Athletes : Above(rows, b, a)' <=> Above(rows, b, a)
           /\ \A b \in Athletes : Above(rows, b, c)' <=> b \in Done
<1>1. RowsOfTally
  BY DEF RankSound, InsertItem
<1>2. \A a \in Athletes : a \in Nat /\ tally[a].points \in Nat
  BY AthletesAssumption DEF TypeOK
<1>3. ~HasRow(rows, c)
  BY InsertItemRow DEF Done
<1>4. ASSUME NEW a \in Done, NEW b \in Athletes
      PROVE  Above(rows, b, a)' <=> Above(rows, b, a)
  <2>1. a # c /\ a \in Athletes
    BY InsertItemRow DEF Done
  <2>2. CASE b # c
    BY <2>1, <2>2, InsertItemRow DEF Above, HasRow
  <2>3. CASE b = c
    <3>1. ~Above(rows, b, a)
      BY <1>3, <2>3 DEF Above
    <3>2. rows'[c].points = tally[c].points /\ rows'[a].points = tally[a].points
      BY <1>1, <2>1, InsertItemRow DEF RowsOfTally
    <3>3. ~Ahead(c, a)
      BY InsertItemRow
    <3> QED
      BY <3>1, <3>2, <3>3, <2>3 DEF Above, Ahead
  <2> QED
    BY <2>2, <2>3
<1>5. ASSUME NEW b \in Athletes PROVE Above(rows, b, c)' <=> b \in Done
  <2>1. CASE b = c
    BY <2>1, <1>2, InsertItemRow DEF Above
  <2>2. CASE b \in Done
    <3>1. b # c
      BY <2>2, InsertItemRow
    <3>2. rows'[c].points = tally[c].points /\ rows'[b].points = tally[b].points
      BY <1>1, <2>2, <3>1, InsertItemRow DEF RowsOfTally
    <3>3. HasRow(rows, b)'
      BY <2>2, <3>1, InsertItemRow DEF Done, HasRow
    <3>4. Ahead(b, c)
      BY <2>2, InsertItemRow
    <3> QED
      BY <2>2, <3>2, <3>3, <3>4 DEF Above, Ahead
  <2>3. CASE b # c /\ b \notin Done
    BY <2>3, InsertItemRow DEF Above, HasRow, Done
  <2> QED
    BY <2>1, <2>2, <2>3, InsertItemRow
<1> QED
  BY <1>4, <1>5

LEMMA InsertItemRankSound ==
    ASSUME TypeOK, RankSound, NEW c \in Athletes, InsertItem(c)
    PROVE  RankSound'
<1>0. /\ c \in InMap /\ c \notin Done
      /\ Done' = Done \cup {c}
      /\ InMap' = InMap
      /\ \A a \in Athletes \ {c} : rows'[a] = rows[a]
      /\ rows'[c].position = position + 1
      /\ rows'[c].gender = tally[c].gender
      /\ rows'[c].points = tally[c].points
      /\ rows'[c].genderPosition =
             IF tally[c].gender \in {"M", "F"}
               THEN genderPosition[tally[c].gender] + 1 ELSE 0
  BY InsertItemRow
<1>a. /\ \A a \in Done, b \in Athletes : Above(rows, b, a)' <=> Above(rows, b, a)
      /\ \A b \in Athletes : Above(rows, b, c)' <=> b \in Done
  BY InsertItemAbove
<1>1. /\ RowsOfTally /\ DoneAreAhead /\ CountersCount
      /\ Ranking(rows) /\ GenderRanking(rows)
  BY DEF RankSound, InsertItem
<1>2. tally' = tally /\ phase' = "rank"
  BY DEF InsertItem
<1>3. IsFiniteSet(Done) /\ Done \subseteq Athletes
  BY AthletesAssumption, FS_Subset DEF Done
<1>4. RowsOfTally'
  BY <1>0, <1>1, <1>2, <1>3 DEF RowsOfTally
<1>5. DoneAreAhead'
  <2>1. \A b \in InMap \ (Done \cup {c}) : Ahead(c, b)
    BY DEF InsertItem, Unranked, Done, HasRow, InMap
  <2>2. \A a, b : Ahead(a, b)' <=> Ahead(a, b)
    BY <1>2 DEF Ahead
  <2> QED
    BY <1>0, <1>1, <2>1, <2>2 DEF DoneAreAhead
<1>6. CountersCount'
  <2>1. position' = Cardinality(Done')
    <3>1. Cardinality(Done \cup {c}) = Cardinality(Done) + 1
      BY <1>0, <1>3, FS_AddElement
    <3> QED
      BY <1>0, <1>1, <3>1 DEF CountersCount, InsertItem
  <2>2. ASSUME NEW g \in {"M", "F"}
        PROVE  genderPosition'[g] = Cardinality({a \in Done' : rows'[a].gender = g})
    <3> DEFINE Of == {a \in Done : rows[a].gender = g}
    <3>1. IsFiniteSet(Of)
      BY <1>3, FS_Subset
    <3>2. genderPosition[g] = Cardinality(Of)
      BY <1>1 DEF CountersCount
    <3>3. CASE tally[c].gender = g
      <4>1. {a \in Done' : rows'[a].gender = g} = Of \cup {c} /\ c \notin Of
        BY <1>0, <1>3, <3>3
      <4>2. genderPosition'[g] = genderPosition[g] + 1
        BY <3>3 DEF InsertItem, Ranked, TypeOK
      <4>3. Cardinality(Of \cup {c}) = Cardinality(Of) + 1
        BY <3>1, <4>1, FS_AddElement
      <4> QED
        BY <3>2, <4>1, <4>2, <4>3
    <3>4. CASE tally[c].gender # g
      <4>1. {a \in Done' : rows'[a].gender = g} = Of
        BY <1>0, <1>3, <3>4
      <4>2. genderPosition'[g] = genderPosition[g]
        BY <3>4 DEF InsertItem, Ranked, TypeOK
      <4> QED
        BY <3>2, <4>1, <4>2
    <3> QED
      BY <3>3, <3>4
  <2> QED
    BY <2>1, <2>2 DEF CountersCount
<1>7. Ranking(rows)'
  <2> SUFFICES ASSUME NEW a \in Athletes, HasRow(rows, a)'
               PROVE  rows'[a].position =
                          Cardinality({b \in Athletes : Above(rows, b, a)'}) + 1
    BY DEF Ranking
  <2>1. CASE a = c
    <3>1. {b \in Athletes : Above(rows, b, c)'} = Done
      BY <1>a, <1>3
    <3> QED
      BY <1>0, <1>1, <2>1, <3>1 DEF CountersCount
  <2>2. CASE a # c
    <3>1. a \in Done
      BY <1>0, <2>2 DEF Done, HasRow
    <3>2. {b \in Athletes : Above(rows, b, a)'} = {b \in Athletes : Above(rows, b, a)}
      BY <1>a, <3>1
    <3> QED
      BY <1>0, <1>1, <2>2, <3>1, <3>2 DEF Ranking, Done
  <2> QED
    BY <2>1, <2>2
<1>8. GenderRanking(rows)'
  <2> SUFFICES ASSUME NEW a \in Athletes, HasRow(rows, a)'
               PROVE  rows'[a].genderPosition =
                          IF rows'[a].gender = "" THEN 0
                          ELSE Cardinality({b \in Athletes :
                                  /\ Above(rows, b, a)'
                                  /\ rows'[b].gender = rows'[a].gender}) + 1
    BY DEF GenderRanking
  <2>1. CASE a = c
    <3>1. {b \in Athletes : Above(rows, b, c)' /\ rows'[b].gender = rows'[c].gender}
              = {b \in Done : rows[b].gender = rows'[c].gender}
      BY <1>0, <1>a, <1>3
    <3>2. tally[c].gender \in {"M", "F", ""}
      BY DEF TypeOK, Genders
    <3>3. CASE tally[c].gender = ""
      BY <1>0, <2>1, <3>3
    <3>4. CASE tally[c].gender \in {"M", "F"}
      <4>1. rows'[c].genderPosition = genderPosition[tally[c].gender] + 1
        BY <1>0, <3>4
      <4>2. genderPosition[tally[c].gender] = Cardinality({b \in Done : rows[b].gender = rows'[c].gender})
        BY <1>0, <1>1, <3>4 DEF CountersCount
      <4>3. rows'[c].gender # ""
        BY <1>0, <3>4
      <4> QED
        BY <2>1, <3>1, <4>1, <4>2, <4>3
    <3> QED
      BY <3>2, <3>3, <3>4
  <2>2. CASE a # c
    <3>1. a \in Done
      BY <1>0, <2>2 DEF Done, HasRow
    <3>2. \A b \in Athletes : Above(rows, b, a) => b # c
      BY <1>0 DEF Above, Done
    <3>3. {b \in Athletes : Above(rows, b, a)' /\ rows'[b].gender = rows'[a].gender}
              = {b \in Athletes : Above(rows, b, a) /\ rows[b].gender = rows[a].gender}
      BY <1>0, <1>a, <2>2, <3>1, <3>2
    <3> QED
      BY <1>0, <1>1, <2>2, <3>1, <3>3 DEF GenderRanking, Done
  <2> QED
    BY <2>1, <2>2
<1> QED
  BY <1>2, <1>4, <1>5, <1>6, <1>7, <1>8 DEF RankSound

LEMMA OpenLeagueRankSound ==
    ASSUME TypeOK, OpenLeague PROVE RankSound'
<1>1. rows' = NoRows /\ tally' = tally /\ phase' = "rank" /\ position' = 0
      /\ genderPosition' = [g \in {"M", "F"} |-> 0]
  BY DEF OpenLeague
<1>2. Done' = {}
  BY <1>1 DEF Done, HasRow, NoRows, NoRow
<1>3. CountersCount'
  BY <1>1, <1>2, FS_EmptySet DEF CountersCount
<1>4. Ranking(rows)' /\ GenderRanking(rows)'
  BY <1>1, NoRowsRanked
<1> QED
  BY <1>2, <1>3, <1>4 DEF RankSound, RowsOfTally, DoneAreAhead

LEMMA NextType == TypeOK /\ [Next]_vars => TypeOK'
<1> SUFFICES ASSUME TypeOK, [Next]_vars PROVE TypeOK'
  OBVIOUS
<1>1. ASSUME NEW item \in Items, ReadItem(item) PROVE TypeOK'
  <2>1. read' \in Seq(Items)
    BY <1>1 DEF ReadItem, TypeOK
  <2>2. tally' \in [Athletes -> [gender : Genders, points : Nat, runCount : Nat]]
    <3>1. CASE Counts(item)
      <4>1. item.athlete \in Athletes
        BY <3>1, ItemsAssumption DEF Counts, ItemType
      <4>2. Added(tally[item.athlete], item) \in [gender : Genders, points : Nat, runCount : Nat]
        BY <4>1, AddedType DEF TypeOK
      <4> QED
        BY <1>1, <3>1, <4>1, <4>2 DEF ReadItem, TypeOK
    <3>2. CASE ~Counts(item)
      BY <1>1, <3>2 DEF ReadItem, TypeOK
    <3> QED
      BY <3>1, <3>2
  <2>3. itemsRead' \in 0 .. MaxItems
    BY <1>1, PointsAssumption DEF ReadItem, TypeOK
  <2> QED
    BY <1>1, <2>1, <2>2, <2>3 DEF ReadItem, TypeOK
<1>2. CASE OpenLeague
  BY <1>2, NoRowsType DEF OpenLeague, TypeOK
<1>3. ASSUME NEW a \in Athletes, InsertItem(a) PROVE TypeOK'
  BY <1>3, InsertItemType
<1>4. CASE Commit
  BY <1>4, NoRowsType DEF Commit, TypeOK
<1>5. CASE Fail
  BY <1>5, NoRowsType DEF Fail, TypeOK
<1>6. CASE UNCHANGED vars
  BY <1>6 DEF vars, TypeOK
<1> QED
  BY <1>1, <1>2, <1>3, <1>4, <1>5, <1>6 DEF Next

LEMMA NextIInv == IInv /\ [Next]_vars => IInv'
<1> SUFFICES ASSUME IInv, [Next]_vars PROVE IInv'
  OBVIOUS
<1> USE DEF IInv
<1>1. TypeOK'
  BY NextType
<1>2. ASSUME NEW item \in Items, ReadItem(item) PROVE IInv'
  BY <1>1, <1>2 DEF ReadItem, RankSound, LeagueIsRanked, GendersAreRanked
<1>3. CASE OpenLeague
  BY <1>1, <1>3, OpenLeagueRankSound DEF OpenLeague, LeagueIsRanked, GendersAreRanked
<1>4. ASSUME NEW a \in Athletes, InsertItem(a) PROVE IInv'
  BY <1>1, <1>4, InsertItemRankSound DEF InsertItem, LeagueIsRanked, GendersAreRanked
<1>5. CASE Commit
  <2>1. league' = rows /\ phase' = "scan" /\ Ranking(rows) /\ GenderRanking(rows)
    BY <1>5 DEF Commit, RankSound
  <2> QED
    BY <1>1, <2>1 DEF RankSound, LeagueIsRanked, GendersAreRanked
<1>6. CASE Fail
  BY <1>1, <1>6 DEF Fail, RankSound, LeagueIsRanked, GendersAreRanked
<1>7. CASE UNCHANGED vars
  <2>1. /\ phase' = phase /\ rows' = rows /\ tally' = tally /\ league' = league
        /\ position' = position /\ genderPosition' = genderPosition
    BY <1>7 DEF vars
  <2>2. Done' = Done /\ InMap' = InMap
    BY <2>1 DEF Done, InMap, HasRow
  <2>3. RowsOfTally => RowsOfTally'
    BY <2>1, <2>2 DEF RowsOfTally
  <2>4. DoneAreAhead => DoneAreAhead'
    BY <2>1, <2>2 DEF DoneAreAhead, Ahead
  <2>5. CountersCount => CountersCount'
    BY <2>1, <2>2 DEF CountersCount
  <2>6. Ranking(rows)' <=> Ranking(rows)
    BY <2>1
  <2>7. GenderRanking(rows)' <=> GenderRanking(rows)
    BY <2>1
  <2>8. LeagueIsRanked' /\ GendersAreRanked'
    BY <2>1 DEF LeagueIsRanked, GendersAreRanked
  <2> QED
    BY <1>1, <2>1, <2>3, <2>4, <2>5, <2>6, <2>7, <2>8 DEF RankSound
<1> QED
  BY <1>2, <1>3, <1>4, <1>5, <1>6, <1>7 DEF Next

-----------------------------------------------------------------------------
(* The sums.  A running total of an athlete's points over the items read   *)
(* is what the recursion of PointsOfRuns asks for; that there is one, and  *)
(* that each ends in what the map has for the athlete, is carried from     *)
(* item to item with the state.                                            *)
Gives(a, n) == IF n \in RunsOf(a) THEN PointsOf(read[n]) ELSE 0

Totals(a, sum) ==
    sum = [n \in 0 .. Len(read) |-> IF n = 0 THEN 0 ELSE sum[n - 1] + Gives(a, n)]

TallyIsSum ==
    \A a \in Athletes :
        /\ tally[a].runCount = Cardinality(RunsOf(a))
        /\ tally[a].runCount = 0 => tally[a].points = 0
        /\ \E sum : Totals(a, sum)
        /\ \A sum : Totals(a, sum) => sum[Len(read)] = tally[a].points

RowsAreOfMap ==
    phase = "rank" =>
        \A a \in Athletes : \/ rows[a] = NoRow
                            \/ /\ rows[a].points = tally[a].points
                               /\ rows[a].runCount = tally[a].runCount

SumInv == TypeOK /\ TallyIsSum /\ RowsAreOfMap

(* The recursion has the value that the running totals end in.             *)
LEMMA PointsOfRunsIsTotal ==
    ASSUME NEW a, NEW points,
           \E sum : Totals(a, sum),
           \A sum : Totals(a, sum) => sum[Len(read)] = points
    PROVE  PointsOfRuns(a) = points
<1> DEFINE chosen == CHOOSE sum : Totals(a, sum)
<1>1. Totals(a, chosen)
  OBVIOUS
<1>2. PointsOfRuns(a) = chosen[Len(read)]
  BY DEF PointsOfRuns, Totals, Gives
<1> QED
  BY <1>1, <1>2

(* With nothing read every total is nought.                                *)
LEMMA NothingRead ==
    ASSUME NEW a, read = <<>>
    PROVE  /\ RunsOf(a) = {}
           /\ \E sum : Totals(a, sum)
           /\ \A sum : Totals(a, sum) => sum[Len(read)] = 0
<1>1. Len(read) = 0 /\ DOMAIN read = {}
  OBVIOUS
<1>2. Totals(a, [n \in {0} |-> 0])
  BY <1>1 DEF Totals
<1>3. ASSUME NEW sum, Totals(a, sum) PROVE sum[Len(read)] = 0
  BY <1>1, <1>3 DEF Totals
<1> QED
  BY <1>1, <1>2, <1>3 DEF RunsOf

(* An item adds a run to its athlete, if it counts, and to no other.       *)
LEMMA RunsOfNext ==
    ASSUME TypeOK, NEW a \in Athletes, NEW item \in Items, ReadItem(item)
    PROVE  /\ Len(read)' = Len(read) + 1 /\ Len(read) \in Nat
           /\ \A n \in 1 .. Len(read) : read'[n] = read[n]
           /\ read'[Len(read) + 1] = item
           /\ RunsOf(a)' = IF Counts(item) /\ item.athlete = a
                             THEN RunsOf(a) \cup {Len(read) + 1} ELSE RunsOf(a)
           /\ RunsOf(a) \subseteq 1 .. Len(read)
<1>1. read \in Seq(Items) /\ read' = Append(read, item)
  BY DEF ReadItem, TypeOK
<1>2. /\ Len(read)' = Len(read) + 1 /\ Len(read) \in Nat
      /\ \A n \in 1 .. Len(read) : read'[n] = read[n]
      /\ read'[Len(read) + 1] = item
      /\ DOMAIN read = 1 .. Len(read)
      /\ DOMAIN read' = 1 .. Len(read) + 1
  BY <1>1
<1>3. RunsOf(a) \subseteq 1 .. Len(read)
  BY <1>2 DEF RunsOf
<1>4. DOMAIN read' = DOMAIN read \cup {Len(read) + 1}
  BY <1>2
<1>5. RunsOf(a)' = {i \in DOMAIN read' : Counts(read'[i]) /\ read'[i].athlete = a}
  BY DEF RunsOf, Counts
<1>6. ASSUME NEW i PROVE i \in RunsOf(a)' <=> \/ i \in RunsOf(a)
                                              \/ /\ i = Len(read) + 1
                                                 /\ Counts(item) /\ item.athlete = a
  BY <1>2, <1>4, <1>5 DEF RunsOf
<1> QED
  BY <1>2, <1>3, <1>6

LEMMA RunsOfFinite ==
    ASSUME TypeOK, NEW a PROVE IsFiniteSet(RunsOf(a))
<1>1. Len(read) \in Nat /\ DOMAIN read = 1 .. Len(read)
  BY DEF TypeOK
<1>2. IsFiniteSet(1 .. Len(read))
  BY <1>1, FS_Interval
<1> QED
  BY <1>1, <1>2, FS_Subset DEF RunsOf

(* A total goes on with what the item gives.                               *)
LEMMA TotalsNext ==
    ASSUME TypeOK, NEW a \in Athletes, NEW item \in Items, ReadItem(item),
           NEW points \in Nat,
           \E sum : Totals(a, sum),
           \A sum : Totals(a, sum) => sum[Len(read)] = points
    PROVE  /\ \E sum : Totals(a, sum)'
           /\ \A sum : Totals(a, sum)' =>
                  sum[Len(read)'] = points + (IF Counts(item) /\ item.athlete = a
                                                THEN PointsOf(item) ELSE 0)
<1> SUFFICES ASSUME NEW n \in Nat, n = Len(read)
             PROVE  /\ \E sum : Totals(a, sum)'
                    /\ \A sum : Totals(a, sum)' =>
                           sum[Len(read)'] = points + (IF Counts(item) /\ item.athlete = a
                                                         THEN PointsOf(item) ELSE 0)
  BY RunsOfNext
<1> DEFINE new == IF Counts(item) /\ item.athlete = a THEN PointsOf(item) ELSE 0
<1>1. /\ n \in Nat /\ Len(read)' = n + 1
      /\ \A i \in 1 .. n : Gives(a, i)' = Gives(a, i)
      /\ Gives(a, n + 1)' = new
  <2>1. /\ Len(read)' = n + 1 /\ n \in Nat
        /\ \A i \in 1 .. n : read'[i] = read[i]
        /\ read'[n + 1] = item
        /\ RunsOf(a)' = IF Counts(item) /\ item.athlete = a
                          THEN RunsOf(a) \cup {n + 1} ELSE RunsOf(a)
        /\ RunsOf(a) \subseteq 1 .. n
    BY RunsOfNext
  <2>2. n + 1 \notin RunsOf(a)
    BY <2>1
  <2>3. \A i : Gives(a, i)' = IF i \in RunsOf(a)' THEN PointsOf(read'[i]) ELSE 0
    BY DEF Gives, PointsOf
  <2>4. \A i \in 1 .. n : i \in RunsOf(a)' <=> i \in RunsOf(a)
    BY <2>1
  <2>5. ASSUME NEW i \in 1 .. n PROVE Gives(a, i)' = Gives(a, i)
    BY <2>1, <2>3, <2>4 DEF Gives
  <2>6. Gives(a, n + 1)' = new
    <3>1. n + 1 \in RunsOf(a)' <=> Counts(item) /\ item.athlete = a
      BY <2>1, <2>2
    <3> QED
      BY <2>1, <2>3, <3>1
  <2> QED
    BY <2>1, <2>5, <2>6
<1> HIDE DEF new
<1>2. \A sum : Totals(a, sum)' <=>
          sum = [i \in 0 .. n + 1 |-> IF i = 0 THEN 0 ELSE sum[i - 1] + Gives(a, i)']
  BY <1>1 DEF Totals
<1>3. \A sum : Totals(a, sum) <=>
          sum = [i \in 0 .. n |-> IF i = 0 THEN 0 ELSE sum[i - 1] + Gives(a, i)]
  BY DEF Totals
<1>4. \E sum : Totals(a, sum)'
  <2>1. PICK sum : Totals(a, sum)
    OBVIOUS
  <2> DEFINE next == [i \in 0 .. n + 1 |-> IF i <= n THEN sum[i] ELSE sum[n] + new]
  <2>2. ASSUME NEW i \in 0 .. n + 1
        PROVE  next[i] = IF i = 0 THEN 0 ELSE next[i - 1] + Gives(a, i)'
    <3>1. sum = [k \in 0 .. n |-> IF k = 0 THEN 0 ELSE sum[k - 1] + Gives(a, k)]
      BY <1>3, <2>1
    <3>2. CASE i = 0
      BY <1>1, <3>1, <3>2
    <3>3. CASE i \in 1 .. n
      <4>1. sum[i] = sum[i - 1] + Gives(a, i)
        BY <1>1, <3>1, <3>3
      <4>2. next[i] = sum[i] /\ next[i - 1] = sum[i - 1]
        BY <1>1, <3>3
      <4> QED
        BY <1>1, <3>3, <4>1, <4>2
    <3>4. CASE i = n + 1
      <4>1. next[i] = sum[n] + new /\ next[i - 1] = sum[n]
        BY <1>1, <3>4
      <4> QED
        BY <1>1, <3>4, <4>1
    <3> QED
      BY <1>1, <3>2, <3>3, <3>4
  <2> HIDE DEF next
  <2>3. next = [i \in 0 .. n + 1 |-> next[i]]
    BY DEF next
  <2>4. next = [i \in 0 .. n + 1 |-> IF i = 0 THEN 0 ELSE next[i - 1] + Gives(a, i)']
    BY <2>2, <2>3
  <2> QED
    BY <1>2, <2>4
<1>5. ASSUME NEW sum, Totals(a, sum)'
      PROVE  sum[Len(read)'] = points + new
  <2>1. sum = [i \in 0 .. n + 1 |-> IF i = 0 THEN 0 ELSE sum[i - 1] + Gives(a, i)']
    BY <1>2, <1>5
  <2> DEFINE before == [i \in 0 .. n |-> sum[i]]
  <2>2. ASSUME NEW i \in 0 .. n
        PROVE  before[i] = IF i = 0 THEN 0 ELSE before[i - 1] + Gives(a, i)
    <3>1. CASE i = 0
      BY <1>1, <2>1, <3>1
    <3>2. CASE i # 0
      <4>1. i \in 1 .. n /\ i - 1 \in 0 .. n /\ i \in 0 .. n + 1
        BY <1>1, <3>2
      <4>2. sum[i] = sum[i - 1] + Gives(a, i)'
        BY <2>1, <3>2, <4>1
      <4> QED
        BY <1>1, <3>2, <4>1, <4>2
    <3> QED
      BY <3>1, <3>2
  <2>3. before = [i \in 0 .. n |-> IF i = 0 THEN 0 ELSE before[i - 1] + Gives(a, i)]
    BY <2>2
  <2>4. before[n] = points
    <3> HIDE DEF before
    <3>1. Totals(a, before)
      BY <1>3, <2>3
    <3> QED
      BY <3>1
  <2>5. sum[n] = points
    BY <1>1, <2>4
  <2>6. sum[n + 1] = sum[n] + Gives(a, n + 1)'
    BY <1>1, <2>1
  <2> QED
    BY <1>1, <2>5, <2>6
<1> QED
  BY <1>4, <1>5 DEF new

LEMMA ReadItemSum ==
    ASSUME TypeOK, TallyIsSum, NEW item \in Items, ReadItem(item)
    PROVE  TallyIsSum'
<1> SUFFICES ASSUME NEW a \in Athletes
             PROVE  /\ tally'[a].runCount = Cardinality(RunsOf(a)')
                    /\ tally'[a].runCount = 0 => tally'[a].points = 0
                    /\ \E sum : Totals(a, sum)'
                    /\ \A sum : Totals(a, sum)' => sum[Len(read)'] = tally'[a].points
  BY DEF TallyIsSum
<1> DEFINE its == Counts(item) /\ item.athlete = a
<1>1. /\ tally[a].runCount = Cardinality(RunsOf(a))
      /\ tally[a].runCount = 0 => tally[a].points = 0
      /\ \E sum : Totals(a, sum)
      /\ \A sum : Totals(a, sum) => sum[Len(read)] = tally[a].points
  BY DEF TallyIsSum
<1>2. tally[a] \in [gender : Genders, points : Nat, runCount : Nat]
  BY DEF TypeOK
<1>3. /\ \E sum : Totals(a, sum)'
      /\ \A sum : Totals(a, sum)' =>
             sum[Len(read)'] = tally[a].points + (IF its THEN PointsOf(item) ELSE 0)
  <2>1. tally[a].points \in Nat
    BY <1>2
  <2> QED
    BY <1>1, <2>1, TotalsNext
<1>4. CASE its
  <2>1. tally'[a] = Added(tally[a], item)
    BY <1>4 DEF ReadItem, TypeOK
  <2>2. PointsOf(item) \in Nat
    BY PointsOfType
  <2>3. /\ tally'[a].runCount = tally[a].runCount + 1
        /\ tally'[a].points = tally[a].points + PointsOf(item)
    BY <1>1, <1>2, <2>1, <2>2 DEF Added
  <2>4. Cardinality(RunsOf(a)') = Cardinality(RunsOf(a)) + 1
    <3>1. RunsOf(a)' = RunsOf(a) \cup {Len(read) + 1} /\ Len(read) + 1 \notin RunsOf(a)
      BY <1>4, RunsOfNext
    <3> QED
      BY <3>1, RunsOfFinite, FS_AddElement
  <2> QED
    BY <1>1, <1>2, <1>3, <1>4, <2>3, <2>4
<1>5. CASE ~its
  <2>1. tally'[a] = tally[a]
    BY <1>5 DEF ReadItem, TypeOK
  <2>2. RunsOf(a)' = RunsOf(a)
    BY <1>5, RunsOfNext
  <2>3. tally[a].points + 0 = tally[a].points
    BY <1>2
  <2> QED
    BY <1>1, <1>3, <1>5, <2>1, <2>2, <2>3
<1> QED
  BY <1>4, <1>5

(* An empty map is the sum of nothing.                                     *)
LEMMA EmptyIsSum ==
    read = <<>> /\ tally = EmptyMap => TallyIsSum
<1> SUFFICES ASSUME read = <<>>, tally = EmptyMap PROVE TallyIsSum
  OBVIOUS
<1>1. \A a \in Athletes : tally[a].runCount = 0 /\ tally[a].points = 0
  BY DEF EmptyMap, NotInMap
<1>2. Cardinality({}) = 0
  BY FS_EmptySet
<1> QED
  BY <1>1, <1>2, NothingRead DEF TallyIsSum

LEMMA InitSumInv == Init => SumInv
<1> SUFFICES ASSUME Init PROVE SumInv
  OBVIOUS
<1>1. TypeOK
  BY InitIInv DEF IInv
<1>2. TallyIsSum
  BY EmptyIsSum DEF Init
<1> QED
  BY <1>1, <1>2 DEF Init, SumInv, RowsAreOfMap

LEMMA NextSumInv == SumInv /\ [Next]_vars => SumInv'
<1> SUFFICES ASSUME SumInv, [Next]_vars PROVE SumInv'
  OBVIOUS
<1> USE DEF SumInv
<1>1. TypeOK'
  BY NextType
<1>2. ASSUME NEW item \in Items, ReadItem(item) PROVE SumInv'
  <2>1. TallyIsSum'
    BY <1>2, ReadItemSum
  <2> QED
    BY <1>1, <1>2, <2>1 DEF ReadItem, RowsAreOfMap
<1>3. ASSUME read' = read, tally' = tally PROVE TallyIsSum'
  <2>1. \A a : RunsOf(a)' = RunsOf(a)
    BY <1>3 DEF RunsOf, Counts
  <2>2. \A a, n : Gives(a, n)' = Gives(a, n)
    BY <1>3, <2>1 DEF Gives, PointsOf
  <2>3. \A a, sum : Totals(a, sum)' <=> Totals(a, sum)
    BY <1>3, <2>2 DEF Totals
  <2> QED
    BY <1>3, <2>1, <2>3 DEF TallyIsSum
<1>4. ASSUME read' = <<>>, tally' = EmptyMap PROVE TallyIsSum'
  <2>1. (read = <<>> /\ tally = EmptyMap)' => TallyIsSum'
    BY EmptyIsSum, PTL
  <2> QED
    BY <1>4, <2>1 DEF EmptyMap, NotInMap
<1>5. CASE OpenLeague
  <2>1. RowsAreOfMap'
    BY <1>5 DEF OpenLeague, RowsAreOfMap, NoRows
  <2> QED
    BY <1>1, <1>3, <1>5, <2>1 DEF OpenLeague
<1>6. ASSUME NEW c \in Athletes, InsertItem(c) PROVE SumInv'
  <2>1. RowsAreOfMap'
    BY <1>6 DEF InsertItem, RowsAreOfMap, TypeOK
  <2> QED
    BY <1>1, <1>3, <1>6, <2>1 DEF InsertItem
<1>7. CASE Commit
  BY <1>1, <1>4, <1>7 DEF Commit, RowsAreOfMap
<1>8. CASE Fail
  BY <1>1, <1>4, <1>8 DEF Fail, RowsAreOfMap
<1>9. CASE UNCHANGED vars
  BY <1>1, <1>3, <1>9 DEF vars, RowsAreOfMap
<1> QED
  BY <1>2, <1>5, <1>6, <1>7, <1>8, <1>9 DEF Next

-----------------------------------------------------------------------------
(* How large the sums get.                                                 *)
NoMoreThanMax(t) == \A a \in Athletes : t[a].points <= MaxPoints * t[a].runCount

SizeInv ==
    /\ SumInv
    /\ NoMoreThanMax(tally)
    /\ NoMoreThanMax(rows)
    /\ NoMoreThanMax(league)

LEMMA PointsOfBound ==
    ASSUME NEW item \in Items PROVE PointsOf(item) \in 0 .. MaxPoints
<1>1. item.place \in Nat /\ MaxPoints \in Nat
  BY ItemsAssumption, PointsAssumption DEF ItemType
<1> QED
  BY <1>1 DEF PointsOf, CalculatePoints, NoPlace

LEMMA AddedBound ==
    ASSUME NEW item \in Items,
           NEW entry \in [gender : Genders, points : Nat, runCount : Nat],
           entry.points <= MaxPoints * entry.runCount
    PROVE  Added(entry, item).points <= MaxPoints * Added(entry, item).runCount
<1>1. PointsOf(item) \in Nat /\ PointsOf(item) <= MaxPoints /\ MaxPoints \in Nat
  BY PointsOfBound, PointsAssumption
<1>2. CASE entry.runCount = 0
  BY <1>1, <1>2 DEF Added
<1>3. CASE entry.runCount # 0
  <2>1. /\ Added(entry, item).points = entry.points + PointsOf(item)
        /\ Added(entry, item).runCount = entry.runCount + 1
    BY <1>3 DEF Added
  <2>2. ASSUME NEW n \in Nat, NEW max \in Nat PROVE max * (n + 1) = max * n + max
    OBVIOUS
  <2>3. MaxPoints * entry.runCount \in Nat
    BY <1>1
  <2> QED
    BY <1>1, <2>1, <2>2, <2>3
<1> QED
  BY <1>2, <1>3

LEMMA NoneIsNoMore ==
    /\ NoMoreThanMax(NoRows)
    /\ NoMoreThanMax(EmptyMap)
<1>1. MaxPoints * 0 = 0
  BY PointsAssumption
<1>2. \A a \in Athletes : /\ NoRows[a].points = 0 /\ NoRows[a].runCount = 0
                          /\ EmptyMap[a].points = 0 /\ EmptyMap[a].runCount = 0
  BY DEF NoRows, NoRow, EmptyMap, NotInMap
<1>3. 0 <= MaxPoints * 0
  BY <1>1
<1>4. \A t : (\A a \in Athletes : t[a].points = 0 /\ t[a].runCount = 0) => NoMoreThanMax(t)
  BY <1>3 DEF NoMoreThanMax
<1> QED
  BY <1>2, <1>4

LEMMA NextSizeInv == SizeInv /\ [Next]_vars => SizeInv'
<1> SUFFICES ASSUME SizeInv, [Next]_vars PROVE SizeInv'
  OBVIOUS
<1> USE DEF SizeInv
<1>1. SumInv'
  BY NextSumInv
<1>2. \A t : NoMoreThanMax(t) <=> \A a \in Athletes : t[a].points <= MaxPoints * t[a].runCount
  BY DEF NoMoreThanMax
<1>3. ASSUME NEW item \in Items, ReadItem(item) PROVE NoMoreThanMax(tally')
  <2> SUFFICES ASSUME NEW a \in Athletes
               PROVE  tally'[a].points <= MaxPoints * tally'[a].runCount
    BY <1>2
  <2>1. CASE Counts(item) /\ item.athlete = a
    <3>1. tally'[a] = Added(tally[a], item)
      BY <1>3, <2>1 DEF ReadItem, SumInv, TypeOK
    <3>2. /\ tally[a] \in [gender : Genders, points : Nat, runCount : Nat]
          /\ tally[a].points <= MaxPoints * tally[a].runCount
      BY <1>2 DEF SumInv, TypeOK
    <3> QED
      BY <3>1, <3>2, AddedBound
  <2>2. CASE ~(Counts(item) /\ item.athlete = a)
    <3>1. tally'[a] = tally[a]
      BY <1>3, <2>2 DEF ReadItem, SumInv, TypeOK
    <3> QED
      BY <1>2, <3>1
  <2> QED
    BY <2>1, <2>2
<1>4. ASSUME NEW c \in Athletes, InsertItem(c) PROVE NoMoreThanMax(rows')
  <2> SUFFICES ASSUME NEW a \in Athletes
               PROVE  rows'[a].points <= MaxPoints * rows'[a].runCount
    BY <1>2
  <2>1. \/ rows'[a] = rows[a]
        \/ rows'[a].points = tally[a].points /\ rows'[a].runCount = tally[a].runCount
    BY <1>4 DEF InsertItem, SumInv, TypeOK
  <2> QED
    BY <1>2, <2>1
<1>5. /\ NoMoreThanMax(tally)' <=> NoMoreThanMax(tally')
      /\ NoMoreThanMax(rows)' <=> NoMoreThanMax(rows')
      /\ NoMoreThanMax(league)' <=> NoMoreThanMax(league')
  BY DEF NoMoreThanMax
<1>6. \/ UNCHANGED tally
      \/ tally' = EmptyMap
      \/ \E item \in Items : ReadItem(item)
  BY DEF Next, OpenLeague, InsertItem, Commit, Fail, vars
<1>7. \/ UNCHANGED rows
      \/ rows' = NoRows
      \/ rows' = league
      \/ \E c \in Athletes : InsertItem(c)
  BY DEF Next, ReadItem, OpenLeague, Commit, Fail, vars
<1>8. UNCHANGED league \/ league' = rows
  BY DEF Next, ReadItem, OpenLeague, InsertItem, Commit, Fail, vars
<1>9. NoMoreThanMax(tally)'
  BY <1>3, <1>5, <1>6, NoneIsNoMore
<1>10. NoMoreThanMax(rows)'
  BY <1>4, <1>5, <1>7, NoneIsNoMore
<1>11. NoMoreThanMax(league)'
  BY <1>5, <1>8
<1> QED
  BY <1>1, <1>9, <1>10, <1>11

-----------------------------------------------------------------------------
(* Every variable of the league table stays in its type: points and counts *)
(* in particular never run below zero.                                     *)
THEOREM TableTypeCorrect == Spec => []TypeOK
<1>1. Init => IInv
  BY InitIInv
<1>2. IInv /\ [Next]_vars => IInv'
  BY NextIInv
<1>3. IInv => TypeOK
  BY DEF IInv
<1> QED
  BY <1>1, <1>2, <1>3, PTL DEF Spec

(* The positions of a committed league are those its totals call for, and  *)
(* so dense and without ties, however many athletes and items there are    *)
(* and whichever transactions failed before.                               *)
THEOREM CommittedLeagueIsRanked == Spec => []LeagueIsRanked
<1>1. Init => IInv
  BY InitIInv
<1>2. IInv /\ [Next]_vars => IInv'
  BY NextIInv
<1>3. IInv => LeagueIsRanked
  BY DEF IInv
<1> QED
  BY <1>1, <1>2, <1>3, PTL DEF Spec

(* And so are the gender positions.                                        *)
THEOREM CommittedGendersAreRanked == Spec => []GendersAreRanked
<1>1. Init => IInv
  BY InitIInv
<1>2. IInv /\ [Next]_vars => IInv'
  BY NextIInv
<1>3. IInv => GendersAreRanked
  BY DEF IInv
<1> QED
  BY <1>1, <1>2, <1>3, PTL DEF Spec

(* A league is committed with the sums of the items that were read for it: *)
(* every run that counts is counted once, with its points, and nothing is  *)
(* carried over from a league of another year or from one that failed.     *)
THEOREM CommittedLeagueIsSum == Spec => LeagueIsSumOfItems
<1>1. Init => SumInv
  BY InitSumInv
<1>2. SumInv /\ [Next]_vars => SumInv'
  BY NextSumInv
<1>3. SumInv /\ [Next]_vars =>
          [league' # league =>
              \A a \in Athletes : /\ league'[a].runCount = Cardinality(RunsOf(a))
                                  /\ league'[a].points = PointsOfRuns(a)]_vars
  <2> SUFFICES ASSUME SumInv, [Next]_vars, league' # league, NEW a \in Athletes
               PROVE  /\ league'[a].runCount = Cardinality(RunsOf(a))
                      /\ league'[a].points = PointsOfRuns(a)
    OBVIOUS
  <2>1. Commit
    BY DEF Next, ReadItem, OpenLeague, InsertItem, Fail, vars
  <2>2. /\ league' = rows /\ phase = "rank"
        /\ \A b \in InMap : rows[b] # NoRow
    <3>1. \A b \in InMap : rows[b].position # 0
      BY <2>1 DEF Commit, Unranked
    <3>2. NoRow.position = 0
      BY DEF NoRow
    <3> QED
      BY <2>1, <3>1, <3>2 DEF Commit
  <2>3. /\ rows[a].points = tally[a].points
        /\ rows[a].runCount = tally[a].runCount
    <3>1. CASE rows[a] = NoRow
      <4>1. tally[a].runCount = 0
        BY <2>2, <3>1 DEF InMap, SumInv, TypeOK
      <4>2. NoRow.points = 0 /\ NoRow.runCount = 0
        BY DEF NoRow
      <4> QED
        BY <3>1, <4>1, <4>2 DEF SumInv, TallyIsSum
    <3>2. CASE rows[a] # NoRow
      BY <2>2, <3>2 DEF SumInv, RowsAreOfMap
    <3> QED
      BY <3>1, <3>2
  <2>4. PointsOfRuns(a) = tally[a].points
    BY PointsOfRunsIsTotal DEF SumInv, TallyIsSum
  <2> QED
    BY <2>2, <2>3, <2>4 DEF SumInv, TallyIsSum
<1> QED
  BY <1>1, <1>2, <1>3, PTL DEF Spec, LeagueIsSumOfItems

(* A committed athlete has no more than MaxPoints points for each run that *)
(* is counted, which keeps the sums far from the table's 32 bits.          *)
THEOREM PointsAreBounded == Spec => []NoMoreThanMax(league)
<1>1. Init => SizeInv
  BY InitSumInv, NoneIsNoMore DEF Init, SizeInv
<1>2. SizeInv => NoMoreThanMax(league)
  BY DEF SizeInv
<1> QED
  BY <1>1, <1>2, NextSizeInv, PTL DEF Spec
=============================================================================
