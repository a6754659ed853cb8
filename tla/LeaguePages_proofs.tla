------------------------- MODULE LeaguePages_proofs -------------------------
(***************************************************************************)
(* What a visitor sees, for any number of harvests, results and years: a   *)
(* page is read in several statements, but what the harvests store stays.  *)
(***************************************************************************)
EXTENDS LeaguePages, AthleteReconcile_proofs

(* A run that is counted in its own year is listed, or about to be, unless *)
(* the page was cut.                                                       *)
RunsInHand == card.at # "cut" =>
    \A run \in card.runs : YearOf[run[2]] = run[1] =>
        \/ run[2] \in card.listed
        \/ /\ card.at = "results" /\ IsLatest(run[1], card.years)
           /\ EventOf(run[2]) = card.event /\ card.athlete \in Runners(run[2])

SiteInv == RowInv /\ PagesTypeOK /\ EveryRowHasName /\ RunsInHand

(* Results are never taken out of EVENT_RESULT, nor athletes of ATHLETE.   *)
LEMMA StoredGrows == RowInv /\ [Next]_rowVars => stored \subseteq stored'
<1> SUFFICES ASSUME RowInv, [Next]_rowVars PROVE stored \subseteq stored'
  OBVIOUS
<1>1. ASSUME NEW e \in Events, Step(e) \/ Fail(e) PROVE stored \subseteq stored'
  BY <1>1 DEF Step, Begin, Wait, Insert, Update, Writes, Unchanged, DuplicateKey,
              Deadlock, Fail, Rollback, Commit
<1>2. CASE UNCHANGED rowVars
  BY <1>2 DEF rowVars
<1> QED
  BY <1>1, <1>2 DEF Next

LEMMA SiteStepIsRowStep == [SiteNext]_siteVars => [Next]_rowVars
<1> SUFFICES ASSUME SiteNext PROVE [Next]_rowVars
  BY DEF siteVars
<1>1. CASE Harvest
  BY <1>1 DEF Harvest
<1>2. CASE PublishLeague
  BY <1>2 DEF PublishLeague, Publish
<1>3. CASE \E e \in Events, y \in Years \cup {AnyYear} : Open(e, y)
  BY <1>3 DEF Open
<1>4. CASE \E a \in Athletes : OpenCard(a)
  BY <1>4 DEF OpenCard
<1>5. CASE PageStep
  BY <1>5 DEF PageStep, FetchLeagues, FetchNoLeague, FetchItems, NoFirstDay, FetchAthletes
<1>6. CASE CardStep
  BY <1>6 DEF CardStep, ReadAthlete, ReadLeagues, ReadItem, CutCard, ReadResults, EndCard
<1> QED
  BY <1>1, <1>2, <1>3, <1>4, <1>5, <1>6 DEF SiteNext

(* The harvests are not disturbed by the pages.                            *)
THEOREM SiteImplementsReconcile == SiteSpec => Spec
<1>1. SiteInit => Init
  BY DEF SiteInit
<1> QED
  BY <1>1, SiteStepIsRowStep, PTL DEF SiteSpec, Spec

-----------------------------------------------------------------------------

LEMMA NoPageTypes ==
    /\ NoPage \in [at : {"closed"}, event : Events, year : {AnyYear},
                   counted : {{}}, names : [Athletes -> {NoRow}]]
    /\ NoCard \in [at : {"closed"}, event : Events, athlete : Athletes, year : {AnyYear},
                   years : {{}}, runs : {{}}, listed : {{}}]
<1>1. (CHOOSE e \in Events : TRUE) \in Events /\ (CHOOSE a \in Athletes : TRUE) \in Athletes
  BY SiteAssumption
<1> QED
  BY <1>1 DEF NoPage, NoCard, NoRows

LEMMA SiteInitInv == SiteInit => SiteInv
<1> SUFFICES ASSUME SiteInit PROVE SiteInv
  OBVIOUS
<1>1. RowInv /\ TypeOK
  BY RowInit DEF SiteInit, RowInv
<1>2. PagesTypeOK
  BY <1>1, NoPageTypes, SiteAssumption DEF SiteInit, PagesTypeOK, Init
<1>3. EveryRowHasName /\ RunsInHand
  BY NoPageTypes DEF SiteInit, EveryRowHasName, RunsInHand
<1> QED
  BY <1>1, <1>2, <1>3 DEF SiteInv

LEMMA HarvestKeeps ==
    ASSUME SiteInv, RowInv', stored \subseteq stored',
           UNCHANGED <<league, published, page, card>>
    PROVE  SiteInv'
<1>1. TypeOK'
  BY DEF RowInv
<1>2. PagesTypeOK'
  <2>1. league' \in [Events \X Years -> SUBSET stored']
    BY DEF SiteInv, PagesTypeOK
  <2>2. page' \in [at : {"closed", "leagues", "items", "athletes", "shown", "cut", "started", "problem"},
                   event : Events, year : Years \cup {AnyYear}, counted : SUBSET stored',
                   names : [Athletes -> Names \cup {NoRow}]]
    BY DEF SiteInv, PagesTypeOK
  <2>3. card' \in [at : {"closed", "athlete", "leagues", "item", "results", "shown", "cut", "problem"},
                   event : Events, athlete : Athletes, year : Years \cup {AnyYear},
                   years : SUBSET Years, runs : SUBSET (Years \X stored'), listed : SUBSET stored']
    BY DEF SiteInv, PagesTypeOK
  <2> QED
    BY <1>1, <2>1, <2>2, <2>3 DEF SiteInv, PagesTypeOK
<1>3. EveryRowHasName' /\ RunsInHand'
  BY DEF SiteInv, EveryRowHasName, RunsInHand, Rows
<1> QED
  BY <1>2, <1>3 DEF SiteInv

LEMMA PublishKeeps ==
    ASSUME SiteInv, RowInv', PublishLeague
    PROVE  SiteInv'
<1> USE DEF SiteInv
<1>1. PICK e \in Events, y \in Years, counted \in SUBSET stored : Publish(e, y, counted)
  BY DEF PublishLeague
<1>2. /\ league' = [league EXCEPT ![<<e, y>>] = counted]
      /\ published' = published + 1 /\ published < MaxPublished
      /\ UNCHANGED <<rowVars, page, card>>
      /\ \A r \in counted : EventOf(r) = e
  BY <1>1 DEF Publish
<1>3. league' \in [Events \X Years -> SUBSET stored]
  BY <1>2 DEF PagesTypeOK
<1>4. \A l \in Events \X Years : \A r \in league'[l] : EventOf(r) = l[1]
  BY <1>2 DEF PagesTypeOK
<1>5. published' \in 0 .. MaxPublished
  BY <1>2, SiteAssumption DEF PagesTypeOK
<1>6. PagesTypeOK'
  BY <1>2, <1>3, <1>4, <1>5 DEF PagesTypeOK, RowInv, rowVars
<1>7. EveryRowHasName' /\ RunsInHand'
  BY <1>2 DEF EveryRowHasName, RunsInHand, Rows
<1> QED
  BY <1>6, <1>7

(* A step of a page: what is left to show of it.                           *)
LEMMA PageKeeps ==
    ASSUME SiteInv, RowInv', UNCHANGED <<rowVars, league, published, card>>,
           page' \in [at : {"closed", "leagues", "items", "athletes", "shown", "cut", "started", "problem"},
                      event : Events, year : Years \cup {AnyYear}, counted : SUBSET stored,
                      names : [Athletes -> Names \cup {NoRow}]],
           page'.at = "items" => page'.year \in Years,
           EveryRowHasName'
    PROVE  SiteInv'
<1>1. PagesTypeOK'
  BY DEF SiteInv, PagesTypeOK, RowInv, rowVars
<1>2. RunsInHand'
  BY DEF SiteInv, RunsInHand
<1> QED
  BY <1>1, <1>2 DEF SiteInv

LEMMA PageStepKeeps ==
    ASSUME SiteInv, RowInv', PageStep
    PROVE  SiteInv'
<1> DEFINE Types == [at : {"closed", "leagues", "items", "athletes", "shown", "cut", "started", "problem"},
                     event : Events, year : Years \cup {AnyYear}, counted : SUBSET stored,
                     names : [Athletes -> Names \cup {NoRow}]]
<1>1. page \in Types
  BY DEF SiteInv, PagesTypeOK
<1>2. CASE FetchLeagues
  <2>1. PICK y \in Found : page' = [page EXCEPT !.at = "items", !.year = y]
    BY <1>2 DEF FetchLeagues
  <2>2. y \in Years
    BY DEF Found, LeaguesOf
  <2>3. page' \in Types /\ page'.at = "items" /\ page'.year \in Years
    BY <1>1, <2>1, <2>2
  <2> QED
    BY <1>2, <2>3, PageKeeps DEF FetchLeagues, EveryRowHasName
<1>3. CASE FetchNoLeague
  <2>1. page' \in Types /\ page'.at \in {"started", "problem"}
    BY <1>1, <1>3 DEF FetchNoLeague
  <2> QED
    BY <1>3, <2>1, PageKeeps DEF FetchNoLeague, EveryRowHasName
<1>4. CASE FetchItems
  <2>1. league[<<page.event, page.year>>] \subseteq stored
    BY <1>1, <1>4 DEF FetchItems, SiteInv, PagesTypeOK
  <2>2. page' \in Types /\ page'.at = "athletes"
    BY <1>1, <1>4, <2>1 DEF FetchItems
  <2> QED
    BY <1>4, <2>2, PageKeeps DEF FetchItems, EveryRowHasName
<1>5. CASE FetchAthletes
  <2>1. page' \in Types /\ page'.at = "shown" /\ page'.names = athlete /\ page'.counted = page.counted
    BY <1>1, <1>5 DEF FetchAthletes, SiteInv, PagesTypeOK, TypeOK
  <2>2. EveryRowHasName'
    <3>1. \A r \in page.counted : r \in stored
      BY <1>1
    <3>2. \A r \in page.counted : \A a \in Runners(r) : athlete[a] # NoRow
      BY <3>1 DEF SiteInv, RowInv, RunnersAreAthletes
    <3> QED
      BY <2>1, <3>2 DEF EveryRowHasName, Rows
  <2> QED
    BY <1>5, <2>1, <2>2, PageKeeps DEF FetchAthletes
<1>6. CASE NoFirstDay
  <2>1. page' \in Types /\ page'.at = "cut"
    BY <1>1, <1>6 DEF NoFirstDay
  <2> QED
    BY <1>6, <2>1, PageKeeps DEF NoFirstDay, EveryRowHasName
<1> QED
  BY <1>2, <1>3, <1>4, <1>5, <1>6 DEF PageStep

(* A step of an athlete's page, or to it.                                  *)
LEMMA CardKeeps ==
    ASSUME SiteInv, RowInv', UNCHANGED <<rowVars, league, published>>,
           page' = page \/ page' = NoPage,
           card' \in [at : {"closed", "athlete", "leagues", "item", "results", "shown", "cut", "problem"},
                      event : Events, athlete : Athletes, year : Years \cup {AnyYear},
                      years : SUBSET Years, runs : SUBSET (Years \X stored), listed : SUBSET stored],
           RunsInHand'
    PROVE  SiteInv'
<1>1. PagesTypeOK'
  BY NoPageTypes DEF SiteInv, PagesTypeOK, RowInv, rowVars
<1>2. EveryRowHasName'
  BY NoPageTypes DEF SiteInv, EveryRowHasName, Rows
<1> QED
  BY <1>1, <1>2 DEF SiteInv

LEMMA OpenKeeps ==
    ASSUME SiteInv, RowInv', NEW e \in Events, NEW y \in Years \cup {AnyYear}, Open(e, y)
    PROVE  SiteInv'
<1>1. /\ page' \in [at : {"leagues"}, event : Events, year : Years \cup {AnyYear},
                    counted : {{}}, names : [Athletes -> {NoRow}]]
      /\ page'.at = "leagues"
  BY NoPageTypes DEF Open
<1>2. card' = NoCard
  BY DEF Open
<1>3. PagesTypeOK'
  BY <1>1, <1>2, NoPageTypes DEF SiteInv, PagesTypeOK, RowInv, Open, rowVars
<1>4. EveryRowHasName' /\ RunsInHand'
  BY <1>1, <1>2, NoPageTypes DEF EveryRowHasName, RunsInHand
<1> QED
  BY <1>3, <1>4 DEF SiteInv

LEMMA OpenCardKeeps ==
    ASSUME SiteInv, RowInv', NEW a \in Athletes, OpenCard(a)
    PROVE  SiteInv'
<1>1. page.event \in Events /\ page.year \in Years \cup {AnyYear}
  BY DEF SiteInv, PagesTypeOK
<1>2. /\ card' \in [at : {"athlete"}, event : Events, athlete : Athletes,
                    year : Years \cup {AnyYear}, years : {{}}, runs : {{}}, listed : {{}}]
      /\ card'.runs = {}
  BY <1>1, NoPageTypes DEF OpenCard
<1>3. RunsInHand'
  BY <1>2 DEF RunsInHand
<1> QED
  BY <1>2, <1>3, CardKeeps DEF OpenCard

LEMMA CardStepKeeps ==
    ASSUME SiteInv, RowInv', CardStep
    PROVE  SiteInv'
<1> DEFINE Types == [at : {"closed", "athlete", "leagues", "item", "results", "shown", "cut", "problem"},
                     event : Events, athlete : Athletes, year : Years \cup {AnyYear},
                     years : SUBSET Years, runs : SUBSET (Years \X stored), listed : SUBSET stored]
<1>1. card \in Types
  BY DEF SiteInv, PagesTypeOK
<1>2. RunsInHand
  BY DEF SiteInv
<1>3. CASE ReadAthlete
  <2>1. card' \in Types /\ card'.runs = card.runs /\ card'.listed = card.listed /\ card.at = "athlete"
    BY <1>1, <1>3 DEF ReadAthlete
  <2>2. RunsInHand'
    BY <1>2, <2>1 DEF RunsInHand
  <2> QED
    BY <1>3, <2>1, <2>2, CardKeeps DEF ReadAthlete
<1>4. CASE ReadLeagues
  <2>1. LeaguesOf(card.event) \subseteq Years
    BY DEF LeaguesOf
  <2>2. card' \in Types /\ card'.runs = card.runs /\ card'.listed = card.listed /\ card.at = "leagues"
    BY <1>1, <1>4, <2>1 DEF ReadLeagues
  <2>3. RunsInHand'
    BY <1>2, <2>2 DEF RunsInHand
  <2> QED
    BY <1>4, <2>2, <2>3, CardKeeps DEF ReadLeagues
<1>5. CASE ReadItem
  <2>1. PICK y \in Years :
          /\ card.at = "item" /\ IsLatest(y, card.years)
          /\ card' = IF RunsIn(y) = {}
                     THEN [card EXCEPT !.years = @ \ {y}]
                     ELSE [card EXCEPT !.at = "results",
                                       !.runs = @ \cup {<<y, r>> : r \in RunsIn(y)}]
          /\ UNCHANGED <<rowVars, league, published, page>>
    BY <1>5 DEF ReadItem
  <2>2. CASE RunsIn(y) = {}
    <3>1. card' \in Types /\ card'.runs = card.runs /\ card'.listed = card.listed
      BY <1>1, <2>1, <2>2
    <3>2. RunsInHand'
      BY <1>2, <2>1, <3>1 DEF RunsInHand
    <3> QED
      BY <2>1, <3>1, <3>2, CardKeeps
  <2>3. CASE RunsIn(y) # {}
    <3>1. <<card.event, y>> \in Events \X Years
      BY <1>1
    <3>2. \A r \in RunsIn(y) : r \in stored /\ EventOf(r) = card.event /\ card.athlete \in Runners(r)
      BY <3>1 DEF RunsIn, SiteInv, PagesTypeOK
    <3>3. {<<y, r>> : r \in RunsIn(y)} \subseteq Years \X stored
      BY <3>2
    <3>4. card' = [card EXCEPT !.at = "results", !.runs = @ \cup {<<y, r>> : r \in RunsIn(y)}]
      BY <2>1, <2>3
    <3>5. card' \in Types
      BY <1>1, <3>3, <3>4
    <3>6. /\ card'.runs = card.runs \cup {<<y, r>> : r \in RunsIn(y)}
          /\ card'.at = "results" /\ card'.years = card.years /\ card'.listed = card.listed
          /\ card'.event = card.event /\ card'.athlete = card.athlete
      BY <1>1, <3>4
    <3>7. RunsInHand'
      BY <1>2, <2>1, <3>2, <3>6 DEF RunsInHand, IsLatest
    <3> QED
      BY <2>1, <3>5, <3>7, CardKeeps
  <2> QED
    BY <2>2, <2>3
<1>6. CASE ReadResults
  <2>1. PICK y \in Years :
          /\ card.at = "results" /\ IsLatest(y, card.years)
          /\ card' = [card EXCEPT !.at = "item", !.years = @ \ {y},
                                  !.listed = @ \cup ResultsOf(y)]
          /\ UNCHANGED <<rowVars, league, published, page>>
    BY <1>6 DEF ReadResults
  <2>2. ResultsOf(y) \subseteq stored
    BY DEF ResultsOf
  <2>3. card' \in Types /\ card'.runs = card.runs /\ card'.listed = card.listed \cup ResultsOf(y)
    BY <1>1, <2>1, <2>2
  <2>4. \A run \in card.runs : IsLatest(run[1], card.years) => run[1] = y
    <3>1. card.years \subseteq Nat
      BY <1>1, YearsAssumption DEF Years
    <3> QED
      BY <2>1, <3>1 DEF IsLatest
  <2>5. RunsInHand'
    <3> SUFFICES ASSUME NEW run \in card.runs, YearOf[run[2]] = run[1]
                 PROVE  run[2] \in card'.listed
      BY <2>3 DEF RunsInHand
    <3>1. CASE run[2] \in card.listed
      BY <2>3, <3>1
    <3>2. CASE run[2] \notin card.listed
      <4>1. run[1] = y /\ EventOf(run[2]) = card.event /\ card.athlete \in Runners(run[2])
        BY <1>2, <2>1, <2>4, <3>2 DEF RunsInHand
      <4>2. run[2] \in stored
        BY <1>1
      <4> QED
        BY <2>3, <4>1, <4>2 DEF ResultsOf
    <3> QED
      BY <3>1, <3>2
  <2> QED
    BY <2>1, <2>3, <2>5, CardKeeps
<1>7. CASE CutCard
  <2>1. /\ card' = [card EXCEPT !.at = "cut"] /\ card.at = "results"
        /\ UNCHANGED <<rowVars, league, published, page>>
    BY <1>7 DEF CutCard
  <2>2. card' \in Types /\ card'.at = "cut" /\ card'.runs = card.runs /\ card'.listed = card.listed
    BY <1>1, <2>1
  <2>3. RunsInHand'
    BY <1>2, <2>2 DEF RunsInHand
  <2> QED
    BY <2>1, <2>2, <2>3, CardKeeps
<1>8. CASE EndCard
  <2>1. card' \in Types /\ card'.runs = card.runs /\ card'.listed = card.listed /\ card.at = "item"
    BY <1>1, <1>8 DEF EndCard
  <2>2. RunsInHand'
    BY <1>2, <2>1 DEF RunsInHand
  <2> QED
    BY <1>8, <2>1, <2>2, CardKeeps DEF EndCard
<1> QED
  BY <1>3, <1>4, <1>5, <1>6, <1>7, <1>8 DEF CardStep

LEMMA SiteNextInv == SiteInv /\ [SiteNext]_siteVars => SiteInv'
<1> SUFFICES ASSUME SiteInv, [SiteNext]_siteVars PROVE SiteInv'
  OBVIOUS
<1>1. RowInv'
  BY SiteStepIsRowStep, RowNext DEF SiteInv
<1>2. stored \subseteq stored'
  BY SiteStepIsRowStep, StoredGrows DEF SiteInv
<1>3. CASE Harvest
  BY <1>1, <1>2, <1>3, HarvestKeeps DEF Harvest
<1>4. CASE PublishLeague
  BY <1>1, <1>4, PublishKeeps
<1>5. CASE \E e \in Events, y \in Years \cup {AnyYear} : Open(e, y)
  BY <1>1, <1>5, OpenKeeps
<1>6. CASE \E a \in Athletes : OpenCard(a)
  BY <1>1, <1>6, OpenCardKeeps
<1>7. CASE PageStep
  BY <1>1, <1>7, PageStepKeeps
<1>8. CASE CardStep
  BY <1>1, <1>8, CardStepKeeps
<1>9. CASE UNCHANGED siteVars
  BY <1>1, <1>2, <1>9, HarvestKeeps DEF siteVars
<1> QED
  BY <1>3, <1>4, <1>5, <1>6, <1>7, <1>8, <1>9 DEF SiteNext

LEMMA SiteInvariant == SiteSpec => []SiteInv
  BY SiteInitInv, SiteNextInv, PTL DEF SiteSpec

(* A league, a page and what is read of it hold stored results only.       *)
THEOREM PagesTypeCorrect == SiteSpec => []PagesTypeOK
<1>1. SiteInv => PagesTypeOK
  BY DEF SiteInv
<1> QED
  BY <1>1, SiteInvariant, PTL

(* No row of a league page is without a name, whatever is committed while  *)
(* it is read.                                                             *)
THEOREM RowsHaveNames == SiteSpec => []EveryRowHasName
<1>1. SiteInv => EveryRowHasName
  BY DEF SiteInv
<1> QED
  BY <1>1, SiteInvariant, PTL

(* An athlete page lists each run that it counts in the run's own year.    *)
THEOREM CountedRunsAreListed == SiteSpec => []RunsAreListed
<1>1. SiteInv => RunsAreListed
  BY DEF SiteInv, RunsInHand, RunsAreListed
<1> QED
  BY <1>1, SiteInvariant, PTL
=============================================================================
