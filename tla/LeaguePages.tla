---------------------------- MODULE LeaguePages -----------------------------
(***************************************************************************)
(* The two pages that show the harvest's tables.  EventLeagueHandler and   *)
(* AthleteHandler read them statement by statement, each statement in a    *)
(* session of its own and in no transaction, while the harvests commit.    *)
(* The harvest is AthleteReconcile's for what it stores, ResultArchive's   *)
(* for the leagues: a league is replaced as a whole, by stored results.    *)
(***************************************************************************)
EXTENDS AthleteReconcile

CONSTANTS
    YearOf,         \* each result's league year
    Placeless,      \* runs without a gender position, each with its athlete
    Unstarted,      \* leagues whose year has no day like the event's birthday
    MaxPublished    \* bound: leagues published

Years == {YearOf[r] : r \in Results}
AnyYear == 0    \* no year, or not a number, in the request

ASSUME YearsAssumption == YearOf \in [Results -> Nat \ {AnyYear}]
ASSUME PlaceAssumption == Placeless \subseteq Results \X Athletes
ASSUME StartAssumption == Unstarted \subseteq Events \X Years
ASSUME SiteAssumption  == Events # {} /\ Athletes # {} /\ MaxPublished \in Nat

VARIABLES
    league,       \* EVENT_LEAGUE: the results its items count, by event, year
    published,    \* of MaxPublished
    page,         \* the league page a visitor is at
    card          \* or the athlete page

siteVars == <<rowVars, league, published, page, card>>

LeaguesOf(e) == {y \in Years : league[<<e, y>>] # {}}

NoPage == [at |-> "closed", event |-> CHOOSE e \in Events : TRUE,
           year |-> AnyYear, counted |-> {}, names |-> NoRows]
NoCard == [at |-> "closed", event |-> CHOOSE e \in Events : TRUE,
           athlete |-> CHOOSE a \in Athletes : TRUE, year |-> AnyYear,
           years |-> {}, runs |-> {}, listed |-> {}]

SiteInit ==
    /\ Init
    /\ league = [l \in Events \X Years |-> {}]
    /\ published = 0
    /\ page = NoPage
    /\ card = NoCard

-----------------------------------------------------------------------------
(* The harvests.                                                           *)

Harvest ==
    /\ Next
    /\ UNCHANGED <<league, published, page, card>>

Publish(e, y, counted) ==
    /\ writing[e] = Idle
    /\ published < MaxPublished
    /\ \A r \in counted : EventOf(r) = e
    /\ \E r \in counted : YearOf[r] = y
    /\ league' = [league EXCEPT ![<<e, y>>] = counted]
    /\ published' = published + 1
    /\ UNCHANGED <<rowVars, page, card>>

(* Mutant: a league of what the history lists, stored or not.              *)
PublishLeagueListed == \E e \in Events, y \in Years :
    \E counted \in SUBSET Results : Publish(e, y, counted)

PublishLeague == \E e \in Events, y \in Years :
    \E counted \in SUBSET stored : Publish(e, y, counted)

-----------------------------------------------------------------------------
(* EventLeagueHandler::handleRequestLeaguePage.                            *)

Open(e, y) ==
    /\ page.at \in {"closed", "shown", "cut", "started", "problem"}
    /\ card.at \in {"closed", "shown", "cut", "problem"}
    /\ page' = [NoPage EXCEPT !.at = "leagues", !.event = e, !.year = y]
    /\ card' = NoCard
    /\ UNCHANGED <<rowVars, league, published>>

(* The years come in descending order.                                     *)
IsLatest(y, years) == y \in years /\ \A z \in years : z <= y

Found == {y \in LeaguesOf(page.event) :
             \/ page.year = y
             \/ page.year = AnyYear /\ IsLatest(y, LeaguesOf(page.event))}

FetchLeagues ==
    /\ page.at = "leagues"
    /\ \E y \in Found : page' = [page EXCEPT !.at = "items", !.year = y]
    /\ UNCHANGED <<rowVars, league, published, card>>

(* Without a year there is no page; with one, it depends on the birthday.  *)
FetchNoLeague ==
    /\ page.at = "leagues" /\ Found = {}
    /\ \E answer \in {"started", "problem"} :
           /\ page.year = AnyYear => answer = "problem"
           /\ page' = [page EXCEPT !.at = answer]
    /\ UNCHANGED <<rowVars, league, published, card>>

FetchItems ==
    /\ page.at = "items"
    /\ page' = [page EXCEPT !.at = "athletes", !.counted = league[<<page.event, page.year>>]]
    /\ UNCHANGED <<rowVars, league, published, card>>

(* The page says when the league started: 29 February is not in each year. *)
NoFirstDay ==
    /\ page.at = "athletes" /\ <<page.event, page.year>> \in Unstarted
    /\ page' = [page EXCEPT !.at = "cut"]
    /\ UNCHANGED <<rowVars, league, published, card>>

FetchAthletes ==
    /\ page.at = "athletes" /\ <<page.event, page.year>> \notin Unstarted
    /\ page' = [page EXCEPT !.at = "shown", !.names = athlete]
    /\ UNCHANGED <<rowVars, league, published, card>>

PageStep == FetchLeagues \/ FetchNoLeague \/ FetchItems \/ NoFirstDay \/ FetchAthletes

Rows == UNION {Runners(r) : r \in page.counted}

-----------------------------------------------------------------------------
(* AthleteHandler::handleRequest, for the link of a row.                   *)

OpenCard(a) ==
    /\ page.at = "shown" /\ a \in Rows
    /\ card' = [NoCard EXCEPT !.at = "athlete", !.event = page.event,
                              !.athlete = a, !.year = page.year]
    /\ page' = NoPage
    /\ UNCHANGED <<rowVars, league, published>>

ReadAthlete ==
    /\ card.at = "athlete"
    /\ card' = [card EXCEPT !.at = IF athlete[card.athlete] = NoRow THEN "problem" ELSE "leagues"]
    /\ UNCHANGED <<rowVars, league, published, page>>

ReadLeagues ==
    /\ card.at = "leagues"
    /\ card' = [card EXCEPT !.at = "item", !.years = LeaguesOf(card.event)]
    /\ UNCHANGED <<rowVars, league, published, page>>

RunsIn(y) == {r \in league[<<card.event, y>>] : card.athlete \in Runners(r)}

(* The latest year whose panel is not yet written.                         *)
ReadItem == \E y \in Years :
    /\ card.at = "item" /\ IsLatest(y, card.years)
    /\ card' = IF RunsIn(y) = {}
               THEN [card EXCEPT !.years = @ \ {y}]
               ELSE [card EXCEPT !.at = "results",
                                 !.runs = @ \cup {<<y, r>> : r \in RunsIn(y)}]
    /\ UNCHANGED <<rowVars, league, published, page>>

ResultsOf(y) == {r \in stored : /\ EventOf(r) = card.event /\ YearOf[r] = y
                                /\ card.athlete \in Runners(r)}

(* A null gender position is shown like a number, after the send.          *)
IsCut(y) == \E r \in ResultsOf(y) : <<r, card.athlete>> \in Placeless

(* What comes before the cut is not kept: the page is not shown.           *)
CutCard == \E y \in Years :
    /\ card.at = "results" /\ IsLatest(y, card.years) /\ IsCut(y)
    /\ card' = [card EXCEPT !.at = "cut"]
    /\ UNCHANGED <<rowVars, league, published, page>>

(* Mutant: the results of the year asked for, in every panel.              *)
ReadResultsAsked == \E y \in Years :
    /\ card.at = "results" /\ IsLatest(y, card.years) /\ ~IsCut(y)
    /\ card' = [card EXCEPT !.at = "item", !.years = @ \ {y},
                            !.listed = @ \cup ResultsOf(card.year)]
    /\ UNCHANGED <<rowVars, league, published, page>>

ReadResults == \E y \in Years :
    /\ card.at = "results" /\ IsLatest(y, card.years) /\ ~IsCut(y)
    /\ card' = [card EXCEPT !.at = "item", !.years = @ \ {y},
                            !.listed = @ \cup ResultsOf(y)]
    /\ UNCHANGED <<rowVars, league, published, page>>

EndCard ==
    /\ card.at = "item" /\ card.years = {}
    /\ card' = [card EXCEPT !.at = "shown"]
    /\ UNCHANGED <<rowVars, league, published, page>>

CardStep == ReadAthlete \/ ReadLeagues \/ ReadItem \/ CutCard \/ ReadResults \/ EndCard

SiteNext ==
    \/ Harvest
    \/ PublishLeague
    \/ \E e \in Events, y \in Years \cup {AnyYear} : Open(e, y)
    \/ \E a \in Athletes : OpenCard(a)
    \/ PageStep
    \/ CardStep

SiteSpec == SiteInit /\ [][SiteNext]_siteVars

-----------------------------------------------------------------------------
(* Properties.                                                             *)

(* The variables stay in their types; a league counts stored results of    *)
(* its event, and so does what a request has read of it.                   *)
PagesTypeOK ==
    /\ TypeOK
    /\ league \in [Events \X Years -> SUBSET stored]
    /\ \A l \in Events \X Years : \A r \in league[l] : EventOf(r) = l[1]
    /\ published \in 0 .. MaxPublished
    /\ page \in [at : {"closed", "leagues", "items", "athletes", "shown", "cut", "started", "problem"},
                 event : Events, year : Years \cup {AnyYear}, counted : SUBSET stored,
                 names : [Athletes -> Names \cup {NoRow}]]
    /\ page.at = "items" => page.year \in Years
    /\ card \in [at : {"closed", "athlete", "leagues", "item", "results", "shown", "cut", "problem"},
                 event : Events, athlete : Athletes, year : Years \cup {AnyYear},
                 years : SUBSET Years, runs : SUBSET (Years \X stored), listed : SUBSET stored]

(* Every row of a league page has its athlete's name, though the athletes  *)
(* are read after the items and the harvests commit in between.            *)
EveryRowHasName ==
    page.at = "shown" => \A a \in Rows : page.names[a] # NoRow

(* The runs that an athlete page counts in a year are among the results it *)
(* lists, though the results are read after the count.  A run of the year  *)
(* after that the league counts is not meant.                              *)
RunsAreListed ==
    card.at = "shown" =>
        \A run \in card.runs : YearOf[run[2]] = run[1] => run[2] \in card.listed

=============================================================================
