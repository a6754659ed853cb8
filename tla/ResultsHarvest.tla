--------------------------- MODULE ResultsHarvest ---------------------------
(***************************************************************************)
(* ResultsController::process: how the daemon harvests the results of its  *)
(* events and builds their league tables.                                  *)
(*                                                                         *)
(* A worker is a thread that runs process: the harvester's timer, which    *)
(* walks over all events, and the request threads of /forceupdate, which   *)
(* each harvest one event.  They share the database, the directory of      *)
(* cached pages and the website.  One action is one database statement or  *)
(* transaction boundary, one page read or write, or one decision between   *)
(* two of them.                                                            *)
(***************************************************************************)
EXTENDS Integers, FiniteSets, Sequences

CONSTANTS
    Events,           \* the rows of table EVENT
    HarvestOrder,     \* the events as the timer walks over them (NAME DESC)
    ForcedEvent,      \* the event /forceupdate harvests
    Timer,            \* the timer's thread
    Forcers,          \* the request threads serving /forceupdate
    MaxResult,        \* the last result number the site will publish
    LeagueYear,       \* the league year of a page's date, from its event's birthday
    Unlisted,         \* pages whose row of the history lacks its number or date
    Unnumbered,       \* pages whose row of the history throws at its number
    Yearless,         \* pages of a year that lacks the day of the event's birthday
    Redated,          \* pages whose row has another date than was stored: it was
                      \* corrected, or is no date, which is stored as the present
    Malformed,        \* pages whose table has a row that makes the parser throw
    Tableless,        \* pages that have no table before they have rows; an
                      \* event's history is its page 0
    Nobody,
    MaxForced, MaxCrashes, MaxDbErrors, MaxFetchErrors, MaxCuts  \* bounds, for TLC

Workers == {Timer} \cup Forcers
Numbers == 1 .. MaxResult
Pages   == Events \X Numbers
Years   == {LeagueYear[p] : p \in Pages}

ASSUME WorkersAssumption == Timer \notin Forcers /\ Nobody \notin Workers
ASSUME EventsAssumption  == ForcedEvent \in Events /\ HarvestOrder \in Seq(Events)
ASSUME NumbersAssumption == MaxResult \in Nat /\ LeagueYear \in [Pages -> Nat \ {0}]
ASSUME PagesAssumption   == /\ Unlisted \subseteq Pages /\ Unnumbered \subseteq Pages
                            /\ Yearless \subseteq Pages /\ Redated \subseteq Pages
                            /\ Malformed \subseteq Pages
                            /\ Tableless \subseteq Events \X (Numbers \cup {0})
ASSUME BoundsAssumption  == /\ MaxForced \in Nat /\ MaxCrashes \in Nat
                            /\ MaxDbErrors \in Nat /\ MaxFetchErrors \in Nat
                            /\ MaxCuts \in Nat

VARIABLES
    listed,     \* the website: how many results an event's history lists
    populated,  \* the website: the pages whose table has its rows
    birthday,   \* EVENT.BIRTHDAY is not null
    rows,       \* EVENT_RESULT and its EVENT_RESULT_ITEMs, by page
    league,     \* EVENT_LEAGUE and its EVENT_LEAGUE_ITEMs, by event and year
    cache,      \* the cached page files: the prefix a reader would see
    saver,      \* the worker that truncated a page file last
    pc, task,   \* each worker's step, and the locals of its call of process
    spent       \* how much of each bound has been used

site == <<listed, populated>>
db   == <<birthday, rows, league>>
disk == <<cache, saver>>
vars == <<site, db, disk, pc, task, spent>>

(* What is committed for a page: no EVENT_RESULT, one without items, with  *)
(* some of the page's items, or with all of them.                          *)
Kinds == {"absent", "empty", "part", "full"}

(* What the parser makes of a page file: there is none; no result, cut     *)
(* before the content element or inside the table before its first row; a  *)
(* null dereference, cut between the two; fewer items, cut behind a row;   *)
(* an exception, cut inside a cell; or the page as it was published.       *)
Cuts  == {"bare", "tableless", "some", "cell"}
Files == {"none", "whole"} \cup Cuts

NoLeague == [latest |-> 0, counted |-> {}]

NoTask == [event    |-> CHOOSE e \in Events : TRUE,  \* NextEvent assigns it
           queue    |-> <<>>,     \* the events still to be processed
           birthday |-> FALSE,    \* event.birthday is not null
           todo     |-> {},       \* scraped results not yet looked at
           seen     |-> {},       \* scraped results that are in dbEventResults
           items    |-> "absent", \* what the parser made of the page
           page     |-> "none",   \* the page as fetched, to be saved
           changed  |-> {},       \* changedLeagueYears
           scan     |-> {},       \* results processEventLeagues has not read
           create   |-> FALSE,    \* createLeagueForYear
           lastYear |-> 0,        \* lastLeagueYear
           latest   |-> 0,        \* latestEventResultID
           counted  |-> {},       \* results in eventLeagueItemsMapByAthlete
           found    |-> FALSE]    \* the transaction's fetch saw the league

Init ==
    /\ listed = [e \in Events |-> 0]
    /\ populated = {}
    /\ birthday = [e \in Events |-> FALSE]
    /\ rows = [p \in Pages |-> "absent"]
    /\ league = [l \in Events \X Years |-> NoLeague]
    /\ cache = [p \in Pages |-> "none"]
    /\ saver = [p \in Pages |-> Nobody]
    /\ pc = [w \in Workers |-> "idle"]
    /\ task = [w \in Workers |-> NoTask]
    /\ spent = [forced |-> 0, crashes |-> 0, dbErrors |-> 0,
                fetchErrors |-> 0, cuts |-> 0]

-----------------------------------------------------------------------------
(* Helpers.                                                                *)

First(S) == {n \in S : \A m \in S : n <= m}

Event(w)   == task[w].event
Page(w, n) == <<task[w].event, n>>

(* Mutant: the year of a date taken as the one before it.                  *)
YearBefore(w, n) == LeagueYear[Page(w, n)] - 1

YearOf(w, n) == LeagueYear[Page(w, n)]

Stored(e)  == {n \in Numbers : rows[<<e, n>>] # "absent"}

Goto(w, step) == pc' = [pc EXCEPT ![w] = step]

(* The loop over the scraped results moves on from result n.               *)
NextResult(w, n) ==
    /\ Goto(w, "loop")
    /\ task' = [task EXCEPT ![w].todo = @ \ {n}, ![w].items = "absent",
                            ![w].page = "none"]

(* process returns: the timer goes on with its next event.                 *)
Return(w) ==
    /\ Goto(w, IF task[w].queue = <<>> THEN "idle" ELSE "begin")
    /\ task' = [task EXCEPT ![w] = [NoTask EXCEPT !.queue = task[w].queue]]

(* A Poco::Exception leaves process: onTimer and handleRequest catch it    *)
(* outside their loops, so the rest of the run is given up.                *)
Throw(w) ==
    /\ Goto(w, "idle")
    /\ task' = [task EXCEPT ![w] = NoTask]

(* A null dereference, or a kill, ends the process and all threads with    *)
(* it: transactions roll back, page files keep what was written to them,   *)
(* and the service is started again.                                       *)
Die ==
    /\ pc' = [w \in Workers |-> "idle"]
    /\ task' = [w \in Workers |-> NoTask]
    /\ saver' = [p \in Pages |-> Nobody]
    /\ UNCHANGED <<site, db, cache>>

-----------------------------------------------------------------------------
(* The website and the callers.                                            *)

PublishResult(e) ==
    /\ listed[e] < MaxResult
    /\ listed' = [listed EXCEPT ![e] = @ + 1]
    /\ UNCHANGED <<populated, db, disk, pc, task, spent>>

PopulatePage(p) ==
    /\ p[2] <= listed[p[1]] /\ p \notin populated
    /\ populated' = populated \cup {p}
    /\ UNCHANGED <<listed, db, disk, pc, task, spent>>

TimerFires ==
    /\ pc[Timer] = "idle"
    /\ Goto(Timer, "begin")
    /\ task' = [task EXCEPT ![Timer].queue = HarvestOrder]
    /\ UNCHANGED <<site, db, disk, spent>>

ForceUpdate(f) ==
    /\ pc[f] = "idle"
    /\ spent.forced < MaxForced
    /\ spent' = [spent EXCEPT !.forced = @ + 1]
    /\ Goto(f, "begin")
    /\ task' = [task EXCEPT ![f].queue = <<ForcedEvent>>]
    /\ UNCHANGED <<site, db, disk>>

-----------------------------------------------------------------------------
(* process: the event, its history, and the results already stored.        *)

NextEvent(w) ==
    /\ pc[w] = "begin"
    /\ task[w].queue # <<>>
    /\ LET e == Head(task[w].queue)
       IN  task' = [task EXCEPT ![w] = [NoTask EXCEPT !.event = e,
                                                     !.queue = Tail(task[w].queue),
                                                     !.birthday = birthday[e]]]
    /\ Goto(w, "history")
    /\ UNCHANGED <<site, db, disk, spent>>

(* An event's history lists its results from the last one down to the      *)
(* first.  A row without its number or date is left out; one whose number  *)
(* throws ends the table, and leaves out the rows behind it as well.       *)
Scraped(e) == {n \in 1 .. listed[e] : /\ <<e, n>> \notin Unlisted
                                      /\ \A m \in n .. listed[e] : <<e, m>> \notin Unnumbered}

FetchHistory(w) ==
    /\ pc[w] = "history"
    /\ \/ /\ listed[Event(w)] > 0 \/ Page(w, 0) \notin Tableless
          /\ task' = [task EXCEPT ![w].todo = Scraped(Event(w))]
          /\ UNCHANGED spent
       \/ /\ spent.fetchErrors < MaxFetchErrors     \* no page: nothing scraped
          /\ spent' = [spent EXCEPT !.fetchErrors = @ + 1]
          /\ UNCHANGED task
    /\ Goto(w, "results")
    /\ UNCHANGED <<site, db, disk>>

(* A response that ends early is taken for the page: rows are missing from *)
(* its end, if it got as far as the table.                                 *)
FetchHistoryCut(w) ==
    /\ pc[w] = "history"
    /\ spent.cuts < MaxCuts
    /\ spent' = [spent EXCEPT !.cuts = @ + 1]
    /\ \/ \E last \in 1 .. listed[Event(w)] + 1 :
              /\ task' = [task EXCEPT ![w].todo = {n \in Scraped(Event(w)) : n >= last}]
              /\ Goto(w, "results")
              /\ UNCHANGED <<site, db, disk>>
       \/ Die

(* The parser is handed a null pointer for a table that is not there.      *)
FetchHistoryTableless(w) ==
    /\ pc[w] = "history"
    /\ listed[Event(w)] = 0 /\ Page(w, 0) \in Tableless
    /\ Die
    /\ UNCHANGED spent

(* A scraped result is the stored one of its number and date.              *)
Recognised(e) == {n \in Stored(e) : <<e, n>> \notin Redated}

ReadResults(w) ==
    /\ pc[w] = "results"
    /\ task' = [task EXCEPT ![w].seen = Recognised(Event(w))]
    /\ Goto(w, "loop")
    /\ UNCHANGED <<site, db, disk, spent>>

(* The loop body's first lines: result 1 dates the event.                  *)
Dates(w, n) == n = 1 /\ ~task[w].birthday

(* Mutant: the birthday is set in the copy only, without its update.       *)
SetBirthdayCopy(w, n) ==
    /\ pc[w] = "loop" /\ Dates(w, n)
    /\ task' = [task EXCEPT ![w].birthday = TRUE]
    /\ UNCHANGED <<site, db, disk, pc, spent>>

SetBirthday(w, n) ==
    /\ pc[w] = "loop" /\ Dates(w, n)
    /\ birthday' = [birthday EXCEPT ![Event(w)] = TRUE]
    /\ task' = [task EXCEPT ![w].birthday = TRUE]
    /\ UNCHANGED <<site, rows, league, disk, pc, spent>>

(* Poco::DateTime::assign throws at a 29 February of a common year.        *)
LacksYear(w, n) == task[w].birthday /\ Page(w, n) \in Yearless

YearFails(w, n) ==
    /\ pc[w] = "loop" /\ ~Dates(w, n) /\ LacksYear(w, n)
    /\ Throw(w)
    /\ UNCHANGED <<site, db, disk, spent>>

SkipStored(w, n) ==
    /\ pc[w] = "loop" /\ ~Dates(w, n) /\ ~LacksYear(w, n)
    /\ n \in task[w].seen
    /\ NextResult(w, n)
    /\ UNCHANGED <<site, db, disk, spent>>

-----------------------------------------------------------------------------
(* processEventResult: the page comes from its cached file if there is     *)
(* one, and else from the website, and is then saved to the file.          *)

LookInCache(w, n) ==
    /\ pc[w] = "loop" /\ ~Dates(w, n) /\ ~LacksYear(w, n)
    /\ n \notin task[w].seen
    /\ Goto(w, IF cache[Page(w, n)] = "none" THEN "fetch" ELSE "read")
    /\ UNCHANGED <<site, db, disk, task, spent>>

ParsesTo(w, items) ==
    /\ Goto(w, "store")
    /\ task' = [task EXCEPT ![w].items = items]

ReadCached(w, n) ==
    /\ pc[w] = "read"
    /\ LET file == cache[Page(w, n)]
           bad  == Page(w, n) \in Malformed
       IN  \/ file = "bare" /\ NextResult(w, n)
           \/ file = "some" /\ ParsesTo(w, "part")
           \/ file = "whole" /\ ~bad /\ ParsesTo(w, "full")
           \/ file \in {"some", "whole"} /\ bad /\ Throw(w)
           \/ file = "cell" /\ Throw(w)
    /\ UNCHANGED <<site, db, disk, spent>>

ReadTableless(w, n) ==
    /\ pc[w] = "read"
    /\ cache[Page(w, n)] = "tableless"
    /\ Die
    /\ UNCHANGED spent

(* Mutant: a page is saved before it is known to have results.             *)
FetchNothingSaved(w, n) ==
    /\ pc[w] = "fetch"
    /\ Page(w, n) \notin populated
    /\ cache' = [cache EXCEPT ![Page(w, n)] = "bare"]
    /\ NextResult(w, n)
    /\ UNCHANGED <<site, db, saver, spent>>

FetchNothing(w, n) ==
    /\ pc[w] = "fetch"
    /\ \/ Page(w, n) \notin populated \cup Tableless /\ UNCHANGED spent
       \/ /\ spent.fetchErrors < MaxFetchErrors
          /\ spent' = [spent EXCEPT !.fetchErrors = @ + 1]
    /\ NextResult(w, n)
    /\ UNCHANGED <<site, db, disk>>

FetchTableless(w, n) ==
    /\ pc[w] = "fetch"
    /\ Page(w, n) \in Tableless \ populated
    /\ Die
    /\ UNCHANGED spent

FetchedAs(w, page, items) ==
    /\ Goto(w, "save")
    /\ task' = [task EXCEPT ![w].page = page, ![w].items = items]
    /\ UNCHANGED <<site, db, disk>>

(* A parser exception is caught and leaves getPage's success as the result *)
(* with the rows parsed so far.                                            *)
FetchPage(w, n) ==
    /\ pc[w] = "fetch"
    /\ Page(w, n) \in populated
    /\ \E items \in IF Page(w, n) \in Malformed THEN {"empty", "part"} ELSE {"full"} :
           FetchedAs(w, "whole", items)
    /\ UNCHANGED spent

(* A response that ends early is taken for the page, wherever it ends.     *)
FetchPageCut(w, n) ==
    /\ pc[w] = "fetch"
    /\ spent.cuts < MaxCuts
    /\ spent' = [spent EXCEPT !.cuts = @ + 1]
    /\ \/ NextResult(w, n) /\ UNCHANGED <<site, db, disk>>
       \/ Die
       \/ /\ Page(w, n) \in populated
          /\ \/ FetchedAs(w, "some", "part")
             \/ Page(w, n) \in Malformed /\ FetchedAs(w, "some", "empty")
             \/ \E items \in {"empty", "part"} : FetchedAs(w, "cell", items)

OpenPageFile(w, n) ==
    /\ pc[w] = "save"
    /\ cache' = [cache EXCEPT ![Page(w, n)] = "bare"]
    /\ saver' = [saver EXCEPT ![Page(w, n)] = w]
    /\ Goto(w, "saving")
    /\ UNCHANGED <<site, db, task, spent>>

(* What a worker writes is seen as a prefix of its page if no other worker *)
(* has truncated the file since: behind that one's prefix the file has a   *)
(* hole.                                                                   *)
WritePageFile(w, n) ==
    /\ pc[w] = "saving"
    /\ saver[Page(w, n)] = w
    /\ \E k \in Cuts \ {cache[Page(w, n)]} : cache' = [cache EXCEPT ![Page(w, n)] = k]
    /\ UNCHANGED <<site, db, saver, pc, task, spent>>

(* Mutant: the result is stored before its page file is complete.          *)
ClosePageFileEarly(w, n) ==
    /\ pc[w] = "saving"
    /\ saver[Page(w, n)] = w
    /\ saver' = [saver EXCEPT ![Page(w, n)] = Nobody]
    /\ Goto(w, "store")
    /\ UNCHANGED <<site, db, cache, task, spent>>

ClosePageFile(w, n) ==
    /\ pc[w] = "saving"
    /\ saver[Page(w, n)] = w
    /\ cache' = [cache EXCEPT ![Page(w, n)] = task[w].page]
    /\ saver' = [saver EXCEPT ![Page(w, n)] = Nobody]
    /\ Goto(w, "store")
    /\ UNCHANGED <<site, db, task, spent>>

WriteBehindHole(w, n) ==
    /\ pc[w] = "saving"
    /\ saver[Page(w, n)] # w
    /\ Goto(w, "store")
    /\ UNCHANGED <<site, db, disk, task, spent>>

-----------------------------------------------------------------------------
(* The transaction that stores a result with its items.                    *)

(* Mutant: no unique key makes a second insert of the row wait.            *)
RowNeverLocked(w, n) == FALSE

RowLocked(w, n) == \E v \in Workers \ {w} : /\ pc[v] = "commit" /\ Event(v) = Event(w)
                                            /\ n \in First(task[v].todo)

(* leagueYear.value() throws when it is null; the unique key when the row  *)
(* is there.                                                               *)
InsertFails(w, n) ==
    /\ pc[w] = "store"
    /\ ~task[w].birthday \/ rows[Page(w, n)] # "absent"
    /\ Throw(w)
    /\ UNCHANGED <<site, db, disk, spent>>

InsertResult(w, n) ==
    /\ pc[w] = "store"
    /\ task[w].birthday /\ rows[Page(w, n)] = "absent" /\ ~RowLocked(w, n)
    /\ task' = [task EXCEPT ![w].changed = @ \cup {YearOf(w, n)}]
    /\ Goto(w, "commit")
    /\ UNCHANGED <<site, db, disk, spent>>

CommitResult(w, n) ==
    /\ pc[w] = "commit"
    /\ rows' = [rows EXCEPT ![Page(w, n)] = task[w].items]
    /\ NextResult(w, n)
    /\ UNCHANGED <<site, birthday, league, disk, spent>>

-----------------------------------------------------------------------------
(* processEventLeagues: read the stored results in order, collecting those *)
(* of years whose league is missing or has a new result.                   *)

(* Mutant: the league is built from the results stored by this run only.   *)
EndResultsNewOnly(w) ==
    /\ pc[w] = "loop" /\ task[w].todo = {} /\ task[w].birthday
    /\ task' = [task EXCEPT ![w].scan = Stored(Event(w)) \ task[w].seen, ![w].seen = {}]
    /\ Goto(w, "scan")
    /\ UNCHANGED <<site, db, disk, spent>>

(* Mutant: the league is built from the history list, not the database.    *)
EndResultsListed(w) ==
    /\ pc[w] = "loop" /\ task[w].todo = {} /\ task[w].birthday
    /\ task' = [task EXCEPT ![w].scan = 1 .. listed[Event(w)], ![w].seen = {}]
    /\ Goto(w, "scan")
    /\ UNCHANGED <<site, db, disk, spent>>

EndResults(w) ==
    /\ pc[w] = "loop" /\ task[w].todo = {}
    /\ IF task[w].birthday
         THEN /\ task' = [task EXCEPT ![w].scan = Stored(Event(w)), ![w].seen = {}]
              /\ Goto(w, "scan")
         ELSE Return(w)
    /\ UNCHANGED <<site, db, disk, spent>>

(* Mutant: a league that is there is never created again.                  *)
CreatesMissingLeague(w, n) == league[<<Event(w), YearOf(w, n)>>] = NoLeague

CreatesLeague(w, n) == \/ league[<<Event(w), YearOf(w, n)>>] = NoLeague
                       \/ YearOf(w, n) \in task[w].changed

SkipUnchanged(w, n) ==
    /\ pc[w] = "scan" /\ ~CreatesLeague(w, n)
    /\ task' = [task EXCEPT ![w].scan = @ \ {n}, ![w].create = FALSE]
    /\ UNCHANGED <<site, db, disk, pc, spent>>

(* The result's items are in the map before the year's end is looked for.  *)
CountResult(w, n) ==
    /\ pc[w] = "scan" /\ CreatesLeague(w, n)
    /\ LET counted == task[w].counted \cup
                          {m \in {n} : rows[Page(w, m)] \in {"part", "full"}}
           yearEnds == /\ task[w].lastYear \notin {0, YearOf(w, n)}
                       /\ counted # {}
       IN  IF yearEnds
             THEN /\ task' = [task EXCEPT ![w].counted = counted, ![w].create = TRUE]
                  /\ Goto(w, "league")
             ELSE /\ task' = [task EXCEPT ![w].counted = counted, ![w].create = TRUE,
                                          ![w].lastYear = YearOf(w, n),
                                          ![w].latest = n, ![w].scan = @ \ {n}]
                  /\ UNCHANGED pc
    /\ UNCHANGED <<site, db, disk, spent>>

(* Mutant: only the end of a year writes a league, not the end of the scan.*)
EndScanUnwritten(w) ==
    /\ pc[w] = "scan" /\ task[w].scan = {}
    /\ Return(w)
    /\ UNCHANGED <<site, db, disk, spent>>

EndScan(w) ==
    /\ pc[w] = "scan" /\ task[w].scan = {}
    /\ IF task[w].create /\ task[w].counted # {}
         THEN Goto(w, "league") /\ UNCHANGED task
         ELSE Return(w)
    /\ UNCHANGED <<site, db, disk, spent>>

-----------------------------------------------------------------------------
(* processEventLeagueForYear: the transaction that replaces a league.      *)

Key(w) == <<Event(w), task[w].lastYear>>

OpenLeague(w) ==
    /\ pc[w] = "league"
    /\ task' = [task EXCEPT ![w].found = (league[Key(w)] # NoLeague)]
    /\ Goto(w, "write")
    /\ UNCHANGED <<site, db, disk, spent>>

LeagueInsertFails(w) ==
    /\ pc[w] = "write"
    /\ ~task[w].found /\ league[Key(w)] # NoLeague
    /\ Throw(w)
    /\ UNCHANGED <<site, db, disk, spent>>

WriteLeague(w) ==
    /\ pc[w] = "write"
    /\ task[w].found \/ league[Key(w)] = NoLeague
    /\ ~\E v \in Workers \ {w} : pc[v] = "publish" /\ Key(v) = Key(w)
    /\ Goto(w, "publish")
    /\ UNCHANGED <<site, db, disk, task, spent>>

PublishLeague(w) ==
    /\ pc[w] = "publish"
    /\ league' = [league EXCEPT ![Key(w)] = [latest  |-> task[w].latest,
                                             counted |-> task[w].counted]]
    /\ UNCHANGED <<site, birthday, rows, disk, spent>>

(* Mutant: lastLeagueYear is not moved on at a year's end.                 *)
CommitYearAgain(w, n) ==
    /\ PublishLeague(w)
    /\ Goto(w, "scan")
    /\ task' = [task EXCEPT ![w].counted = {}, ![w].latest = n, ![w].scan = @ \ {n}]

(* At a year's end the map is emptied and the scan goes on past result n.  *)
CommitYear(w, n) ==
    /\ PublishLeague(w)
    /\ Goto(w, "scan")
    /\ task' = [task EXCEPT ![w].counted = {}, ![w].lastYear = YearOf(w, n),
                            ![w].latest = n, ![w].scan = @ \ {n}]

CommitLastYear(w) ==
    /\ PublishLeague(w)
    /\ task[w].scan = {}
    /\ Return(w)

-----------------------------------------------------------------------------
(* Failures.                                                               *)

DbError(w) ==
    /\ pc[w] \in {"begin", "results", "loop", "store", "commit",
                  "scan", "league", "write", "publish"}
    /\ spent.dbErrors < MaxDbErrors
    /\ spent' = [spent EXCEPT !.dbErrors = @ + 1]
    /\ Throw(w)
    /\ UNCHANGED <<site, db, disk>>

Crash ==
    /\ spent.crashes < MaxCrashes
    /\ spent' = [spent EXCEPT !.crashes = @ + 1]
    /\ Die

ResultStep(w, n) ==
    \/ SetBirthday(w, n) \/ YearFails(w, n) \/ SkipStored(w, n) \/ LookInCache(w, n)
    \/ ReadCached(w, n) \/ ReadTableless(w, n) \/ FetchNothing(w, n)
    \/ FetchTableless(w, n) \/ FetchPage(w, n) \/ FetchPageCut(w, n)
    \/ OpenPageFile(w, n) \/ WritePageFile(w, n) \/ ClosePageFile(w, n)
    \/ WriteBehindHole(w, n) \/ InsertFails(w, n) \/ InsertResult(w, n)
    \/ CommitResult(w, n)

ScanStep(w, n) == SkipUnchanged(w, n) \/ CountResult(w, n) \/ CommitYear(w, n)

Step(w) ==
    \/ NextEvent(w) \/ FetchHistory(w) \/ FetchHistoryCut(w)
    \/ FetchHistoryTableless(w) \/ ReadResults(w)
    \/ \E n \in First(task[w].todo) : ResultStep(w, n)
    \/ EndResults(w)
    \/ \E n \in First(task[w].scan) : ScanStep(w, n)
    \/ EndScan(w) \/ OpenLeague(w) \/ LeagueInsertFails(w) \/ WriteLeague(w)
    \/ CommitLastYear(w)

Next ==
    \/ \E e \in Events : PublishResult(e)
    \/ \E p \in Pages : PopulatePage(p)
    \/ TimerFires
    \/ \E f \in Forcers : ForceUpdate(f)
    \/ \E w \in Workers : Step(w) \/ DbError(w)
    \/ Crash

Spec == Init /\ [][Next]_vars

(* Threads run, a file that is being written gets closed, and the timer    *)
(* comes back every sleep-between-runs-seconds, also after a restart.      *)
ClosesPageFile(w) == \E n \in First(task[w].todo) : ClosePageFile(w, n)

Fairness == /\ WF_vars(TimerFires)
            /\ \A w \in Workers : WF_vars(Step(w)) /\ WF_vars(ClosesPageFile(w))

FairSpec == Spec /\ Fairness

-----------------------------------------------------------------------------
(* Properties.                                                             *)

Steps == {"idle", "begin", "history", "results", "loop", "read", "fetch", "save",
          "saving", "store", "commit", "scan", "league", "write", "publish"}

League == [latest : Numbers \cup {0}, counted : SUBSET Numbers]

Task == [event : Events, queue : Seq(Events), birthday : BOOLEAN,
         todo : SUBSET Numbers, seen : SUBSET Numbers, items : Kinds, page : Files,
         changed : SUBSET Years, scan : SUBSET Numbers, create : BOOLEAN,
         lastYear : Years \cup {0}, latest : Numbers \cup {0},
         counted : SUBSET Numbers, found : BOOLEAN]

(* Every variable stays in its type.                                       *)
TypeOK ==
    /\ listed \in [Events -> 0 .. MaxResult]
    /\ populated \subseteq Pages
    /\ birthday \in [Events -> BOOLEAN]
    /\ rows \in [Pages -> Kinds]
    /\ league \in [Events \X Years -> League]
    /\ cache \in [Pages -> Files]
    /\ saver \in [Pages -> Workers \cup {Nobody}]
    /\ pc \in [Workers -> Steps]
    /\ task \in [Workers -> Task]
    /\ spent \in [forced : 0 .. MaxForced, crashes : 0 .. MaxCrashes,
                  dbErrors : 0 .. MaxDbErrors, fetchErrors : 0 .. MaxFetchErrors,
                  cuts : 0 .. MaxCuts]

(* No result is stored before its event has a birthday: process may insert *)
(* an EVENT_RESULT only with the league year that follows from it, and its *)
(* copy of the birthday never runs ahead of the table.                     *)
ResultNeedsBirthday == \A p \in Pages : rows[p] # "absent" => birthday[p[1]]

(* A league is built from stored results only, and the result it names as  *)
(* its latest is a stored one of the league's own year, wherever the scan  *)
(* that wrote it was interrupted or overtaken.                             *)
LeagueOfStoredResults ==
    \A e \in Events, y \in Years :
        LET l == league[<<e, y>>]
        IN  l # NoLeague => /\ l.counted \subseteq Stored(e)
                            /\ l.latest \in Stored(e) /\ LeagueYear[<<e, l.latest>>] = y

(* A committed result is never changed or lost, by another harvest of its  *)
(* event, by a failed transaction or by a crash.                           *)
ResultsArePermanent ==
    [][\A p \in Pages : rows[p] # "absent" => rows'[p] = rows[p]]_vars

(* What is committed for a result is what its page file holds, for a page  *)
(* the parser can read: all of it exactly when the file is whole.  So the  *)
(* files tell which stored results are to be harvested again.              *)
StoredAsCached ==
    \A p \in Pages \ Malformed :
        /\ rows[p] = "full" => cache[p] = "whole"
        /\ rows[p] \in {"part", "empty"} => cache[p] \in {"some", "cell"}

(* A result missing from its year's league is one a harvest of its event   *)
(* is about to count: the timer has its year among the changed ones.       *)
Uncounted(p) == /\ rows[p] \in {"part", "full"}
                /\ p[2] \notin league[<<p[1], LeagueYear[p]>>].counted

LeagueBehindIsDue ==
    \A p \in Pages : Uncounted(p) =>
        \E w \in Workers : Event(w) = p[1] /\ LeagueYear[p] \in task[w].changed

(* A league is only ever replaced by one that counts the same results and  *)
(* more: the harvest rebuilds it from all stored results of the year.      *)
LeaguesGrow ==
    [][\A l \in Events \X Years : league[l].counted \subseteq league'[l].counted]_vars

(* A league only counts results of its own year: processEventLeagues keeps *)
(* a map for "this years league" and writes it when a new year begins.     *)
LeagueWithinYear ==
    \A e \in Events, y \in Years :
        \A n \in league[<<e, y>>].counted : LeagueYear[<<e, n>>] = y

(* The harvest implements the archive: every step of it dates an event,    *)
(* stores a result, replaces a league, or changes none of the three.       *)
Archive == INSTANCE ResultArchive
               WITH dated  <- {e \in Events : birthday[e]},
                    stored <- {p \in Pages : rows[p] # "absent"}

ImplementsArchive == Archive!Spec

(* What ends every harvest that gets to page q: a date without a league    *)
(* year, a file that throws, a page that kills the daemon, a row of an     *)
(* event that nothing dates, and one that is stored and not recognised.    *)
FailsToDate(q)   == q \in Yearless /\ birthday[q[1]]
FailsToRead(q)   == \/ cache[q] = "cell"
                    \/ q \in Malformed /\ cache[q] \in {"some", "whole"}
FailsToParse(q)  == q \in Tableless \ populated /\ cache[q] = "none"
FailsToInsert(q) == \/ q \in populated /\ ~birthday[q[1]] /\ 1 \notin Scraped(q[1])
                    \/ q \in Redated /\ rows[q] # "absent"

InTheWay(q) ==
    /\ q[2] \in Scraped(q[1]) \ Recognised(q[1])
    /\ FailsToDate(q) \/ FailsToRead(q) \/ FailsToParse(q) \/ FailsToInsert(q)

HarvestedBefore(e, f) == \E i, j \in 1 .. Len(HarvestOrder) :
                            i < j /\ HarvestOrder[i] = e /\ HarvestOrder[j] = f

Obstructed(p) ==
    \/ p[2] \notin Scraped(p[1])
    \/ \E n \in 1 .. p[2] : InTheWay(<<p[1], n>>)
    \/ \E e \in Events : /\ HarvestedBefore(e, p[1])
                         /\ \/ listed[e] = 0 /\ <<e, 0>> \in Tableless
                            \/ \E n \in Numbers : InTheWay(<<e, n>>)

(* A page without results is ignored only "until it is populated": then    *)
(* its result gets stored, unless the history leaves it out for good or    *)
(* harvests keep ending before they have stored it.                        *)
PopulatedIsStored ==
    \A p \in Pages : []<>~Obstructed(p) => (p \in populated ~> rows[p] # "absent")

(* A stored result ends up in the league of its year.                      *)
StoredIsCounted ==
    \A p \in Pages : rows[p] = "full" ~> ~Uncounted(p)

=============================================================================
