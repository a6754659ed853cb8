# ParkRun Points League: formal models

TLA+ models of `prpld`, the daemon of the ParkRun Points League: it scrapes the
results of ParkRun events from parkrun.org.uk, stores them in MySQL, builds a
points league per event and league year, and serves the leagues over HTTP. Paths
below are relative to `src/exe/prpld/` unless they say otherwise; *RC* is
`ResultsController.cpp`, *App* is `PRPLHTTPServerApplication.cpp`.

Contents: 1 the system, 2 what is modelled and how, 3 the runs, 4 the proofs,
5 what the models say about the code, 6 what is left out, 7 plan.

## 1. The system

### Threads

| Thread | Started by | What it does |
| --- | --- | --- |
| main | `App::main` | loads the configuration, opens the session pool, starts the HTTP server and the timer, waits for a termination request, stops both |
| harvester's timer | `App::startResultsHarvester` | every `results.sleep-between-runs-seconds`: `ResultsControllerTimer::onTimer`, which throttles itself by day and hour and then runs `ResultsController::process` on every event in turn |
| request threads (16) | Poco's HTTP server | a handler per request; `/forceupdate` runs `ResultsController::process("miltonkeynes")` in the request's thread, the others read the database |

Nothing serialises the timer's harvest and those of `/forceupdate`; they meet in
the database and in the directory of cached pages.

### Components, their state and their operations

| Component | State | Operations | Correct when |
| --- | --- | --- | --- |
| results harvest (`ResultsController`) | locals of `process`; through it the database and the page files | fetch history, fetch/parse/cache/store each new result, rebuild leagues of changed years | results are stored once, whole and for good; a populated page is stored in the end; a league is built from its year's stored results, and from all of them |
| force update handler | none | one harvest of one event, in a request thread | safe beside the timer's harvest |
| harvester's timer (`ResultsControllerTimer`) | `_ignoreCounter` | `onTimer` | harvests at least every n-th firing, more often at popular times |
| scrapers (`Scraper`, `EventHistoryScraper`, `ResultsScraper`) | the page, the parsed rows | `execute`, with and without a given page | what is returned as success is what the page held |
| caches (`Cache`, `ResultsCache`, `EventHistoryCache`) | one file per page | `checkExists`, `get`, `save` | a file that exists is a whole page |
| data models (`datamodel/*`) | tables `EVENT`, `EVENT_RESULT`, `EVENT_RESULT_ITEM`, `EVENT_LEAGUE`, `EVENT_LEAGUE_ITEM`, `ATHLETE`, `PARAM` (`/sql/create-schema.sql`) | fetch, insert, update, remove, reconcile | keys hold, transactions are whole |
| league table (`processEventLeagues`, `processEventLeagueForYear`, `EventLeagueItem`) | `eventLeagueItemsMapByAthlete` | accumulate points, rank | dense positions, by descending points |
| athletes (`AthleteDataModel`, `Athlete`) | table `ATHLETE`; `existingDBathletesMap` | `reconcile`, in the result's transaction | every runner of a stored result has a row, with a name some page gives |
| page handlers (`requesthandlers/*`) | none | read and render | what a page shows fits together although its statements see different states of the database |
| league form (`/assets/js/league.js`) | the page's selectors; requests for years on the way | load, change of the event, reply, GO | the years offered are those of the selected event, and have leagues |
| daemon (`App`) | session pool, `_stopping`, timer, server | start, stop | the harvest soon ends and has its pool until then; the daemon stops |

### How they interact

* The harvest calls scrapers (HTTPS), caches (files) and data models (SQL). Each
  call of a data model without a session takes one from the pool and is a
  transaction of its own; the two multi-statement transactions are that of a
  result with its items and athletes (RC:303-353) and that of a league with its
  items (RC:526-590).
* The page handlers see the harvest only through committed rows, each statement in a
  session, and so in a transaction, of its own.
* Harvests of different events meet in `ATHLETE`: its row locks and its primary key are
  all that is between them.
* A league page's script asks `/league/getyears` for the selected event's years, and
  sends the browser to `/league`; a row of the page links to `/athlete`.
* An exception leaves `process` and ends the caller's whole loop (RC:138).
* `isStopping` is polled between the events of a run.

### What is hard

Two harvests of one event at once; reads that are used in a later transaction
(`dbEventResults`, the rows a league is built from); results committed one by
one and leagues at the end; page files saved in place; downloads that end early and
count as the page; pages that exist before they are populated, or even have their table;
a first result that cannot be parsed, without which the event
has no birthday and no result can be stored; exceptions that end more than the
step they come from, or come again in every harvest; values that are not there in a page
that is half sent; athletes inserted by two transactions in the order of their own
pages; pages put together from several statements; replies for years that come out of
order or not at all; the order of shutting down. Section `hazards` of
`PROJECT.json` lists them by line, with the properties aimed at each.

## 2. The modules

| Module | Models |
| --- | --- |
| `ResultsHarvest` | `process` and all it calls, for any number of threads, over database, page files and website |
| `ResultArchive` | the abstract specification: what the harvest promises of the tables |
| `MCResultsHarvest` | small instances for TLC |
| `ResultsHarvest_proofs` | theorems about `ResultsHarvest`, proved with TLAPS |
| `TimerAlone_proofs` | theorems about `ResultsHarvest` as long as the timer alone runs it |
| `LeagueTable`, `MCLeagueTable`, `LeagueTable_proofs` | how a league's rows are summed and ranked; its small instance; its theorems |
| `HarvestTimer`, `HarvestTimer_proofs` | the throttle of `onTimer`; its theorems |
| `Daemon`, `Daemon_proofs` | extends `HarvestTimer`: main, the harvest's loop and a request over the session pool; its theorems |
| `AthleteReconcile`, `AthleteReconcile_proofs` | the result's transaction, from the side of `ATHLETE`; its theorems |
| `LeaguePages`, `LeaguePages_proofs` | extends `AthleteReconcile`: the league and the athlete page beside the harvests; its theorems |
| `LeagueForm`, `MCLeagueForm`, `LeagueForm_proofs` | extends `LeaguePages`: `league.js` in a visitor's browser; the small instance of all three; its theorems |

### ResultsHarvest

A *worker* is a thread running `process`: `Timer` with the events of
`HarvestOrder` as its queue (`onTimer`'s loop), or one of `Forcers` with
`ForcedEvent` alone.

| Variable | In the program |
| --- | --- |
| `listed`, `populated` | the website: the history's length; the result pages that have rows |
| `birthday` | `EVENT.BIRTHDAY is not null` |
| `rows[<<e, n>>]` | the committed `EVENT_RESULT` with its items: absent, without items, with some of the page's items, with all |
| `league[<<e, y>>]` | the committed `EVENT_LEAGUE` (`latest`) with its items (`counted`: the results they were summed from) |
| `cache`, `saver` | a page's file, by what the parser makes of it: none, whole, or cut before the results, before the table, behind a row or inside a cell; the thread that truncated it last and is still writing |
| `pc`, `task` | where each worker is; its locals (`dbEventResults` as `seen`, the scraped results left as `todo`, `changedLeagueYears` as `changed`, `eventLeagueItemsMapByAthlete` as `counted`, ...) |
| `spent` | how much of each bound has been used |

The step of a worker is one database statement or transaction boundary, one page
read or write, or one decision between two of those. Insertion is split from
commit, with the unique keys of the tables as the only synchronisation:
`InsertResult` waits for another worker's uncommitted row (`RowLocked`), and an
insert of a committed row throws (`InsertFails`). A league's transaction is split
into its fetch (`OpenLeague`), its first write, which takes the row's lock
(`WriteLeague`), and its commit. `SetBirthday`, `YearFails`, `SkipStored` and
`LookInCache` are the ways through the loop's head; `ReadCached` and `ReadTableless`
those out of parsing a cached file; `FetchNothing`, `FetchTableless`, `FetchPage` and
`FetchPageCut` those of a download, and `FetchHistory`, `FetchHistoryCut` and
`FetchHistoryTableless` those of the history's. `WritePageFile` may happen any number of
times before `ClosePageFile` leaves in the file what was fetched. `DbError` throws at any
statement; `Crash` takes all threads away between any two steps and leaves the
database's committed state and the files' prefixes (`Die`), as does a null pointer that
the parser is handed for a table.

What a website may serve is in the constants:

| Constant | Pages | What the code makes of them |
| --- | --- | --- |
| `Unlisted` | whose row of the history lacks its number or date | the row is left out (EventHistoryScraper.cpp:286) |
| `Unnumbered` | whose row has a number that is none | throws, and the older rows are left out too (EventHistoryScraper.cpp:274, 84) |
| `Redated` | whose row has another date than was stored, or none that can be read | not recognised, harvested again; the unique key throws (RC:282, 312) |
| `Yearless` | of a year without the day of the event's birthday, a 29 February | `getLeagueYear` throws (RC:606) |
| `Malformed` | with a row that makes the parser throw | fetched, the rows before it are stored (ResultsScraper.cpp:86); cached, the exception ends the harvest |
| `Tableless` | without a table before they have rows, a history being page 0 | a null pointer (ResultsScraper.cpp:154-160, EventHistoryScraper.cpp:129-131): the daemon is gone |

Abstractions, and why they are sound for what is checked:

* A page's items are one of four kinds, a file one of six: the parser and the tables
  distinguish no more as far as the properties go. A page that ends behind its last row
  is the whole page.
* A download cut short is success wherever it ends (Scraper.cpp:132-136): a result page
  becomes any of the cut kinds; a history lacks its older rows, or its table. One that
  ends within a date is taken as one that ends before the row: that another date may be
  stored instead is not modelled, since no property speaks of a stored date.
* A league is the set of results it was summed from. What the sums are is the
  business of `LeagueTable`.
* Dates are abstracted to `LeagueYear`, positive, of any shape: what
  `getLeagueYear` makes of a date and a birthday, as it is stored. That the history may
  give a stored result another date later is `Redated`.
* Whether a row is of one of the kinds above does not change with time; the website may
  publish and populate at any time.
* A commit whose reply is lost is a commit followed by a crash of the run.
* One daemon runs on the database, and disk errors other than a crash do not
  happen (`saveToFile` does not look at the stream's state).

### ResultArchive

Three variables, `dated`, `stored`, `league`, and three steps: date an event;
store a result of a dated event, once; replace a league by one of stored results
whose latest is of the league's own year. `ResultsHarvest` maps its tables to
these (`Archive`) and states `ImplementsArchive`.

### LeagueTable

The inside of `CountResult` and of a league's transaction, by one thread: `tally` is
`eventLeagueItemsMapByAthlete`, `rows` the `EVENT_LEAGUE_ITEM`s as the transaction
sees them, `league` as last committed, `read` the items since the map was last empty
(a history variable). `ReadItem` is one pass of the loop over a result's items
(RC:470), `OpenLeague` the transaction's begin with its `remove` (RC:522-544),
`InsertItem` one pass of the ranking loop (RC:559), `Commit` its commit and the
freeing of the map (RC:590-595). `Fail` is an exception anywhere: the transaction is
rolled back and the map, a local, is gone. The multimap by points is not kept: the
item it is at next is the one `Ahead` of all others not yet ranked, since equal keys
stay in the order of insertion, which is the map's by athlete number.

Which result an item is of does not matter here; the leagues of the years are one
after another, and `league` is the one written last. A gender position of zero, which
no page has, stands for null. An item's time is the sequence of numbers that the page
prints with colons between them; `Seconds` is what `timespanParse` makes of it
(Scraper.cpp:156), a part that is no number being 0. Sums are not cut to the table's 32 bits: a year's
results would have to be ten million.

### HarvestTimer

One firing of `onTimer` is `Skip` or `Harvest`, a harvest's end or exception is
`HarvestEnds`. The clock ticks at any time, by whole hours, also in a harvest. The
`ResultsControllerTimer` is a local of `startResultsHarvester` (App:418) and is
destroyed when that returns, while the timer keeps a pointer to it: reading the
counter is undefined, and any value is what it may hold at first. Main's stack is not
used at that depth between firings, as main waits (App:381), so later reads see what
the timer wrote. `MaxCounter` is the largest `unsigned long`, where the counter wraps.

This module and `ResultsHarvest` meet in `TimerFires`: that firings become harvests
again and again, which `ResultsHarvest` assumes as fairness, is `HarvestsUntilStopped`
of `Daemon`.

### Daemon

| Variable | In the program |
| --- | --- |
| `main` | the last thing `App::main` has done; `crashed` if a thread used what was deleted |
| `pool`, `stopping` | `_pDbSessionPool != NULL`, `_stopping` |
| `timer` | the timer's thread: off, on, told to end by `Poco::Timer::stop` |
| `loop`, `left` | where `onTimer` is in its loop (RC:104-137), how many events are before it |
| `late` | events begun after the stop (a history variable) |
| `request` | a request: reading, sending, and how the last one ended |
| `shows` | whether its page has all the values it is to show |

`StopTimer` and `JoinTimer` are the two halves of `Poco::Timer::stop`: no new firing,
then the wait for the callback. `GoesOn` is an `isStopping` that says no, and
`BeginEvent` the call of `process` after it; a stop may come in between. `Throw` is the
catch around the loop, for a failed statement or a missing pool. `Send` is
`response.send()`: a handler that throws before it answers with a problem's page
(`Problem`), one that throws after it cannot begin another response and leaves its page
where it is (`Cut`). That is a failed statement, a missing pool, or a value of the page
that is not there (`shows`): the gender position of a run (AthleteHandler.cpp:157, 166),
or the first day of a league of an event born on a 29 February
(EventLeagueHandler.cpp:213). So does the second `responseProblem` of `AthleteHandler.cpp:92`,
behind a first that was whole. `cleanup` comes before `server.stop` (App:392-393): a
request in between finds no pool, or uses the one that is being deleted
(`UseDeletedPool`). No property excludes that outcome, as nothing in the code or its
documents claims that it cannot be.

One request stands for the 16 threads: they share the pool only, which they do not
change. Whether `connectDB` found a database makes no difference to the steps (App:365),
except that a failed select of the schema's version is not caught there and ends main
(`ConnectDB`), as a port that is taken does (`StartServer`).

### AthleteReconcile

`writing[e]` is the result whose transaction event `e`'s harvest is in, `known[e]` is
`existingDBathletesMap`: `ATHLETE` as committed when the transaction first read, which
under InnoDB's repeatable read is before its inserts. `at[e]` is the runner the loop is
at, `written[e]` what the transaction has put into `ATHLETE`, `waiting` those whose
statement waits for a row. `Insert`, `Update` and `Unchanged` are the branches of the
loop (AthleteDataModel.cpp:208-223); `DuplicateKey` is an insert of a row that was
committed since; `Deadlock` takes any one transaction of a circle of waits; `Fail` is
any other exception, a wait that takes too long included. All three roll the whole
result back; the timer begins it again.

A page is its sequence of known runners with their names as `getNames` splits them; a
gender is not compared (Athlete.cpp:81) and left out. What `ResultsHarvest` has of the
same transaction, the result's row and its items, is one step here.

### LeaguePages

`league[<<e, y>>]` is the set of results a league counts; `PublishLeague` replaces one
by any stored results of the event, of which one is of the year: `ResultArchive`'s
`ReplaceLeague`. `page` and `card` are a request for a league page and one for an
athlete's, with what their statements have read: the leagues, the items, the athletes
(EventLeagueHandler.cpp:112-241); the athlete, the leagues, and for each league, latest
first, the athlete's item and then the year's results (AthleteHandler.cpp:90-179). The
order of the statements is the point: items are read before athletes, the count of runs
before the runs. A page ends as `cut` at a value that is not there: the runs without a
gender position are `Placeless` (`CutCard`), and the leagues without a first day
`Unstarted` (`NoFirstDay`). An item of the league names its results in the model, so that
`RunsAreListed` can say which run is missing; the program has their number only.

### LeagueForm

`form` is the selectors of the page that is shown, `asked` the requests for years that
were sent and not received. A request can be answered at any time after it was sent, in
any order, and received in any order after that; it can be lost with its reply. Leaving
the page (`Unload`) takes its requests with it. `inOrder` and `yearsOf` are history
variables: whether any reply was lost or overtook one, and the event the years are of.

## 3. The runs

Deadlock is checked in all but `harvest_throttle`, whose daemon ends, and `league_site`,
whose harvests have stored everything in the end. The bounds: `MaxForced` requests, `MaxCrashes`,
`MaxDbErrors`, `MaxFetchErrors`, `MaxCuts` (downloads that end early).

| Run | Instance | Checks |
| --- | --- | --- |
| `harvest_timer` | events `b`, `a`; timer only; 2 results each; `b` enters a new year and its first row is never parsed; of `a`, page 1 is malformed, page 2 is without a table at first and changes its date; 2 database errors, 1 failed and 1 truncated download | `StoredAsCached`: what is stored of a readable page is what its file holds, all of it exactly when the file is whole. `PopulatedIsStored`: a page that gets its rows is stored in the end, if harvests do not keep ending before it |
| `harvest_race` | event `a`; timer and one forced harvest; 3 results over 2 years, the second page malformed; 1 crash, 1 database error | `TypeOK`, `ResultNeedsBirthday`, `LeagueOfStoredResults`, `ResultsArePermanent`, `ImplementsArchive` |
| `harvest_live` | events `b`, `a`; timer only; 3 results in one year; of `b`, the history and page 1 are without a table at first, row 2 hides the older ones and 3 has no league year; of `a`, row 2 is never parsed; 2 failed downloads | `LeagueBehindIsDue`: a result missing from its league is one a running harvest will count. `LeaguesGrow`: a rebuild never loses a result. `StoredIsCounted`: a stored result gets into its league. `PopulatedIsStored`, as above |
| `league_boundary` | timer only, a year begins with result 3 | `LeagueWithinYear` is violated |
| `cache_poison` | timer only, 1 crash | `PopulatedIsStored` is violated |
| `league_stale` | timer only, 1 crash | `StoredIsCounted` is violated |
| `league_overtaken` | timer and one forced harvest | `LeaguesGrow` is violated |
| `league_table` | two men, a woman, one of unknown gender; 15 items: places with all, some and no points, none, a time of over an hour, none, no number; 4 items read in all, 3 points for the first | `LeagueIsRanked`, `GendersAreRanked`: positions depend on totals only and are dense. `LeagueIsSumOfItems`: nothing of another or a failed league is counted |
| `harvest_throttle` | `Daemon`: factor 8, a counter of 4 bits, every hour of the week and every first value; 2 events, 1 failing statement | `SkipsBounded`: one of as many firings as the factor and one is a harvest. `SaturdayIsFaster`: sooner on a Saturday. `HarvestsUntilStopped`: it harvests while it is not told to stop. `HarvesterHasPool`, `StopsBeforeNextEvent`, `DaemonStops`: the harvest keeps its pool, begins one more event at most, and lets the daemon stop. `PagesEndWhole`: only failures, the stop and a value that is not there cut a page |
| `league_site` | `LeagueForm`: two events with the same two runners in opposite orders, a name that changes, 3 results over 2 years; 1 failing statement, 2 published leagues, 2 requests for years on the way; a run without a gender position, a league without a first day | `RunnersAreAthletes`, `NamesArePrinted`, `ResultsGetStored`: the harvests and `ATHLETE`. `EveryRowHasName`, `RunsAreListed`: the pages. `YearsFollowEvent`, `OfferedYearsHaveLeagues`: the form |
| `hour_lost` | two athletes, times of less than an hour, of one hour, and of more | `TimedRunsCount` is violated |
| `saturday_throttle` | factor 10, the default | `HarvestsAtRunTime` is violated |

Why the bounds are enough. Two workers are all that can differ: every forced
harvest has the same code and event, and the races are pairwise (a row's insert,
a file's writers, a league's writers). Three results over two years give a result
before, at and after a year's end. Two events let one's exception starve the
other. Four items give each athlete a row, or one athlete four runs, or two
leagues of two, with all ties in between. A factor of 8 has a half and a quarter that
differ, and a counter of 4 bits can start above the factor and wrap. Two events let the
loop be stopped before, between and after them. Two transactions are what a deadlock
takes, and pages with the same runners in opposite orders give one. Two leagues can be
published one after the other, or one be replaced under a reader; two requests for years
are what it takes for one to overtake the other. The properties that fail in the second group of runs are those that
passing runs check without the failure that breaks them, so the two groups
together say which failure a promise does not survive.

`PopulatedIsStored` has a condition, `Obstructed`, that names every page on which each
harvest ends: one of the page's event up to the page, or of an event harvested before it.
The condition may come and go, so the property asks for the page only if it is absent
again and again. Each of its four parts (`FailsToDate`, `FailsToRead`, `FailsToParse`,
`FailsToInsert`) is needed: without any one of them `harvest_timer` or `harvest_live` finds
a page that is never stored. That they hold with it says that nothing else starves a
page, neither failed statements nor downloads, nor a daemon that dies and comes back.

Fairness. `WF(TimerFires)`: Poco's timer is periodic (App:416), and the daemon is started
again when it is gone (`Restart=always` in `/doc/prpld.service`, the Deployments of
`/deploy/kubernetes`). `WF(ClosesPageFile(w))`: a file is written once, `WritePageFile`
being the prefixes a reader may see of it meanwhile. `WF(Step(w))` for
each worker: threads are scheduled, and no step of a worker waits for a condition
another could keep from it forever: a locked row is released by its holder's
commit. The website is not fair: it need not publish or populate anything. The
liveness properties only speak of pages that were populated, results that were
stored. `Daemon`: `WF(SkipsFiring \/ Fires)`, the timer is periodic;
`WF(Harvester)`, its thread runs and the harvest of an event ends, which is
`WF(Step(Timer))` seen from outside; `WF(MainStops)`, main runs once it is told to stop.
Nobody need tell it, the clock need not tick, and nothing is assumed of requests.
`AthleteReconcile`: `WF(Step(e))` for each event: threads run, the database grants a
free lock, and the timer begins a failed result again. Failures (`Fail`) are bounded;
duplicate keys and deadlocks are not, and `ResultsGetStored` holds since each
presupposes another transaction that commits or is given its lock.
Visitors and their browsers are not fair.

## 4. The proofs

`ResultsHarvest_proofs` proves for every set of events and workers, every
assignment of years, every choice of the pages that the table of section 2 names and every value of
the bounds:

| Theorem | Says |
| --- | --- |
| `TypeCorrect` | `Spec => []TypeOK` |
| `BirthdayFirst` | `Spec => []ResultNeedsBirthday` |
| `LeaguesAreOfStoredResults` | `Spec => []LeagueOfStoredResults` |
| `StoredForGood` | `Spec => ResultsArePermanent` |
| `HarvestImplementsArchive` | `Spec => ImplementsArchive` |

They rest on the constants' assumptions (`WorkersAssumption` ... `BoundsAssumption`)
and on one inductive invariant, `IInv`: the three invariants and

* `WorkerSound(w)`: a worker's locals agree with the tables. A birthday it holds is
  in the table; what it has seen, counted or named as latest is stored; the year
  it is about to write is that of its latest result; at a commit the row is still
  absent and the event dated. Without it a commit could store for an undated event.
* `OneInserter`: of two workers at their commit, no two insert the same row. This is
  the unique key's lock, and what makes results permanent under concurrency: the
  second commit would otherwise overwrite the first.

The proof that `Next` preserves `IInv` has one lemma per action or group of actions
that leave the same variables alone, and one step per conjunct they can disturb.
The refinement maps `SetBirthday` to `DateEvent`, `CommitResult` to `StoreResult`,
`CommitYear` and `CommitLastYear` to `ReplaceLeague`, and everything else to a
stutter.

`TimerAlone_proofs` is about what does not survive everything. Its theorems have
`Alone` or `Quiet` as a condition on the behaviour so far: no update was forced; nor was
the daemon killed, a download cut short, or a statement failed. The bounds stay arbitrary.

| Theorem | Says |
| --- | --- |
| `ResultsAreStoredAsCached` | `Spec => [](Alone => StoredAsCached)` |
| `LeaguesOfOneYearGrow` | without forced updates, the league of an event that is `OneYear` grows in every step |
| `LeaguesGrowWithoutYearEnds` | if every event is `OneYear`, `Spec /\ []Alone => LeaguesGrow` |
| `LeaguesBehindAreDue` | if every event is `OneYear` and `Readable`, `Spec => [](Quiet => LeagueBehindIsDue)` |

None of the conditions can be spared, and the runs of section 3 show it for most of them:

* A second harvest may read what the timer is still writing, and store a part although
  the file becomes whole. Crashes, failed statements and downloads, failed or cut short,
  may come as they like; a part may be stored then, and its file tells. `FileInv` says
  that a file is what the last save left or is the one that the timer has open, and that
  what the timer is about to insert of a readable page is what it has fetched or read; the
  row of a page being fetched or saved is absent unless the page is `Redated`.
* A forced update can overtake the timer (`league_overtaken`). Crashes and errors
  cannot make a league shrink: `GrowInv` says that the timer's scan passes over no result
  that has items, that it rebuilds either all results' league or none, and that what it
  writes has everything that is stored with items by then. `OneYear` (all results of an
  event are of one league year) is the year's end that `league_boundary` shows.
* A crash or an error after a result's commit loses `changedLeagueYears`
  (`league_stale`). `Due` says that a result is counted or its year is in the timer's
  `changed`, and `DueLocal` what it takes to stay so: the changed years are non-empty
  only with a birthday, which is why none is dropped by the branch without one, and a
  result listed and stored is one that the harvest has seen.
* `Readable` (no page of the event makes the parser throw, lacks its table or its league
  year, or is redated): each of these ends a harvest, and if years are changed by then the
  end takes them along, as a malformed page does that was cached before the event had its
  birthday. The results so lost are `league_stale`'s. `harvest_live`, whose instance has
  such ends where no year is changed yet, checks the same statement.

`LeagueTable_proofs`, for every finite set of athletes, every set of items and every
bound:

| Theorem | Says |
| --- | --- |
| `TableTypeCorrect` | `Spec => []TypeOK` |
| `CommittedLeagueIsRanked` | `Spec => []LeagueIsRanked` |
| `CommittedGendersAreRanked` | `Spec => []GendersAreRanked` |
| `CommittedLeagueIsSum` | `Spec => LeagueIsSumOfItems` |
| `PointsAreBounded` | a committed athlete has at most `MaxPoints` points per counted run |

The invariant says of the ranking loop that whoever has a row is ahead of whoever has
none, that a row holds its athlete's totals, that `position` and `genderPosition` count
the rows, and that rows so far are ranked. It is needed since the next row's position
is a counter, and only this ties the counter to the athletes above. The proof's other
half is about cardinalities: a set of ranked athletes grows by one.

The sum is a recursive function over the items read. That it is defined at all, and what
it ends in, would take an induction over the items; it is carried by the invariant
instead: `TallyIsSum` says that a running total (`Totals`) exists, and that each of them
ends in the athlete's points in the map. Both go from one `ReadItem` to the next, and
`PointsOfRunsIsTotal` turns them into the value of the recursion. `RowsAreOfMap` takes
the sums into the rows, and `Commit` is the only step that changes the league.
`PointsAreBounded` is the reason why sums need no width.

`HarvestTimer_proofs`, for every factor and every width and first value of the counter:

| Theorem | Says |
| --- | --- |
| `TimerTypeCorrect` | `Spec => []TypeOK` |
| `SkipsAreBounded` | `Spec => []SkipsBounded` |
| `SaturdaySkipsAreFewer` | `Spec => SaturdayIsFaster` |

The invariant is `CounterKeepsUp`: after a skip the counter is below the factor and at
least the number of skips less one. The one is for the counter that wraps at the first
firing; being below the factor is why none wraps at a later one.

`Daemon_proofs`, for any number of events and errors, and again any factor and counter:

| Theorem | Says |
| --- | --- |
| `DaemonImplementsTimer` | `DaemonSpec` implies `HarvestTimer`'s `Spec` |
| `DaemonSkipsAreBounded`, `DaemonSaturdaySkipsAreFewer` | what is proved of the timer holds in the daemon |
| `DaemonTypeCorrect` | `DaemonSpec => []DaemonTypeOK` |
| `HarvesterAlwaysHasPool` | `DaemonSpec => []HarvesterHasPool` |
| `HarvestStopsSoon` | `DaemonSpec => []StopsBeforeNextEvent` |
| `PagesAlwaysEndWhole` | `DaemonSpec => []PagesEndWhole` |

The invariants tie where main is to the pool, the flag and the timer's thread: a
harvest runs only while the timer's thread is on or ending, which it is not any more
when main cleans up. An event is begun after the stop only from `begin`, which is
entered only before it. A page is cut only from `Send` on, by a read that fails or a
value that is not there.

`AthleteReconcile_proofs`, for any events, athletes, pages and number of failures:

| Theorem | Says |
| --- | --- |
| `RowsTypeCorrect` | `Spec => []TypeOK` |
| `StoredRunnersHaveRows` | `Spec => []RunnersAreAthletes` |
| `NamesAreOfStored` | `Spec => []NamesArePrinted` |

`RowInv` is the strengthening: who waits is at a runner; what a transaction has seen in
`ATHLETE` is still there, as rows are never removed (`KnownStays`); every runner it has
passed has a row, committed or its own (`PassedHaveRow`); its own rows are lines of its
page (`WritesAreOfPage`). The third is what a commit turns into the theorem.

`LeaguePages_proofs`, for any assignment of years besides:

| Theorem | Says |
| --- | --- |
| `SiteImplementsReconcile` | `SiteSpec` implies `AthleteReconcile`'s `Spec` |
| `PagesTypeCorrect` | `SiteSpec => []PagesTypeOK` |
| `RowsHaveNames` | `SiteSpec => []EveryRowHasName` |
| `CountedRunsAreListed` | `SiteSpec => []RunsAreListed` |

A row has a name since its league counts stored results, their runners have rows by the
theorem above, and the athletes are read later. `RunsInHand` says of an athlete page
that a run it has counted is listed already, or its year's results are read next and the
run is the athlete's in the page's event, unless the page has been cut.

`LeagueForm_proofs`, for any number of requests for years on the way:

| Theorem | Says |
| --- | --- |
| `FormImplementsSite` | `FormSpec` implies `LeaguePages`' `SiteSpec`: all theorems above hold with the form |
| `FormTypeCorrect` | `FormSpec => []FormTypeOK` |
| `YearsAreOfSelected` | `FormSpec => []YearsFollowEvent` |
| `OfferedYearsExist` | `FormSpec => []OfferedYearsHaveLeagues` |

`LastIsSelected` says that as long as replies come in order the last request is for the
selected event, so the reply that ends the wait is the right one. `RepliesHaveLeagues`
says that a reply was true when it was given and stays so, since no league is taken back
(`LeaguesStay`).

All invariants were checked by TLC on the runs' instances (of `TallyIsSum`, whose running
totals are any functions, that `tally` has the value of `PointsOfRuns`), and those of
`TimerAlone_proofs` with crashes, errors and forced updates besides, before they were
proved. Every invariant and action property of the passing runs is now stated by a theorem,
`StoredAsCached`, `LeaguesGrow` and `LeagueBehindIsDue` under the conditions above.

Only model-checked: the liveness properties (`PopulatedIsStored`, `StoredIsCounted`,
`HarvestsUntilStopped`, `DaemonStops`, `ResultsGetStored`), since fairness is beyond the
prover, and the violations of the second group of runs.

## 5. What the models say about the code

* `league_boundary`: the first result of a new league year is counted in the old
  year's league and is missing from the new one (RC:501).
* `cache_poison`: a crash while a page is saved leaves a file that is taken for the
  page ever after; its result is never stored (Cache.cpp:89).
* `league_stale`: a crash, or any exception, after a result's commit and before the
  league's leaves the league without it until another result of the year is stored
  (RC:353, 367).
* `league_overtaken`: with two harvests of an event the older read can be written
  last, and the league loses a result (RC:433, 533).
* `saturday_throttle`: the hours from 9 to 12 of a Saturday are throttled like those
  from 12 to 14, by a condition that is always true (RC:89).
* `hour_lost`: the hour of a time of three parts is never read (Scraper.cpp:181), so
  1:15:59 is stored as 15:59, and a run of 1:00:00 is not counted at all.

Nor does the code give what follows; nothing in the repository promises it, so it is in
the models and in the conditions of their properties and not a violation of one:

* A truncated download is stored and cached as the page, for good (Scraper.cpp:132).
* One page can end every harvest: a result page or a history without a table kills the
  daemon, a stored result whose date changes meets the unique key, a common year's result
  of an event born on a 29 February has no league year, a row of an event whose first
  result was never parsed cannot be inserted, and a page cached with a row that cannot be
  parsed throws. What comes behind it, in the event and in the events after it, is not
  harvested (`Obstructed`).
* A run without a gender position cuts its athlete's page in the middle of a table
  (AthleteHandler.cpp:157), and a league of an event born on a 29 February its page before
  the form's script (EventLeagueHandler.cpp:213).

What does hold, with any number of threads, crashes and errors: results are never
lost, changed or doubled, never stored undated, and leagues never count what is
not stored; the table that is committed is ranked; and the throttle, although its counter
lives in memory that is gone, never skips more than its factor. Transactions that meet
in `ATHLETE` may fail each other, but every stored result has its athletes and every
result is stored in the end. The pages are never read in one transaction and still fit
together, by the order of their statements: to read athletes before items, or runs
before their count, would break them. The form's years are those of the selected event
unless replies were lost or out of order; then they may not be, as `league.js` does not
look at which event a reply is for: `YearsFollowEvent` has `inOrder` as its condition.
The stop is safe for the harvest and not for requests.

## 6. Not modelled

* A configuration that cannot be read, and which date is stored: the outcome for the
  harvest is a daemon that is not there, and `Redated`.
* `results.recreate-all-results` and `results.use-history-cache`, "useful for Testing"
  (RC:203) and off in every configuration of the repository, and with the second the
  history cache, which is otherwise written and never read. `recreate-all-leagues` is
  read (RC:422) and used nowhere. Of the first the removal of other events' results and
  of the second the history that never grows are listed as hazards without a property.
* What the scrapers do with the HTML tree and libtidy, `getNames`, URLs, HTML and
  formatting: string handling, of which the models keep the outcomes.
* Logging, `Param`, `FileRequestHandler`, the data objects, `ParsePageSAX` (unused), the
  build and `/deploy`: no state the properties speak of.
* jQuery and jQuery UI (`/assets/jquery-ui-1.12.1.custom`), vendored; `league.js` sees
  of them that a selector tells of a change and that replies come when they do.
* Which year the form preselects, and which panel of an athlete page is opened.

Liveness under fairness stays with TLC. Section `components` of `PROJECT.json` gives the
reason for each part.

## 7. Plan

1. `ResultsHarvest` with the two testing options, as an instance of its own, for the two
   hazards they bring.
2. The transaction of `AthleteReconcile` with an athlete that a page lists twice.
3. Proofs of the state predicates that liveness rests on: what a worker that does not
   step waits for, and that a circle of waits always has a victim.
