------------------------ MODULE ResultsHarvest_proofs ------------------------
(***************************************************************************)
(* Proofs about ResultsHarvest, for every set of events and of threads.    *)
(***************************************************************************)
EXTENDS ResultsHarvest, SequenceTheorems, TLAPS

-----------------------------------------------------------------------------
(* Type correctness.                                                       *)

LEMMA NoTaskType == NoTask \in Task
<1>1. (CHOOSE e \in Events : TRUE) \in Events
  BY EventsAssumption
<1>2. <<>> \in Seq(Events)
  OBVIOUS
<1>3. QED
  BY <1>1, <1>2 DEF NoTask, Task, Kinds, Files

(* Each of the ways a step of process ends leaves well-typed locals.       *)
LEMMA EndingsType ==
    ASSUME TypeOK, NEW w \in Workers
    PROVE  /\ Throw(w) => pc' \in [Workers -> Steps] /\ task' \in [Workers -> Task]
           /\ Return(w) => pc' \in [Workers -> Steps] /\ task' \in [Workers -> Task]
           /\ Die => pc' \in [Workers -> Steps] /\ task' \in [Workers -> Task]
           /\ \A n \in Numbers :
                 NextResult(w, n) => pc' \in [Workers -> Steps] /\ task' \in [Workers -> Task]
<1>1. /\ pc \in [Workers -> Steps]
      /\ task \in [Workers -> Task]
  BY DEF TypeOK
<1>2. Throw(w) => pc' \in [Workers -> Steps] /\ task' \in [Workers -> Task]
  BY <1>1, NoTaskType DEF Throw, Goto, Steps
<1>3. ASSUME Return(w) PROVE pc' \in [Workers -> Steps] /\ task' \in [Workers -> Task]
  <2>1. [NoTask EXCEPT !.queue = task[w].queue] \in Task
    BY <1>1, NoTaskType DEF Task
  <2>2. QED
    BY <1>1, <1>3, <2>1 DEF Return, Goto, Steps
<1>4. Die => pc' \in [Workers -> Steps] /\ task' \in [Workers -> Task]
  BY <1>1, NoTaskType DEF Die, Steps
<1>5. ASSUME NEW n \in Numbers, NextResult(w, n)
      PROVE  pc' \in [Workers -> Steps] /\ task' \in [Workers -> Task]
  <2>1. [task[w] EXCEPT !.todo = @ \ {n}, !.items = "absent", !.page = "none"] \in Task
    BY <1>1 DEF Task, Kinds, Files
  <2>2. task' = [task EXCEPT ![w] = [task[w] EXCEPT !.todo = @ \ {n}, !.items = "absent",
                                                    !.page = "none"]]
    BY <1>1, <1>5 DEF NextResult, Task
  <2>3. QED
    BY <1>1, <1>5, <2>1, <2>2 DEF NextResult, Goto, Steps
<1>6. QED
  BY <1>2, <1>3, <1>4, <1>5

LEMMA FirstIn == \A S : \A n \in First(S) : n \in S
BY DEF First

LEMMA TypeInit == Init => TypeOK
<1>1. NoTask \in Task
  BY NoTaskType
<1>2. NoLeague \in League
  BY DEF NoLeague, League
<1>3. QED
  BY <1>1, <1>2, NumbersAssumption, BoundsAssumption
  DEF Init, TypeOK, Steps, Kinds, Files

LEMMA ScrapedType ==
    ASSUME TypeOK, NEW e \in Events
    PROVE  Scraped(e) \subseteq Numbers
<1>1. listed[e] \in 0 .. MaxResult
  BY DEF TypeOK
<1>2. 1 .. listed[e] \subseteq Numbers
  BY <1>1, NumbersAssumption DEF Numbers
<1>3. QED
  BY <1>2 DEF Scraped

LEMMA TypeStep == TypeOK /\ [Next]_vars => TypeOK'
<1> SUFFICES ASSUME TypeOK, [Next]_vars PROVE TypeOK'
  OBVIOUS
<1> USE DEF Goto
<1>a. /\ pc \in [Workers -> Steps]
      /\ task \in [Workers -> Task]
  BY DEF TypeOK
<1>b. \A w \in Workers : /\ task[w] \in Task /\ Event(w) \in Events
                         /\ First(task[w].todo) \subseteq task[w].todo
                         /\ First(task[w].scan) \subseteq task[w].scan
                         /\ task[w].todo \subseteq Numbers /\ task[w].scan \subseteq Numbers
  BY <1>a, FirstIn DEF Task, Event
<1>c. \A w \in Workers, n \in Numbers : Page(w, n) \in Pages /\ YearOf(w, n) \in Years
  BY <1>b DEF Page, Pages, Event, YearOf, Years
<1>1. ASSUME NEW e \in Events, PublishResult(e) PROVE TypeOK'
  BY <1>1, NumbersAssumption DEF TypeOK, PublishResult, db, disk
<1>2. ASSUME NEW p \in Pages, PopulatePage(p) PROVE TypeOK'
  BY <1>2 DEF TypeOK, PopulatePage, db, disk
<1>3. ASSUME TimerFires PROVE TypeOK'
  <2>1. [task[Timer] EXCEPT !.queue = HarvestOrder] \in Task
    BY <1>b, EventsAssumption DEF Task, Workers
  <2>2. QED
    BY <1>3, <1>a, <2>1 DEF TypeOK, TimerFires, site, db, disk, Steps, Workers
<1>4. ASSUME NEW f \in Forcers, ForceUpdate(f) PROVE TypeOK'
  <2>1. <<ForcedEvent>> \in Seq(Events)
    BY EventsAssumption
  <2>2. [task[f] EXCEPT !.queue = <<ForcedEvent>>] \in Task
    BY <1>b, <2>1 DEF Task, Workers
  <2>3. QED
    BY <1>4, <1>a, <2>2, BoundsAssumption DEF TypeOK, ForceUpdate, site, db, disk, Steps, Workers
<1>5. ASSUME NEW w \in Workers, NEW n \in First(task[w].todo), ResultStep(w, n)
      PROVE  TypeOK'
  <2>n. n \in Numbers
    BY <1>b
  <2>p. Page(w, n) \in Pages
    BY <1>c, <2>n
  <2>e. /\ Throw(w) => pc' \in [Workers -> Steps] /\ task' \in [Workers -> Task]
        /\ Die => pc' \in [Workers -> Steps] /\ task' \in [Workers -> Task]
        /\ NextResult(w, n) => pc' \in [Workers -> Steps] /\ task' \in [Workers -> Task]
    BY EndingsType, <2>n
  <2>1. CASE SetBirthday(w, n)
    <3>1. [task[w] EXCEPT !.birthday = TRUE] \in Task
      BY <1>b DEF Task
    <3>2. task' \in [Workers -> Task]
      BY <2>1, <1>a, <3>1 DEF SetBirthday
    <3>3. QED
      BY <2>1, <3>2 DEF TypeOK, SetBirthday, site, disk
  <2>2. CASE YearFails(w, n) \/ SkipStored(w, n)
    BY <2>2, <2>e DEF TypeOK, YearFails, SkipStored, site, db, disk
  <2>3. CASE LookInCache(w, n)
    BY <2>3, <1>a DEF TypeOK, LookInCache, site, db, disk, Steps
  <2>4. CASE ReadCached(w, n)
    <3>1. ASSUME NEW items \in Kinds, ParsesTo(w, items)
          PROVE  pc' \in [Workers -> Steps] /\ task' \in [Workers -> Task]
      <4>1. [task[w] EXCEPT !.items = items] \in Task
        BY <1>b DEF Task
      <4>2. task' = [task EXCEPT ![w] = [task[w] EXCEPT !.items = items]]
        BY <3>1, <1>a DEF ParsesTo, Task
      <4>3. QED
        BY <3>1, <1>a, <4>1, <4>2 DEF ParsesTo, Steps
    <3>2. pc' \in [Workers -> Steps] /\ task' \in [Workers -> Task]
      BY <2>4, <3>1, <2>e DEF ReadCached, Kinds
    <3>3. QED
      BY <2>4, <3>2 DEF TypeOK, ReadCached, site, db, disk
  <2>5. CASE ReadTableless(w, n) \/ FetchTableless(w, n)
    BY <2>5, <2>e DEF TypeOK, ReadTableless, FetchTableless, Die, site, db
  <2>6. CASE FetchNothing(w, n)
    BY <2>6, <2>e, BoundsAssumption DEF TypeOK, FetchNothing, site, db, disk
  <2>f. ASSUME NEW page \in Files, NEW items \in Kinds, FetchedAs(w, page, items)
        PROVE  /\ pc' \in [Workers -> Steps] /\ task' \in [Workers -> Task]
               /\ UNCHANGED <<site, db, disk>>
    <3>1. [task[w] EXCEPT !.page = page, !.items = items] \in Task
      BY <1>b DEF Task
    <3>2. task' = [task EXCEPT ![w] = [task[w] EXCEPT !.page = page, !.items = items]]
      BY <2>f, <1>a DEF FetchedAs, Task
    <3>3. QED
      BY <2>f, <1>a, <3>1, <3>2 DEF FetchedAs, Steps
  <2>7. CASE FetchPage(w, n)
    BY <2>7, <2>f DEF TypeOK, FetchPage, Kinds, Files, site, db, disk
  <2>8. CASE FetchPageCut(w, n)
    <3>1. spent' \in [forced : 0 .. MaxForced, crashes : 0 .. MaxCrashes,
                      dbErrors : 0 .. MaxDbErrors, fetchErrors : 0 .. MaxFetchErrors,
                      cuts : 0 .. MaxCuts]
      BY <2>8, BoundsAssumption DEF TypeOK, FetchPageCut
    <3>2. CASE NextResult(w, n) /\ UNCHANGED <<site, db, disk>>
      BY <3>1, <3>2, <2>e DEF TypeOK, site, db, disk
    <3>3. CASE Die
      BY <3>1, <3>3, <2>e DEF TypeOK, Die, site, db
    <3>4. ASSUME NEW page \in {"some", "cell"}, NEW items \in {"empty", "part"},
                 FetchedAs(w, page, items)
          PROVE  TypeOK'
      <4>1. page \in Files /\ items \in Kinds
        BY DEF Files, Cuts, Kinds
      <4>2. QED
        BY <3>1, <3>4, <4>1, <2>f DEF TypeOK, site, db, disk
    <3>5. QED
      BY <2>8, <3>2, <3>3, <3>4 DEF FetchPageCut
  <2>9. CASE OpenPageFile(w, n) \/ WritePageFile(w, n) \/ ClosePageFile(w, n)
    <3>1. task[w].page \in Files /\ Cuts \subseteq Files /\ "bare" \in Files
      BY <1>b DEF Task, Files, Cuts
    <3>2. cache' \in [Pages -> Files] /\ saver' \in [Pages -> Workers \cup {Nobody}]
      BY <2>9, <2>p, <3>1 DEF TypeOK, OpenPageFile, WritePageFile, ClosePageFile
    <3>3. pc' \in [Workers -> Steps] /\ UNCHANGED <<site, db, task, spent>>
      BY <2>9, <1>a DEF OpenPageFile, WritePageFile, ClosePageFile, Steps
    <3>4. QED
      BY <3>2, <3>3 DEF TypeOK, site, db
  <2>10. CASE WriteBehindHole(w, n)
    BY <2>10, <1>a DEF TypeOK, WriteBehindHole, site, db, disk, Steps
  <2>11. CASE InsertFails(w, n)
    BY <2>11, <2>e DEF TypeOK, InsertFails, site, db, disk
  <2>12. CASE InsertResult(w, n)
    <3>a. [task[w] EXCEPT !.changed = @ \cup {YearOf(w, n)}] \in Task
      BY <1>b, <1>c, <2>n DEF Task
    <3>1. task' \in [Workers -> Task]
      BY <2>12, <1>a, <3>a DEF InsertResult
    <3>2. QED
      BY <2>12, <1>a, <3>1 DEF TypeOK, InsertResult, site, db, disk, Steps
  <2>13. CASE CommitResult(w, n)
    <3>1. task[w].items \in Kinds
      BY <1>b DEF Task
    <3>2. QED
      BY <2>13, <2>e, <2>p, <3>1 DEF TypeOK, CommitResult, site, disk
  <2>14. QED
    BY <1>5, <2>1, <2>2, <2>3, <2>4, <2>5, <2>6, <2>7, <2>8, <2>9, <2>10, <2>11, <2>12,
       <2>13 DEF ResultStep
<1>6. ASSUME NEW w \in Workers, NEW n \in First(task[w].scan), ScanStep(w, n)
      PROVE  TypeOK'
  <2>n. n \in Numbers /\ Page(w, n) \in Pages /\ YearOf(w, n) \in Years
    BY <1>b, <1>c
  <2>1. CASE SkipUnchanged(w, n)
    <3> DEFINE t == [task[w] EXCEPT !.scan = @ \ {n}, !.create = FALSE]
    <3>1. t \in Task
      BY <1>b DEF Task
    <3>2. task' = [task EXCEPT ![w] = t]
      BY <2>1, <1>a, <1>b DEF SkipUnchanged, Task
    <3>3. task' \in [Workers -> Task]
      BY <1>a, <3>1, <3>2
    <3>4. QED
      BY <2>1, <3>3 DEF TypeOK, SkipUnchanged, site, db, disk
  <2>2. CASE CountResult(w, n)
    <3> DEFINE counted == task[w].counted \cup
                              {m \in {n} : rows[Page(w, m)] \in {"part", "full"}}
               t1 == [task[w] EXCEPT !.counted = counted, !.create = TRUE]
               t2 == [t1 EXCEPT !.lastYear = YearOf(w, n), !.latest = n, !.scan = @ \ {n}]
    <3>1. counted \subseteq Numbers
      BY <1>b, <2>n DEF Task
    <3>2. t1 \in Task /\ t1.scan = task[w].scan
      BY <1>b, <3>1 DEF Task
    <3>3. t2 \in Task
      BY <3>2, <2>n DEF Task
    <3>a. \/ task' = [task EXCEPT ![w].counted = counted, ![w].create = TRUE]
          \/ task' = [task EXCEPT ![w].counted = counted, ![w].create = TRUE,
                                  ![w].lastYear = YearOf(w, n),
                                  ![w].latest = n, ![w].scan = @ \ {n}]
      BY <2>2 DEF CountResult
    <3> HIDE DEF counted
    <3>4. \/ task' = [task EXCEPT ![w] = t1] \/ task' = [task EXCEPT ![w] = t2]
      <4>1. [task EXCEPT ![w].counted = counted, ![w].create = TRUE]
                = [task EXCEPT ![w] = t1]
        BY <1>a, <1>b DEF Task
      <4>2. [task EXCEPT ![w].counted = counted, ![w].create = TRUE,
                         ![w].lastYear = YearOf(w, n), ![w].latest = n, ![w].scan = @ \ {n}]
                = [task EXCEPT ![w] = t2]
        BY <1>a, <1>b DEF Task
      <4>3. QED
        BY <3>a, <4>1, <4>2
    <3>5. pc' \in [Workers -> Steps]
      BY <2>2, <1>a DEF CountResult, Steps
    <3>6. task' \in [Workers -> Task]
      BY <3>2, <3>3, <3>4, <1>a
    <3>7. QED
      BY <2>2, <3>5, <3>6 DEF TypeOK, CountResult, site, db, disk
  <2>3. CASE CommitYear(w, n)
    <3>1. [latest |-> task[w].latest, counted |-> task[w].counted] \in League
      BY <1>b DEF Task, League
    <3>2. league' \in [Events \X Years -> League]
      BY <2>3, <3>1 DEF TypeOK, CommitYear, PublishLeague
    <3> DEFINE t == [task[w] EXCEPT !.counted = {}, !.lastYear = YearOf(w, n),
                                    !.latest = n, !.scan = @ \ {n}]
    <3>a. t \in Task
      BY <1>b, <2>n DEF Task
    <3>b. task' = [task EXCEPT ![w] = t]
      BY <2>3, <1>a, <1>b DEF CommitYear, Task
    <3>3. task' \in [Workers -> Task]
      BY <1>a, <3>a, <3>b
    <3>4. QED
      BY <2>3, <1>a, <3>2, <3>3 DEF TypeOK, CommitYear, PublishLeague, site, disk, Steps
  <2>4. QED
    BY <1>6, <2>1, <2>2, <2>3 DEF ScanStep
<1>7. ASSUME NEW w \in Workers, Step(w) PROVE TypeOK'
  <2>e. /\ Throw(w) => pc' \in [Workers -> Steps] /\ task' \in [Workers -> Task]
        /\ Return(w) => pc' \in [Workers -> Steps] /\ task' \in [Workers -> Task]
    BY EndingsType
  <2>1. CASE NextEvent(w)
    <3> DEFINE e == Head(task[w].queue)
               t == [NoTask EXCEPT !.event = e, !.queue = Tail(task[w].queue),
                                   !.birthday = birthday[e]]
    <3>1. task[w].queue \in Seq(Events) /\ task[w].queue # <<>>
      BY <2>1, <1>b DEF NextEvent, Task
    <3>2. e \in Events /\ Tail(task[w].queue) \in Seq(Events)
      BY <3>1, HeadTailProperties
    <3>3. birthday[e] \in BOOLEAN
      BY <3>2 DEF TypeOK
    <3>4. t \in Task
      BY <3>2, <3>3, NoTaskType DEF Task
    <3>5. task' = [task EXCEPT ![w] = t]
      BY <2>1 DEF NextEvent
    <3>6. task' \in [Workers -> Task]
      BY <3>4, <3>5, <1>a
    <3>7. QED
      BY <2>1, <1>a, <3>6 DEF TypeOK, NextEvent, site, db, disk, Steps
  <2>2. CASE FetchHistory(w)
    <3>a. [task[w] EXCEPT !.todo = Scraped(Event(w))] \in Task
      BY <1>b, ScrapedType DEF Task
    <3>3. task' \in [Workers -> Task]
      BY <2>2, <1>a, <3>a DEF FetchHistory
    <3>4. QED
      BY <2>2, <1>a, <3>3, BoundsAssumption DEF TypeOK, FetchHistory, site, db, disk, Steps
  <2>3. CASE ReadResults(w)
    <3>0. [task[w] EXCEPT !.seen = Recognised(Event(w))] \in Task
      BY <1>b DEF Task, Recognised, Stored
    <3>1. task' \in [Workers -> Task]
      BY <2>3, <1>a, <3>0 DEF ReadResults
    <3>2. QED
      BY <2>3, <1>a, <3>1 DEF TypeOK, ReadResults, site, db, disk, Steps
  <2>4. CASE EndResults(w)
    <3>1. Stored(Event(w)) \subseteq Numbers
      BY DEF Stored
    <3>2. [task[w] EXCEPT !.scan = Stored(Event(w)), !.seen = {}] \in Task
      BY <1>b, <3>1 DEF Task
    <3>3. pc' \in [Workers -> Steps] /\ task' \in [Workers -> Task]
      BY <2>4, <2>e, <3>2, <1>a DEF EndResults, Steps, Task
    <3>4. QED
      BY <2>4, <3>3 DEF TypeOK, EndResults, site, db, disk
  <2>5. CASE EndScan(w)
    <3>1. pc' \in [Workers -> Steps] /\ task' \in [Workers -> Task]
      BY <2>5, <2>e, <1>a DEF EndScan, Steps
    <3>2. QED
      BY <2>5, <3>1 DEF TypeOK, EndScan, site, db, disk
  <2>6. CASE OpenLeague(w)
    <3> DEFINE f == league[Key(w)] # NoLeague
    <3>0. [task[w] EXCEPT !.found = f] \in Task
      BY <1>b DEF Task
    <3>1. task' \in [Workers -> Task]
      BY <2>6, <1>a, <3>0 DEF OpenLeague
    <3>2. QED
      BY <2>6, <1>a, <3>1 DEF TypeOK, OpenLeague, site, db, disk, Steps
  <2>7. CASE LeagueInsertFails(w)
    BY <2>7, <2>e DEF TypeOK, LeagueInsertFails, site, db, disk
  <2>8. CASE WriteLeague(w)
    BY <2>8, <1>a DEF TypeOK, WriteLeague, site, db, disk, Steps
  <2>9. CASE CommitLastYear(w)
    <3>1. [latest |-> task[w].latest, counted |-> task[w].counted] \in League
      BY <1>b DEF Task, League
    <3>2. league' \in [Events \X Years -> League]
      BY <2>9, <3>1 DEF TypeOK, CommitLastYear, PublishLeague
    <3>3. QED
      BY <2>9, <2>e, <3>2 DEF TypeOK, CommitLastYear, PublishLeague, site, disk
  <2>10. CASE FetchHistoryCut(w)
    <3>1. spent' \in [forced : 0 .. MaxForced, crashes : 0 .. MaxCrashes,
                      dbErrors : 0 .. MaxDbErrors, fetchErrors : 0 .. MaxFetchErrors,
                      cuts : 0 .. MaxCuts]
      BY <2>10, BoundsAssumption DEF TypeOK, FetchHistoryCut
    <3>2. CASE Die
      BY <3>1, <3>2, EndingsType DEF TypeOK, Die, site, db
    <3>3. ASSUME NEW S \in SUBSET Scraped(Event(w)), task' = [task EXCEPT ![w].todo = S],
                 pc' = [pc EXCEPT ![w] = "results"], UNCHANGED <<site, db, disk>>
          PROVE  TypeOK'
      <4>1. [task[w] EXCEPT !.todo = S] \in Task
        BY <1>b, ScrapedType DEF Task
      <4>2. QED
        BY <1>a, <3>1, <3>3, <4>1 DEF TypeOK, site, db, disk, Steps
    <3>4. QED
      BY <2>10, <3>2, <3>3 DEF FetchHistoryCut
  <2>11. CASE FetchHistoryTableless(w)
    BY <2>11, EndingsType DEF TypeOK, FetchHistoryTableless, Die, site, db
  <2>12. QED
    BY <1>5, <1>6, <1>7, <2>1, <2>2, <2>3, <2>4, <2>5, <2>6, <2>7, <2>8, <2>9, <2>10, <2>11
    DEF Step
<1>8. ASSUME NEW w \in Workers, DbError(w) PROVE TypeOK'
  BY <1>8, EndingsType, BoundsAssumption DEF TypeOK, DbError, site, db, disk
<1>9. ASSUME Crash PROVE TypeOK'
  <2>1. pc' \in [Workers -> Steps] /\ task' \in [Workers -> Task]
    BY <1>9, NoTaskType DEF Crash, Die, Steps
  <2>2. QED
    BY <1>9, <2>1, BoundsAssumption DEF TypeOK, Crash, Die, site, db
<1>10. CASE UNCHANGED vars
  BY <1>10 DEF TypeOK, vars, site, db, disk
<1>11. QED
  BY <1>1, <1>2, <1>3, <1>4, <1>7, <1>8, <1>9, <1>10 DEF Next

(* Type correctness holds in every instance.                               *)
THEOREM TypeCorrect == Spec => []TypeOK
BY TypeInit, TypeStep, PTL DEF Spec

-----------------------------------------------------------------------------
(* The inductive invariant.  A worker's locals run behind the database:    *)
(* what it holds of the birthday and of the stored results stays true      *)
(* because both only grow, and its insert is covered by the row's lock.    *)

ScanSound(w) ==
    LET t == task[w]
    IN  /\ t.scan \subseteq Stored(t.event)
        /\ t.counted \subseteq Stored(t.event)
        /\ t.create => t.latest # 0
        /\ t.latest = 0 <=> t.lastYear = 0
        /\ t.latest # 0 => /\ t.latest \in Stored(t.event)
                           /\ LeagueYear[<<t.event, t.latest>>] = t.lastYear
        /\ pc[w] \in {"league", "write", "publish"} => t.latest # 0 /\ t.counted # {}

InsertSound(w) ==
    /\ pc[w] \in {"save", "saving", "store", "commit"} => task[w].items # "absent"
    /\ pc[w] = "commit" => /\ task[w].birthday
                           /\ \A n \in First(task[w].todo) : rows[Page(w, n)] = "absent"

WorkerSound(w) ==
    /\ task[w].birthday => birthday[Event(w)]
    /\ InsertSound(w)
    /\ ScanSound(w)

OneInserter ==
    \A v, w \in Workers : v # w /\ pc[v] = "commit" /\ pc[w] = "commit" /\ Event(v) = Event(w)
                          => First(task[v].todo) \cap First(task[w].todo) = {}

IInv ==
    /\ TypeOK
    /\ ResultNeedsBirthday
    /\ LeagueOfStoredResults
    /\ OneInserter
    /\ \A w \in Workers : WorkerSound(w)

(* The tables only grow in this step.                                      *)
Grows == /\ \A e \in Events : birthday[e] => birthday'[e]
         /\ \A p \in Pages : rows[p] # "absent" => rows'[p] # "absent"

(* A worker that takes no part in a step stays sound if the step leaves    *)
(* the row it is inserting alone.                                          *)
LEMMA WorkerFrame ==
    ASSUME TypeOK, NEW v \in Workers, WorkerSound(v), Grows,
           pc'[v] = pc[v], task'[v] = task[v],
           pc[v] = "commit" => \A n \in First(task[v].todo) : rows'[Page(v, n)] = rows[Page(v, n)]
    PROVE  WorkerSound(v)'
<1>1. task[v] \in Task /\ Event(v) \in Events /\ Event(v)' = Event(v)
  BY DEF TypeOK, Task, Event
<1>2. \A n : Page(v, n)' = Page(v, n)
  BY DEF Page
<1>3. Stored(Event(v)) \subseteq Stored(Event(v))'
  BY <1>1 DEF Stored, Grows, Pages
<1>4. (task[v].birthday => birthday[Event(v)])'
  BY <1>1 DEF WorkerSound, Grows
<1>5. InsertSound(v)'
  BY <1>2 DEF WorkerSound, InsertSound
<1>6. ScanSound(v)'
  BY <1>1, <1>3 DEF WorkerSound, ScanSound, Event
<1>7. QED
  BY <1>4, <1>5, <1>6 DEF WorkerSound

(* A worker between two events, or idle, holds nothing that could be wrong.*)
LEMMA FreshWorker ==
    ASSUME NEW w \in Workers, pc'[w] \in {"idle", "begin", "history"},
           NEW q, NEW b, NEW e,
           task'[w] = [NoTask EXCEPT !.event = e, !.queue = q, !.birthday = b],
           b => birthday'[e]
    PROVE  WorkerSound(w)'
<1>1. /\ task'[w].event = e /\ task'[w].birthday = b
      /\ task'[w].scan = {} /\ task'[w].counted = {} /\ task'[w].create = FALSE
      /\ task'[w].latest = 0 /\ task'[w].lastYear = 0
  BY DEF NoTask
<1>2. QED
  BY <1>1 DEF WorkerSound, InsertSound, ScanSound, Event

LEMMA EndsFresh ==
    ASSUME TypeOK, NEW w \in Workers, Throw(w) \/ Return(w) \/ Die
    PROVE  WorkerSound(w)' /\ pc'[w] # "commit"
<1>1. pc \in [Workers -> Steps] /\ task \in [Workers -> Task]
  BY DEF TypeOK
<1>2. \E q : task'[w] = [NoTask EXCEPT !.queue = q]
  <2>1. NoTask = [NoTask EXCEPT !.queue = <<>>]
    BY DEF NoTask
  <2>2. QED
    BY <1>1, <2>1 DEF Throw, Return, Die
<1>3. PICK q : task'[w] = [NoTask EXCEPT !.queue = q]
  BY <1>2
<1>4. task'[w] = [NoTask EXCEPT !.event = NoTask.event, !.queue = q, !.birthday = FALSE]
  BY <1>3 DEF NoTask
<1>5. pc'[w] \in {"idle", "begin"}
  BY <1>1 DEF Throw, Return, Die, Goto
<1>6. QED
  BY <1>4, <1>5, FreshWorker

(* A worker whose step leaves the locals of the league scan alone.         *)
LEMMA SoundOutsideScan ==
    ASSUME TypeOK, NEW w \in Workers, WorkerSound(w), Grows,
           task'[w].event = task[w].event,
           task'[w].scan = task[w].scan, task'[w].counted = task[w].counted,
           task'[w].create = task[w].create, task'[w].latest = task[w].latest,
           task'[w].lastYear = task[w].lastYear,
           task'[w].birthday => birthday'[task[w].event],
           pc'[w] \in {"league", "write", "publish"}
               => pc[w] \in {"league", "write", "publish"},
           InsertSound(w)'
    PROVE  WorkerSound(w)'
<1>1. task[w] \in Task
  BY DEF TypeOK
<1>2. Stored(task[w].event) \subseteq Stored(task[w].event)'
  BY <1>1 DEF Stored, Grows, Pages, Task
<1>3. ScanSound(w)'
  BY <1>1, <1>2 DEF WorkerSound, ScanSound
<1>4. QED
  BY <1>3 DEF WorkerSound, Event

(* A step of one worker that leaves the tables alone and does not insert.  *)
LEMMA LocalStep ==
    ASSUME IInv, TypeOK', UNCHANGED db, NEW w \in Workers,
           \A v \in Workers \ {w} : pc'[v] = pc[v] /\ task'[v] = task[v],
           pc'[w] # "commit", WorkerSound(w)'
    PROVE  IInv'
<1>1. Grows
  BY DEF Grows, db
<1>2. ASSUME NEW v \in Workers PROVE WorkerSound(v)'
  <2>1. CASE v = w
    BY <2>1
  <2>2. CASE v # w
    <3>1. pc'[v] = pc[v] /\ task'[v] = task[v] /\ rows' = rows
      BY <2>2 DEF db
    <3>2. QED
      BY <1>1, <3>1, WorkerFrame DEF IInv
  <2>3. QED
    BY <2>1, <2>2
<1>3. OneInserter'
  BY DEF IInv, OneInserter, Event
<1>4. ResultNeedsBirthday' /\ LeagueOfStoredResults'
  BY DEF IInv, ResultNeedsBirthday, LeagueOfStoredResults, Stored, db
<1>5. QED
  BY <1>2, <1>3, <1>4 DEF IInv

LEMMA IInvInit == Init => IInv
<1> SUFFICES ASSUME Init PROVE IInv
  OBVIOUS
<1>1. TypeOK
  BY TypeInit
<1>2. ResultNeedsBirthday /\ LeagueOfStoredResults /\ OneInserter
  BY DEF Init, ResultNeedsBirthday, LeagueOfStoredResults, OneInserter, Pages
<1>3. ASSUME NEW w \in Workers PROVE WorkerSound(w)
  <2>1. pc[w] = "idle" /\ task[w] = NoTask
    BY DEF Init
  <2>2. QED
    BY <2>1 DEF WorkerSound, InsertSound, ScanSound, NoTask
<1>4. QED
  BY <1>1, <1>2, <1>3 DEF IInv

(* The end of the daemon.                                                  *)
LEMMA DieSound ==
    ASSUME IInv, TypeOK', Die
    PROVE  IInv'
<1>1. \A w \in Workers : WorkerSound(w)' /\ pc'[w] # "commit"
  BY EndsFresh DEF IInv
<1>2. UNCHANGED db
  BY DEF Die
<1>3. QED
  BY <1>1, <1>2 DEF IInv, OneInserter, ResultNeedsBirthday, LeagueOfStoredResults, Stored, db

(* Steps of the loop over the scraped results.                             *)
LEMMA IInvResultStep ==
    ASSUME IInv, TypeOK', NEW w \in Workers, NEW n \in First(task[w].todo), ResultStep(w, n)
    PROVE  IInv'
<1> USE DEF Goto
<1>a. /\ pc \in [Workers -> Steps] /\ task \in [Workers -> Task]
      /\ task[w] \in Task /\ WorkerSound(w)
  BY DEF IInv, TypeOK
<1>b. n \in Numbers /\ Page(w, n) \in Pages
  BY <1>a, FirstIn DEF Task, Page, Pages
<1>c. ASSUME NextResult(w, n), Grows PROVE WorkerSound(w)' /\ pc'[w] # "commit"
  <2>1. pc'[w] = "loop"
    BY <1>a, <1>c DEF NextResult
  <2>2. task'[w] = [task[w] EXCEPT !.todo = @ \ {n}, !.items = "absent", !.page = "none"]
    BY <1>a, <1>c DEF NextResult, Task
  <2>3. InsertSound(w)'
    BY <2>1 DEF InsertSound
  <2>4. /\ task'[w].event = task[w].event
        /\ task'[w].scan = task[w].scan /\ task'[w].counted = task[w].counted
        /\ task'[w].create = task[w].create /\ task'[w].latest = task[w].latest
        /\ task'[w].lastYear = task[w].lastYear /\ task'[w].birthday = task[w].birthday
    BY <1>a, <2>2 DEF Task
  <2>5. task'[w].birthday => birthday'[task[w].event]
    BY <1>a, <1>c, <2>4 DEF WorkerSound, Event, Grows, Task
  <2>6. QED
    BY <1>a, <1>c, <2>1, <2>3, <2>4, <2>5, SoundOutsideScan DEF IInv
<1>d. ASSUME UNCHANGED db, \A v \in Workers \ {w} : pc'[v] = pc[v] /\ task'[v] = task[v],
             NextResult(w, n) \/ Throw(w)
      PROVE  IInv'
  <2>1. Grows
    BY <1>d DEF Grows, db
  <2>2. WorkerSound(w)' /\ pc'[w] # "commit"
    BY <1>c, <1>d, <2>1, EndsFresh DEF IInv
  <2>3. QED
    BY <1>d, <2>2, LocalStep
(* A step that only moves w on to another step of fetching the page.       *)
<1>e. ASSUME UNCHANGED db, \A v \in Workers \ {w} : pc'[v] = pc[v] /\ task'[v] = task[v],
             pc'[w] \in {"fetch", "read", "save", "saving", "store"},
             NEW items \in Kinds, NEW page \in Files,
             task'[w] = [task[w] EXCEPT !.items = items, !.page = page],
             pc'[w] \in {"save", "saving", "store"} => items # "absent"
      PROVE  IInv'
  <2>1. Grows
    BY <1>e DEF Grows, db
  <2>2. InsertSound(w)'
    BY <1>a, <1>e DEF InsertSound, Task
  <2>3. WorkerSound(w)'
    BY <1>a, <1>e, <2>1, <2>2, SoundOutsideScan DEF IInv, WorkerSound, Event, Task, db
  <2>4. QED
    BY <1>e, <2>3, LocalStep
<1>1. CASE SetBirthday(w, n)
  <2>1. /\ task'[w] = [task[w] EXCEPT !.birthday = TRUE]
        /\ \A v \in Workers \ {w} : task'[v] = task[v]
        /\ pc' = pc /\ rows' = rows /\ league' = league
        /\ birthday' = [birthday EXCEPT ![Event(w)] = TRUE]
        /\ pc[w] = "loop"
    BY <1>1, <1>a DEF SetBirthday
  <2>2. Grows /\ birthday'[task[w].event]
    BY <1>a, <2>1 DEF Grows, IInv, TypeOK, Event, Task
  <2>3. WorkerSound(w)'
    BY <1>a, <2>1, <2>2, SoundOutsideScan DEF IInv, InsertSound, Task
  <2>4. ASSUME NEW v \in Workers \ {w} PROVE WorkerSound(v)'
    BY <2>1, <2>2, WorkerFrame DEF IInv
  <2>5. OneInserter'
    BY <2>1 DEF IInv, OneInserter, Event
  <2>6. ResultNeedsBirthday'
    BY <2>1, <2>2 DEF IInv, ResultNeedsBirthday, Grows, Pages
  <2>7. LeagueOfStoredResults'
    BY <2>1 DEF IInv, LeagueOfStoredResults, Stored
  <2>8. QED
    BY <2>3, <2>4, <2>5, <2>6, <2>7 DEF IInv
<1>2. CASE YearFails(w, n) \/ SkipStored(w, n)
  BY <1>2, <1>a, <1>d DEF YearFails, SkipStored, NextResult, Throw, db
<1>3. CASE LookInCache(w, n)
  <2>1. /\ task'[w] = [task[w] EXCEPT !.items = task[w].items, !.page = task[w].page]
        /\ task[w].items \in Kinds /\ task[w].page \in Files
    BY <1>3, <1>a DEF LookInCache, Task
  <2>2. QED
    BY <1>3, <1>a, <1>e, <2>1 DEF LookInCache, db
<1>4. CASE ReadCached(w, n)
  <2>1. ASSUME NEW items \in {"part", "full"}, ParsesTo(w, items) PROVE IInv'
    <3>1. /\ task'[w] = [task[w] EXCEPT !.items = items, !.page = task[w].page]
          /\ items \in Kinds /\ task[w].page \in Files
      BY <1>a, <2>1 DEF ParsesTo, Task, Kinds
    <3>2. QED
      BY <1>4, <1>a, <1>e, <2>1, <3>1 DEF ReadCached, ParsesTo, db
  <2>2. CASE NextResult(w, n) \/ Throw(w)
    BY <1>4, <1>a, <1>d, <2>2 DEF ReadCached, NextResult, Throw, db
  <2>3. QED
    BY <1>4, <2>1, <2>2 DEF ReadCached
<1>f. ASSUME NEW page \in Files, NEW items \in {"empty", "part", "full"},
             FetchedAs(w, page, items)
      PROVE  IInv'
  <2>1. task'[w] = [task[w] EXCEPT !.items = items, !.page = page] /\ items \in Kinds
    BY <1>a, <1>f DEF FetchedAs, Task, Kinds
  <2>2. /\ UNCHANGED db /\ \A v \in Workers \ {w} : pc'[v] = pc[v] /\ task'[v] = task[v]
        /\ pc'[w] = "save"
    BY <1>a, <1>f DEF FetchedAs, db
  <2>3. QED
    BY <1>e, <2>1, <2>2
<1>5. CASE ReadTableless(w, n) \/ FetchTableless(w, n)
  BY <1>5, DieSound DEF ReadTableless, FetchTableless
<1>6. CASE FetchNothing(w, n)
  BY <1>6, <1>a, <1>d DEF FetchNothing, NextResult, db
<1>7. CASE FetchPage(w, n)
  BY <1>7, <1>f DEF FetchPage, Files
<1>8. CASE FetchPageCut(w, n)
  <2>1. CASE NextResult(w, n) /\ UNCHANGED <<site, db, disk>>
    BY <1>a, <1>d, <2>1 DEF NextResult, db
  <2>2. CASE Die
    BY <2>2, DieSound
  <2>3. ASSUME NEW page \in {"some", "cell"}, NEW items \in {"empty", "part"},
               FetchedAs(w, page, items)
        PROVE  IInv'
    BY <1>f, <2>3 DEF Files, Cuts
  <2>4. QED
    BY <1>8, <2>1, <2>2, <2>3 DEF FetchPageCut
<1>12. CASE \/ OpenPageFile(w, n) \/ WritePageFile(w, n) \/ ClosePageFile(w, n)
            \/ WriteBehindHole(w, n)
  <2> USE DEF OpenPageFile, WritePageFile, ClosePageFile, WriteBehindHole
  <2>1. /\ task'[w] = [task[w] EXCEPT !.items = task[w].items, !.page = task[w].page]
        /\ task[w].items \in Kinds /\ task[w].page \in Files
    BY <1>12, <1>a DEF Task
  <2>2. task[w].items # "absent"
    BY <1>12, <1>a DEF WorkerSound, InsertSound
  <2>3. /\ UNCHANGED db /\ \A v \in Workers \ {w} : pc'[v] = pc[v] /\ task'[v] = task[v]
        /\ pc'[w] \in {"saving", "store"}
    BY <1>12, <1>a DEF db
  <2>4. QED
    BY <1>e, <2>1, <2>2, <2>3
<1>9. CASE InsertFails(w, n)
  BY <1>9, <1>a, <1>d DEF InsertFails, Throw, db
<1>10. CASE InsertResult(w, n)
  <2>1. /\ task'[w] = [task[w] EXCEPT !.changed = @ \cup {YearOf(w, n)}]
        /\ \A v \in Workers \ {w} : pc'[v] = pc[v] /\ task'[v] = task[v]
        /\ UNCHANGED db /\ pc'[w] = "commit" /\ pc[w] = "store"
        /\ task[w].birthday /\ rows[Page(w, n)] = "absent" /\ ~RowLocked(w, n)
    BY <1>10, <1>a DEF InsertResult, db
  <2>2. Grows
    BY <2>1 DEF Grows, db
  <2>3. /\ task'[w].todo = task[w].todo /\ task'[w].event = task[w].event
        /\ task'[w].items = task[w].items /\ task'[w].birthday = task[w].birthday
        /\ task'[w].scan = task[w].scan /\ task'[w].counted = task[w].counted
        /\ task'[w].create = task[w].create /\ task'[w].latest = task[w].latest
        /\ task'[w].lastYear = task[w].lastYear
    BY <1>a, <2>1 DEF Task
  <2>4. \A m \in First(task[w].todo) : m = n
    BY <1>a, <1>b DEF First, Task, Numbers
  <2>5. InsertSound(w)'
    BY <1>a, <2>1, <2>3, <2>4 DEF InsertSound, WorkerSound, Page, db
  <2>6. WorkerSound(w)'
    BY <1>a, <2>1, <2>2, <2>3, <2>5, SoundOutsideScan DEF IInv, WorkerSound, Event, db
  <2>7. ASSUME NEW v \in Workers \ {w} PROVE WorkerSound(v)'
    BY <2>1, <2>2, WorkerFrame DEF IInv, db
  <2>8. OneInserter'
    <3>1. ASSUME NEW v \in Workers \ {w}, pc[v] = "commit", Event(v) = Event(w)
          PROVE  First(task[v].todo) \cap First(task[w].todo) = {}
      BY <2>1, <2>4, <3>1 DEF RowLocked
    <3>2. \A v \in Workers : Event(v)' = Event(v) /\ task'[v].todo = task[v].todo
      BY <2>1, <2>3 DEF Event
    <3>3. \A v \in Workers : First(task'[v].todo) = First(task[v].todo)
      BY <3>2
    <3>4. QED
      BY <2>1, <3>1, <3>2, <3>3 DEF IInv, OneInserter
  <2>9. ResultNeedsBirthday' /\ LeagueOfStoredResults'
    BY <2>1 DEF IInv, ResultNeedsBirthday, LeagueOfStoredResults, Stored, db
  <2>10. QED
    BY <2>6, <2>7, <2>8, <2>9 DEF IInv
<1>11. CASE CommitResult(w, n)
  <2>1. /\ NextResult(w, n) /\ pc[w] = "commit" /\ pc'[w] = "loop"
        /\ \A v \in Workers \ {w} : pc'[v] = pc[v] /\ task'[v] = task[v]
        /\ rows' = [rows EXCEPT ![Page(w, n)] = task[w].items]
        /\ birthday' = birthday /\ league' = league
        /\ task[w].items # "absent" /\ task[w].birthday /\ birthday[Event(w)]
    BY <1>11, <1>a DEF CommitResult, NextResult, WorkerSound, InsertSound
  <2>2. Grows
    BY <2>1, <1>b DEF Grows, IInv, TypeOK
  <2>3. WorkerSound(w)'
    BY <1>c, <2>1, <2>2
  <2>4. ASSUME NEW v \in Workers \ {w} PROVE WorkerSound(v)'
    <3>1. ASSUME pc[v] = "commit", NEW m \in First(task[v].todo)
          PROVE  Page(v, m) # Page(w, n)
      BY <2>1, <3>1 DEF IInv, OneInserter, Page, Event
    <3>2. pc[v] = "commit" => \A m \in First(task[v].todo) : rows'[Page(v, m)] = rows[Page(v, m)]
      BY <2>1, <1>b, <3>1 DEF IInv, TypeOK
    <3>3. QED
      BY <2>1, <2>2, <3>2, WorkerFrame DEF IInv
  <2>5. OneInserter'
    BY <2>1 DEF IInv, OneInserter, Event
  <2>6. ResultNeedsBirthday'
    BY <2>1, <1>b DEF IInv, ResultNeedsBirthday, TypeOK, Page, Event
  <2>7. \A e \in Events : Stored(e) \subseteq Stored(e)'
    BY <2>2 DEF Stored, Grows, Pages
  <2>8. LeagueOfStoredResults'
    BY <2>1, <2>7 DEF IInv, LeagueOfStoredResults
  <2>9. QED
    BY <2>3, <2>4, <2>5, <2>6, <2>8 DEF IInv
<1>13. QED
  BY <1>1, <1>2, <1>3, <1>4, <1>5, <1>6, <1>7, <1>8, <1>9, <1>10, <1>11, <1>12 DEF ResultStep

(* The commit of a league: it is one of stored results, by the scan.       *)
LEMMA PublishSound ==
    ASSUME IInv, TypeOK', NEW w \in Workers, PublishLeague(w), pc[w] = "publish",
           \A v \in Workers \ {w} : pc'[v] = pc[v] /\ task'[v] = task[v],
           pc'[w] # "commit", WorkerSound(w)'
    PROVE  IInv'
<1> DEFINE new == [latest |-> task[w].latest, counted |-> task[w].counted]
<1>1. /\ UNCHANGED <<birthday, rows>>
      /\ league' = [league EXCEPT ![Key(w)] = new]
  BY DEF PublishLeague
<1>2. Grows
  BY <1>1 DEF Grows
<1>3. ASSUME NEW v \in Workers \ {w} PROVE WorkerSound(v)'
  BY <1>1, <1>2, WorkerFrame DEF IInv
<1>4. OneInserter'
  BY DEF IInv, OneInserter, Event
<1>5. ResultNeedsBirthday'
  BY <1>1 DEF IInv, ResultNeedsBirthday
<1>6. /\ new.counted \subseteq Stored(Event(w))
      /\ new.latest \in Stored(Event(w))
      /\ LeagueYear[<<Event(w), new.latest>>] = task[w].lastYear
  BY DEF IInv, WorkerSound, ScanSound, Event
<1>7. LeagueOfStoredResults'
  <2> SUFFICES ASSUME NEW e \in Events, NEW y \in Years, league'[<<e, y>>] # NoLeague
               PROVE  /\ league'[<<e, y>>].counted \subseteq Stored(e)
                      /\ league'[<<e, y>>].latest \in Stored(e)
                      /\ LeagueYear[<<e, league'[<<e, y>>].latest>>] = y
    BY <1>1 DEF LeagueOfStoredResults, Stored
  <2>1. league \in [Events \X Years -> League]
    BY DEF IInv, TypeOK
  <2>2. CASE <<e, y>> = Key(w)
    <3>1. league'[<<e, y>>] = new
      BY <1>1, <2>1, <2>2
    <3>2. e = Event(w) /\ y = task[w].lastYear
      BY <2>2 DEF Key
    <3>3. QED
      BY <1>6, <3>1, <3>2
  <2>3. CASE <<e, y>> # Key(w)
    <3>1. league'[<<e, y>>] = league[<<e, y>>]
      BY <1>1, <2>1, <2>3
    <3>2. QED
      BY <3>1 DEF IInv, LeagueOfStoredResults
  <2>4. QED
    BY <2>2, <2>3
<1>8. QED
  BY <1>3, <1>4, <1>5, <1>7 DEF IInv

LEMMA IInvScanStep ==
    ASSUME IInv, TypeOK', NEW w \in Workers, NEW n \in First(task[w].scan), ScanStep(w, n)
    PROVE  IInv'
<1> USE DEF Goto
<1>a. /\ pc \in [Workers -> Steps] /\ task \in [Workers -> Task]
      /\ task[w] \in Task /\ WorkerSound(w)
  BY DEF IInv, TypeOK
<1>b. /\ n \in task[w].scan /\ n \in Stored(task[w].event) /\ n \in Numbers /\ n # 0
      /\ YearOf(w, n) \in Years /\ YearOf(w, n) # 0
      /\ YearOf(w, n) = LeagueYear[<<task[w].event, n>>]
  <2>1. n \in task[w].scan /\ n \in Stored(task[w].event) /\ n \in Numbers /\ n # 0
    BY <1>a, FirstIn DEF WorkerSound, ScanSound, Task, Numbers
  <2>2. <<task[w].event, n>> \in Pages
    BY <1>a, <2>1 DEF Pages, Task
  <2>3. QED
    BY <2>1, <2>2, NumbersAssumption DEF YearOf, Years, Page
<1>1. CASE SkipUnchanged(w, n)
  <2>1. /\ task'[w] = [task[w] EXCEPT !.scan = @ \ {n}, !.create = FALSE]
        /\ \A v \in Workers \ {w} : pc'[v] = pc[v] /\ task'[v] = task[v]
        /\ UNCHANGED db /\ pc'[w] = "scan"
    BY <1>1, <1>a DEF SkipUnchanged, db, Task
  <2>2. WorkerSound(w)'
    BY <1>a, <2>1 DEF WorkerSound, InsertSound, ScanSound, Event, Stored, Task, db
  <2>3. QED
    BY <2>1, <2>2, LocalStep
<1>2. CASE CountResult(w, n)
  <2> DEFINE counted == task[w].counted \cup
                            {m \in {n} : rows[Page(w, m)] \in {"part", "full"}}
             yearEnds == task[w].lastYear \notin {0, YearOf(w, n)} /\ counted # {}
             t1 == [task[w] EXCEPT !.counted = counted, !.create = TRUE]
             t2 == [task[w] EXCEPT !.counted = counted, !.create = TRUE,
                                   !.lastYear = YearOf(w, n), !.latest = n, !.scan = @ \ {n}]
  <2>1. counted \subseteq Stored(task[w].event)
    BY <1>a, <1>b DEF WorkerSound, ScanSound
  <2>2. /\ UNCHANGED db /\ pc[w] = "scan"
        /\ yearEnds => /\ pc' = [pc EXCEPT ![w] = "league"]
                       /\ task' = [task EXCEPT ![w].counted = counted, ![w].create = TRUE]
        /\ ~yearEnds => /\ pc' = pc
                        /\ task' = [task EXCEPT ![w].counted = counted, ![w].create = TRUE,
                                      ![w].lastYear = YearOf(w, n),
                                      ![w].latest = n, ![w].scan = @ \ {n}]
    BY <1>2 DEF CountResult, db
  <2> HIDE DEF counted
  <2>3. /\ \A v \in Workers \ {w} : pc'[v] = pc[v] /\ task'[v] = task[v]
        /\ pc'[w] \in {"scan", "league"}
        /\ yearEnds => pc'[w] = "league" /\ task'[w] = t1
        /\ ~yearEnds => pc'[w] = "scan" /\ task'[w] = t2
    BY <1>a, <2>2 DEF Task
  <2>4. CASE yearEnds
    <3>1. task[w].latest # 0 /\ counted # {}
      BY <1>a, <2>4 DEF WorkerSound, ScanSound
    <3>2. WorkerSound(w)'
      BY <1>a, <2>1, <2>2, <2>3, <2>4, <3>1
      DEF WorkerSound, InsertSound, ScanSound, Event, Stored, Task, db
    <3>3. QED
      BY <2>2, <2>3, <2>4, <3>2, LocalStep
  <2>5. CASE ~yearEnds
    BY <1>a, <1>b, <2>1, <2>2, <2>3, <2>5, LocalStep
    DEF WorkerSound, InsertSound, ScanSound, Event, Stored, Task, db
  <2>6. QED
    BY <2>4, <2>5
<1>3. CASE CommitYear(w, n)
  <2> DEFINE t == [task[w] EXCEPT !.counted = {}, !.lastYear = YearOf(w, n),
                                  !.latest = n, !.scan = @ \ {n}]
  <2>1. /\ task'[w] = t /\ PublishLeague(w) /\ pc[w] = "publish" /\ pc'[w] = "scan"
        /\ \A v \in Workers \ {w} : pc'[v] = pc[v] /\ task'[v] = task[v]
        /\ UNCHANGED <<birthday, rows>>
    BY <1>3, <1>a DEF CommitYear, PublishLeague, Task
  <2>2. WorkerSound(w)'
    BY <1>a, <1>b, <2>1 DEF WorkerSound, InsertSound, ScanSound, Event, Stored, Task
  <2>3. QED
    BY <2>1, <2>2, PublishSound
<1>4. QED
  BY <1>1, <1>2, <1>3 DEF ScanStep

(* The steps of a worker, outside and inside the two loops.                *)
LEMMA IInvStep ==
    ASSUME IInv, TypeOK', NEW w \in Workers, Step(w)
    PROVE  IInv'
<1> USE DEF Goto
<1>a. /\ pc \in [Workers -> Steps] /\ task \in [Workers -> Task]
      /\ task[w] \in Task /\ WorkerSound(w)
  BY DEF IInv, TypeOK
(* A step that ends the call of process for this event, or all of it.      *)
<1>b. ASSUME UNCHANGED db, Throw(w) \/ Return(w) PROVE IInv'
  <2>1. \A v \in Workers \ {w} : pc'[v] = pc[v] /\ task'[v] = task[v]
    BY <1>a, <1>b DEF Throw, Return
  <2>2. QED
    BY <1>b, <2>1, EndsFresh, LocalStep DEF IInv
<1>1. CASE NextEvent(w)
  <2> DEFINE e == Head(task[w].queue)
             q == Tail(task[w].queue)
             b == birthday[e]
  <2>1. /\ task'[w] = [NoTask EXCEPT !.event = e, !.queue = q, !.birthday = b]
        /\ pc'[w] = "history" /\ UNCHANGED db
        /\ b => birthday'[e]
        /\ \A v \in Workers \ {w} : pc'[v] = pc[v] /\ task'[v] = task[v]
    BY <1>1, <1>a DEF NextEvent, db
  <2> HIDE DEF e, q, b
  <2>2. WorkerSound(w)'
    BY <2>1, FreshWorker
  <2>3. QED
    BY <2>1, <2>2, LocalStep
<1>2. CASE FetchHistory(w) \/ (FetchHistoryCut(w) /\ ~Die) \/ ReadResults(w)
  <2>1. /\ UNCHANGED db /\ pc'[w] \in {"results", "loop"}
        /\ \A v \in Workers \ {w} : pc'[v] = pc[v] /\ task'[v] = task[v]
    BY <1>2, <1>a DEF FetchHistory, FetchHistoryCut, ReadResults, db
  <2>2. /\ task'[w].event = task[w].event
        /\ task'[w].scan = task[w].scan /\ task'[w].counted = task[w].counted
        /\ task'[w].create = task[w].create /\ task'[w].latest = task[w].latest
        /\ task'[w].lastYear = task[w].lastYear /\ task'[w].birthday = task[w].birthday
    BY <1>2, <1>a DEF FetchHistory, FetchHistoryCut, ReadResults, Task
  <2>3. WorkerSound(w)'
    BY <1>a, <2>1, <2>2 DEF WorkerSound, InsertSound, ScanSound, Event, Stored, db
  <2>4. QED
    BY <2>1, <2>3, LocalStep
<1>3. CASE EndResults(w)
  <2>1. CASE Return(w)
    BY <1>3, <1>b, <2>1 DEF EndResults, db
  <2>2. CASE ~Return(w)
    <3>1. /\ task'[w] = [task[w] EXCEPT !.scan = Stored(Event(w)), !.seen = {}]
          /\ pc'[w] = "scan" /\ UNCHANGED db
          /\ \A v \in Workers \ {w} : pc'[v] = pc[v] /\ task'[v] = task[v]
      BY <1>3, <1>a, <2>2 DEF EndResults, db, Task
    <3>2. WorkerSound(w)'
      BY <1>a, <3>1 DEF WorkerSound, InsertSound, ScanSound, Event, Stored, Task, db
    <3>3. QED
      BY <3>1, <3>2, LocalStep
  <2>3. QED
    BY <2>1, <2>2
<1>4. CASE EndScan(w)
  <2>1. CASE Return(w)
    BY <1>4, <1>b, <2>1 DEF EndScan, db
  <2>2. CASE ~Return(w)
    <3>1. /\ task' = task /\ pc'[w] = "league" /\ UNCHANGED db
          /\ task[w].create /\ task[w].counted # {}
          /\ \A v \in Workers \ {w} : pc'[v] = pc[v] /\ task'[v] = task[v]
      BY <1>4, <1>a, <2>2 DEF EndScan, db
    <3>2. WorkerSound(w)'
      BY <1>a, <3>1 DEF WorkerSound, InsertSound, ScanSound, Event, Stored, db
    <3>3. QED
      BY <3>1, <3>2, LocalStep
  <2>3. QED
    BY <2>1, <2>2
<1>5. CASE OpenLeague(w)
  <2> DEFINE f == league[Key(w)] # NoLeague
  <2>1. /\ task'[w] = [task[w] EXCEPT !.found = f]
        /\ pc'[w] = "write" /\ pc[w] = "league" /\ UNCHANGED db
        /\ \A v \in Workers \ {w} : pc'[v] = pc[v] /\ task'[v] = task[v]
    BY <1>5, <1>a DEF OpenLeague, db
  <2> HIDE DEF f
  <2>2. WorkerSound(w)'
    BY <1>a, <2>1 DEF WorkerSound, InsertSound, ScanSound, Event, Stored, Task, db
  <2>3. QED
    BY <2>1, <2>2, LocalStep
<1>6. CASE LeagueInsertFails(w)
  BY <1>6, <1>b DEF LeagueInsertFails, db
<1>7. CASE WriteLeague(w)
  <2>1. /\ task' = task /\ pc'[w] = "publish" /\ pc[w] = "write" /\ UNCHANGED db
        /\ \A v \in Workers \ {w} : pc'[v] = pc[v] /\ task'[v] = task[v]
    BY <1>7, <1>a DEF WriteLeague, db
  <2>2. WorkerSound(w)'
    BY <1>a, <2>1 DEF WorkerSound, InsertSound, ScanSound, Event, Stored, db
  <2>3. QED
    BY <2>1, <2>2, LocalStep
<1>8. CASE CommitLastYear(w)
  <2>1. /\ PublishLeague(w) /\ pc[w] = "publish"
        /\ \A v \in Workers \ {w} : pc'[v] = pc[v] /\ task'[v] = task[v]
    BY <1>8, <1>a DEF CommitLastYear, PublishLeague, Return
  <2>2. WorkerSound(w)' /\ pc'[w] # "commit"
    BY <1>8, EndsFresh DEF CommitLastYear, IInv
  <2>3. QED
    BY <2>1, <2>2, PublishSound
<1>9. CASE FetchHistoryTableless(w) \/ Die
  BY <1>9, DieSound DEF FetchHistoryTableless
<1>10. QED
  BY <1>1, <1>2, <1>3, <1>4, <1>5, <1>6, <1>7, <1>8, <1>9, IInvResultStep, IInvScanStep
  DEF Step

LEMMA IInvNext == IInv /\ [Next]_vars => IInv'
<1> SUFFICES ASSUME IInv, [Next]_vars PROVE IInv'
  OBVIOUS
<1>a. TypeOK'
  BY TypeStep DEF IInv
<1>b. ASSUME UNCHANGED <<db, pc, task>> PROVE IInv'
  <2>1. \A w \in Workers : WorkerSound(w)'
    BY <1>b DEF IInv, WorkerSound, InsertSound, ScanSound, Event, Page, Stored, db
  <2>2. QED
    BY <1>a, <1>b, <2>1
    DEF IInv, OneInserter, ResultNeedsBirthday, LeagueOfStoredResults, Stored, Event, db
<1>c. ASSUME UNCHANGED db, NEW w \in Workers, pc'[w] = "begin",
             \A v \in Workers \ {w} : pc'[v] = pc[v] /\ task'[v] = task[v],
             NEW q, task'[w] = [task[w] EXCEPT !.queue = q]
      PROVE  IInv'
  <2>1. task[w] \in Task /\ WorkerSound(w)
    BY DEF IInv, TypeOK
  <2>2. WorkerSound(w)'
    BY <1>c, <2>1 DEF WorkerSound, InsertSound, ScanSound, Event, Stored, Task, db
  <2>3. QED
    BY <1>a, <1>c, <2>2, LocalStep
<1>1. CASE \E e \in Events : PublishResult(e)
  BY <1>1, <1>b DEF PublishResult
<1>2. CASE \E p \in Pages : PopulatePage(p)
  BY <1>2, <1>b DEF PopulatePage
<1>3. CASE TimerFires
  BY <1>3, <1>c DEF TimerFires, Goto, IInv, TypeOK, Workers
<1>4. ASSUME NEW f \in Forcers, ForceUpdate(f) PROVE IInv'
  BY <1>4, <1>c DEF ForceUpdate, Goto, IInv, TypeOK, Workers
<1>5. ASSUME NEW w \in Workers, Step(w) PROVE IInv'
  BY <1>a, <1>5, IInvStep
<1>6. ASSUME NEW w \in Workers, DbError(w) PROVE IInv'
  <2>1. Throw(w) /\ UNCHANGED db
    BY <1>6 DEF DbError
  <2>2. \A v \in Workers \ {w} : pc'[v] = pc[v] /\ task'[v] = task[v]
    BY <2>1 DEF Throw, Goto, IInv, TypeOK
  <2>3. QED
    BY <1>a, <2>1, <2>2, EndsFresh, LocalStep DEF IInv
<1>7. CASE Crash
  BY <1>a, <1>7, DieSound DEF Crash
<1>8. CASE UNCHANGED vars
  BY <1>8, <1>b DEF vars
<1>9. QED
  BY <1>1, <1>2, <1>3, <1>4, <1>5, <1>6, <1>7, <1>8 DEF Next

LEMMA Invariance == Spec => []IInv
BY IInvInit, IInvNext, PTL DEF Spec

(* No result is ever stored for an event without a birthday.               *)
THEOREM BirthdayFirst == Spec => []ResultNeedsBirthday
<1>1. IInv => ResultNeedsBirthday
  BY DEF IInv
<1>2. QED
  BY <1>1, Invariance, PTL

(* A league never refers to a result that is not stored, nor names one of  *)
(* another year as its latest.                                             *)
THEOREM LeaguesAreOfStoredResults == Spec => []LeagueOfStoredResults
<1>1. IInv => LeagueOfStoredResults
  BY DEF IInv
<1>2. QED
  BY <1>1, Invariance, PTL

-----------------------------------------------------------------------------
(* The refinement.  Every step leaves the tables alone or makes one of the *)
(* three changes the archive allows.                                       *)

SetsBirthday(e) == /\ birthday' = [birthday EXCEPT ![e] = TRUE]
                   /\ UNCHANGED <<rows, league>>

AddsRow(p) == /\ birthday[p[1]] /\ rows[p] = "absent"
              /\ \E items \in Kinds \ {"absent"} : rows' = [rows EXCEPT ![p] = items]
              /\ UNCHANGED <<birthday, league>>

Replaces(e, latest, counted) ==
    /\ counted # {}
    /\ \A n \in counted \cup {latest} : rows[<<e, n>>] # "absent"
    /\ league' = [league EXCEPT ![<<e, LeagueYear[<<e, latest>>]>>] =
                      [latest |-> latest, counted |-> counted]]
    /\ UNCHANGED <<birthday, rows>>

LEMMA PublishReplaces ==
    ASSUME IInv, NEW w \in Workers, PublishLeague(w), pc[w] = "publish"
    PROVE  \E e \in Events, latest \in Numbers, counted \in SUBSET Numbers :
               Replaces(e, latest, counted)
<1>1. task[w] \in Task /\ WorkerSound(w)
  BY DEF IInv, TypeOK
<1>2. /\ task[w].counted # {} /\ task[w].counted \subseteq Stored(Event(w))
      /\ task[w].latest \in Stored(Event(w))
      /\ LeagueYear[<<Event(w), task[w].latest>>] = task[w].lastYear
  BY <1>1 DEF WorkerSound, ScanSound, Event
<1>3. Replaces(Event(w), task[w].latest, task[w].counted)
  BY <1>2 DEF Replaces, PublishLeague, Key, Stored
<1>4. Event(w) \in Events /\ task[w].latest \in Numbers /\ task[w].counted \in SUBSET Numbers
  BY <1>1, <1>2 DEF Event, Task, Stored
<1>5. QED
  BY <1>3, <1>4

LEMMA TableSteps ==
    ASSUME IInv, [Next]_vars
    PROVE  \/ UNCHANGED db
           \/ \E e \in Events : SetsBirthday(e)
           \/ \E p \in Pages : AddsRow(p)
           \/ \E e \in Events, latest \in Numbers, counted \in SUBSET Numbers :
                  Replaces(e, latest, counted)
<1>1. CASE UNCHANGED vars
  BY <1>1 DEF vars
<1>2. CASE \/ \E e \in Events : PublishResult(e)
           \/ \E p \in Pages : PopulatePage(p)
           \/ TimerFires
           \/ \E f \in Forcers : ForceUpdate(f)
           \/ \E w \in Workers : DbError(w)
           \/ Crash
  BY <1>2 DEF PublishResult, PopulatePage, TimerFires, ForceUpdate, DbError, Crash, Die
<1>3. ASSUME NEW w \in Workers, NEW n \in First(task[w].todo), ResultStep(w, n)
      PROVE  UNCHANGED db \/ (\E e \in Events : SetsBirthday(e)) \/ (\E p \in Pages : AddsRow(p))
  <2>1. task[w] \in Task /\ WorkerSound(w) /\ n \in Numbers
    BY FirstIn DEF IInv, TypeOK, Task
  <2>2. Event(w) \in Events /\ Page(w, n) \in Pages /\ Page(w, n)[1] = Event(w)
    BY <2>1 DEF Event, Page, Pages, Task
  <2>3. CASE SetBirthday(w, n)
    BY <2>2, <2>3 DEF SetBirthday, SetsBirthday
  <2>4. CASE CommitResult(w, n)
    <3>1. /\ task[w].items \in Kinds \ {"absent"} /\ birthday[Event(w)]
          /\ rows[Page(w, n)] = "absent"
      BY <2>1, <2>4 DEF CommitResult, WorkerSound, InsertSound, Task
    <3>2. AddsRow(Page(w, n))
      BY <2>2, <2>4, <3>1 DEF AddsRow, CommitResult
    <3>3. QED
      BY <2>2, <3>2
  <2>5. QED
    BY <1>3, <2>3, <2>4
    DEF ResultStep, YearFails, SkipStored, LookInCache, ReadCached, ReadTableless, Die,
        FetchNothing, FetchTableless, FetchPage, FetchPageCut, FetchedAs, OpenPageFile, WritePageFile,
        ClosePageFile, WriteBehindHole, InsertFails, InsertResult
<1>4. ASSUME NEW w \in Workers, NEW n \in First(task[w].scan), ScanStep(w, n)
      PROVE  \/ UNCHANGED db
             \/ \E e \in Events, latest \in Numbers, counted \in SUBSET Numbers :
                    Replaces(e, latest, counted)
  <2>1. CASE CommitYear(w, n)
    <3>1. pc[w] = "publish" /\ PublishLeague(w)
      BY <2>1 DEF CommitYear, PublishLeague
    <3>2. QED
      BY <3>1, PublishReplaces
  <2>2. QED
    BY <1>4, <2>1 DEF ScanStep, SkipUnchanged, CountResult
<1>5. ASSUME NEW w \in Workers, CommitLastYear(w)
      PROVE  \E e \in Events, latest \in Numbers, counted \in SUBSET Numbers :
                 Replaces(e, latest, counted)
  <2>1. pc[w] = "publish" /\ PublishLeague(w)
    BY <1>5 DEF CommitLastYear, PublishLeague
  <2>2. QED
    BY <2>1, PublishReplaces
<1>6. ASSUME NEW w \in Workers,
             \/ NextEvent(w) \/ FetchHistory(w) \/ FetchHistoryCut(w)
             \/ FetchHistoryTableless(w) \/ ReadResults(w) \/ EndResults(w)
             \/ EndScan(w) \/ OpenLeague(w) \/ LeagueInsertFails(w) \/ WriteLeague(w)
      PROVE  UNCHANGED db
  BY <1>6 DEF NextEvent, FetchHistory, FetchHistoryCut, FetchHistoryTableless, Die,
              ReadResults, EndResults, EndScan, OpenLeague, LeagueInsertFails, WriteLeague
<1>7. CASE \E w \in Workers : Step(w)
  BY <1>3, <1>4, <1>5, <1>6, <1>7 DEF Step
<1>8. QED
  BY <1>1, <1>2, <1>7 DEF Next

(* No step, failure or crash changes or loses a stored result.             *)
THEOREM StoredForGood == Spec => ResultsArePermanent
<1>1. ASSUME IInv, [Next]_vars
      PROVE  [\A p \in Pages : rows[p] # "absent" => rows'[p] = rows[p]]_vars
  <2>1. \A p \in Pages : rows[p] # "absent" => rows'[p] = rows[p]
    BY <1>1, TableSteps DEF db, SetsBirthday, AddsRow, Replaces, IInv, TypeOK
  <2>2. QED
    BY <2>1
<1>2. QED
  BY <1>1, Invariance, PTL DEF Spec, ResultsArePermanent

(* The harvest, with its threads, failures and crashes, implements the     *)
(* archive.                                                                *)
THEOREM HarvestImplementsArchive == Spec => ImplementsArchive
<1> DEFINE dated  == {e \in Events : birthday[e]}
           stored == {p \in Pages : rows[p] # "absent"}
<1>1. Init => Archive!Init
  BY DEF Init, Archive!Init, Archive!Years, Years, NoLeague, Pages
<1>2. ASSUME IInv, [Next]_vars PROVE [Archive!Next]_<<dated, stored, league>>
  <2>t. birthday \in [Events -> BOOLEAN] /\ rows \in [Pages -> Kinds]
    BY <1>2 DEF IInv, TypeOK
  <2>1. CASE UNCHANGED db
    BY <2>1 DEF db
  <2>2. ASSUME NEW e \in Events, SetsBirthday(e) PROVE Archive!Next
    <3>1. dated' = dated \cup {e} /\ stored' = stored /\ league' = league
      BY <2>t, <2>2 DEF SetsBirthday
    <3>2. QED
      BY <3>1 DEF Archive!Next, Archive!DateEvent
  <2>3. ASSUME NEW p \in Pages, AddsRow(p) PROVE Archive!Next
    <3>1. PICK e \in Events, n \in Numbers : p = <<e, n>>
      BY DEF Pages
    <3>2. /\ e \in dated /\ <<e, n>> \notin stored
          /\ stored' = stored \cup {<<e, n>>} /\ dated' = dated /\ league' = league
      BY <2>t, <2>3, <3>1 DEF AddsRow
    <3>3. QED
      BY <3>2 DEF Archive!Next, Archive!StoreResult
  <2>4. ASSUME NEW e \in Events, NEW latest \in Numbers, NEW counted \in SUBSET Numbers,
               Replaces(e, latest, counted)
        PROVE  Archive!Next
    <3>1. \A n \in counted \cup {latest} : <<e, n>> \in stored
      BY <2>4 DEF Replaces, Pages
    <3>2. dated' = dated /\ stored' = stored
      BY <2>4 DEF Replaces
    <3>3. Archive!ReplaceLeague(e, latest, counted)
      BY <2>4, <3>1, <3>2 DEF Replaces, Archive!ReplaceLeague
    <3>4. QED
      BY <3>3 DEF Archive!Next
  <2>5. QED
    BY <1>2, <2>1, <2>2, <2>3, <2>4, TableSteps
<1>3. QED
  BY <1>1, <1>2, Invariance, PTL DEF Spec, ImplementsArchive, Archive!Spec

=============================================================================
