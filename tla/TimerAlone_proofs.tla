-------------------------- MODULE TimerAlone_proofs --------------------------
(***************************************************************************)
(* What the harvest guarantees as long as only the harvester's timer runs  *)
(* it: a forced update, a crash, a page cut short, a failed statement or   *)
(* the end of a league year each take some of it away.                     *)
(***************************************************************************)
EXTENDS ResultsHarvest_proofs

(* No /forceupdate was served so far; nor was the daemon killed, or a page *)
(* cut short on its way; nor has a statement failed.                       *)
Alone       == spent.forced = 0
Undisturbed == Alone /\ spent.crashes = 0 /\ spent.cuts = 0
Quiet       == Undisturbed /\ spent.dbErrors = 0

OnlyTimer == \A f \in Forcers : pc[f] = "idle" /\ task[f] = NoTask

-----------------------------------------------------------------------------
(* Steps that nobody but the timer takes.                                  *)

LEMMA TimerIsWorker == Timer \in Workers /\ \A f \in Forcers : f \in Workers /\ f # Timer
BY WorkersAssumption DEF Workers

(* What has happened stays counted.                                        *)
LEMMA SpentGrows ==
    ASSUME TypeOK, [Next]_vars
    PROVE  /\ Alone' => Alone
           /\ Undisturbed' => /\ Undisturbed /\ ~Crash
                              /\ ~FetchHistoryCut(Timer) /\ \A n : ~FetchPageCut(Timer, n)
           /\ Quiet' => Quiet /\ \A w \in Workers : ~DbError(w)
<1>t. spent \in [forced : Nat, crashes : Nat, dbErrors : Nat, fetchErrors : Nat, cuts : Nat]
  BY BoundsAssumption DEF TypeOK
<1> DEFINE One(k) == spent' = [spent EXCEPT ![k] = @ + 1]
           Some == spent' = spent \/ One("fetchErrors") \/ One("cuts")
<1>1. ASSUME NEW w \in Workers, Step(w) PROVE Some
  <2>1. ASSUME NEW n, ResultStep(w, n) PROVE Some
    BY <2>1 DEF ResultStep, SetBirthday, YearFails, SkipStored, LookInCache, ReadCached, ReadTableless,
                FetchNothing, FetchTableless, FetchPage, FetchPageCut, OpenPageFile,
                WritePageFile, ClosePageFile, WriteBehindHole, InsertFails, InsertResult,
                CommitResult
  <2>2. ASSUME NEW n, ScanStep(w, n) PROVE Some
    BY <2>2 DEF ScanStep, SkipUnchanged, CountResult, CommitYear, PublishLeague
  <2> QED
    BY <1>1, <2>1, <2>2 DEF Step, NextEvent, FetchHistory, FetchHistoryCut,
                           FetchHistoryTableless, ReadResults, EndResults, EndScan,
                           OpenLeague, LeagueInsertFails, WriteLeague, CommitLastYear,
                           PublishLeague
<1>2. \/ Some \/ One("forced") \/ One("crashes") \/ One("dbErrors")
  BY <1>1 DEF Next, vars, PublishResult, PopulatePage, TimerFires, ForceUpdate, DbError, Crash
<1>3. /\ Crash => One("crashes")
      /\ \A w \in Workers : DbError(w) => One("dbErrors")
      /\ FetchHistoryCut(Timer) => One("cuts")
      /\ \A n : FetchPageCut(Timer, n) => One("cuts")
  BY DEF Crash, DbError, FetchHistoryCut, FetchPageCut
<1> QED
  BY <1>t, <1>2, <1>3 DEF Alone, Undisturbed, Quiet

LEMMA IdleForcer ==
    ASSUME OnlyTimer, NEW f \in Forcers
    PROVE  ~Step(f) /\ ~DbError(f)
<1>1. pc[f] = "idle"
  BY DEF OnlyTimer
<1>2. \A n : ~ResultStep(f, n)
  BY <1>1 DEF ResultStep, SetBirthday, YearFails, SkipStored, LookInCache, ReadCached, ReadTableless,
              FetchNothing, FetchTableless, FetchPage, FetchPageCut, OpenPageFile,
              WritePageFile, ClosePageFile, WriteBehindHole, InsertFails, InsertResult,
              CommitResult
<1>3. \A n : ~ScanStep(f, n)
  BY <1>1 DEF ScanStep, SkipUnchanged, CountResult, CommitYear, PublishLeague
<1> QED
  BY <1>1, <1>2, <1>3 DEF Step, DbError, NextEvent, FetchHistory, FetchHistoryCut,
                          FetchHistoryTableless, ReadResults, EndResults, EndScan,
                          OpenLeague, LeagueInsertFails, WriteLeague, CommitLastYear,
                          PublishLeague

(* A step of the timer is of the timer only, unless it ends the daemon.    *)
LEMMA TimerStepIsLocal ==
    ASSUME TypeOK, Step(Timer) \/ DbError(Timer) \/ TimerFires
    PROVE  Die \/ \A f \in Forcers : pc'[f] = pc[f] /\ task'[f] = task[f]
<1>a. pc \in [Workers -> Steps] /\ task \in [Workers -> Task]
  BY DEF TypeOK
<1> USE <1>a, TimerIsWorker DEF Goto, NextResult, Throw, Return
<1> DEFINE Others == \A f \in Forcers : pc'[f] = pc[f] /\ task'[f] = task[f]
<1>1. ASSUME NEW n, ResultStep(Timer, n) PROVE Die \/ Others
  <2>1. CASE \/ ReadTableless(Timer, n) \/ FetchTableless(Timer, n) \/ FetchPageCut(Timer, n)
    BY <2>1 DEF ReadTableless, FetchTableless, FetchPageCut, FetchedAs
  <2>2. CASE \/ SetBirthday(Timer, n) \/ YearFails(Timer, n) \/ SkipStored(Timer, n)
             \/ LookInCache(Timer, n) \/ ReadCached(Timer, n) \/ FetchNothing(Timer, n) \/ FetchPage(Timer, n)
    BY <2>2 DEF SetBirthday, YearFails, SkipStored, LookInCache, ReadCached, ParsesTo, FetchNothing,
                FetchPage, FetchedAs
  <2>3. CASE \/ OpenPageFile(Timer, n) \/ WritePageFile(Timer, n) \/ ClosePageFile(Timer, n)
             \/ WriteBehindHole(Timer, n) \/ InsertFails(Timer, n)
             \/ InsertResult(Timer, n) \/ CommitResult(Timer, n)
    BY <2>3 DEF OpenPageFile, WritePageFile, ClosePageFile, WriteBehindHole, InsertFails,
                InsertResult, CommitResult
  <2> QED
    BY <1>1, <2>1, <2>2, <2>3 DEF ResultStep
<1>2. ASSUME NEW n, ScanStep(Timer, n) PROVE Others
  BY <1>2 DEF ScanStep, SkipUnchanged, CountResult, CommitYear
<1>3. CASE \/ NextEvent(Timer) \/ FetchHistory(Timer) \/ FetchHistoryCut(Timer)
           \/ FetchHistoryTableless(Timer) \/ ReadResults(Timer) \/ EndResults(Timer)
  BY <1>3 DEF NextEvent, FetchHistory, FetchHistoryCut, FetchHistoryTableless, ReadResults,
              EndResults
<1>4. CASE \/ EndScan(Timer) \/ OpenLeague(Timer) \/ LeagueInsertFails(Timer)
           \/ WriteLeague(Timer) \/ CommitLastYear(Timer)
  BY <1>4 DEF EndScan, OpenLeague, LeagueInsertFails, WriteLeague, CommitLastYear
<1>5. CASE DbError(Timer) \/ TimerFires
  BY <1>5 DEF DbError, TimerFires
<1> QED
  BY <1>1, <1>2, <1>3, <1>4, <1>5 DEF Step

(* As long as no update was forced, only the website, the timer and the    *)
(* end of the daemon do anything.                                          *)
LEMMA AloneStep ==
    ASSUME TypeOK, OnlyTimer, [Next]_vars, Alone'
    PROVE  /\ \/ UNCHANGED <<db, disk, pc, task>>
              \/ TimerFires \/ Step(Timer) \/ DbError(Timer) \/ Crash
           /\ OnlyTimer'
<1>1. \A f \in Forcers : ~ForceUpdate(f)
  BY BoundsAssumption DEF ForceUpdate, Alone, TypeOK
<1>2. \/ UNCHANGED <<db, disk, pc, task>>
      \/ TimerFires \/ Step(Timer) \/ DbError(Timer) \/ Crash
  BY <1>1, IdleForcer DEF Next, vars, PublishResult, PopulatePage, Workers
<1>3. OnlyTimer'
  <2>1. CASE UNCHANGED <<db, disk, pc, task>>
    BY <2>1 DEF OnlyTimer
  <2>2. CASE TimerFires \/ Step(Timer) \/ DbError(Timer)
    BY <2>2, TimerStepIsLocal, TimerIsWorker DEF Die, OnlyTimer
  <2>3. CASE Crash
    BY <2>3, TimerIsWorker DEF Crash, Die, OnlyTimer
  <2> QED
    BY <1>2, <2>1, <2>2, <2>3
<1> QED
  BY <1>2, <1>3

-----------------------------------------------------------------------------
(* What the timer's call of process knows.  No result it has yet to store  *)
(* has been stored, unless under another date, and the years of those it   *)
(* stored are only in its locals: so the call must come to its end, and no *)
(* insert of it may fail once there is one.                                *)

InsertSteps == {"save", "saving", "store", "commit"}
LoopSteps   == {"read", "fetch"} \cup InsertSteps
LeagueSteps == {"league", "write", "publish"}
ScanSteps   == {"scan"} \cup LeagueSteps

LEMMA FirstIsOne ==
    ASSUME NEW S \in SUBSET Numbers, NEW m \in First(S), NEW n \in First(S)
    PROVE  m = n
BY DEF First, Numbers

DueLocal ==
    /\ pc[Timer] \in {"idle", "begin", "history", "results"} => task[Timer].changed = {}
    /\ task[Timer].changed # {} => task[Timer].birthday
    /\ pc[Timer] \in {"loop"} \cup LoopSteps =>
           \A n \in Stored(Event(Timer)) \cap task[Timer].todo :
               n \in task[Timer].seen \/ Page(Timer, n) \in Redated
    /\ pc[Timer] \in LoopSteps => First(task[Timer].todo) \cap task[Timer].seen = {}
    /\ pc[Timer] = "commit" =>
           \A n \in First(task[Timer].todo) : YearOf(Timer, n) \in task[Timer].changed
    /\ pc[Timer] = "write" => (task[Timer].found <=> league[Key(Timer)] # NoLeague)

(* The call begins, or is over.                                            *)
LEMMA DueFresh ==
    ASSUME pc'[Timer] \in {"idle", "begin", "history", "results"}, task'[Timer].changed = {}
    PROVE  DueLocal'
BY DEF DueLocal, LoopSteps, InsertSteps

(* The loop over the scraped results goes on with the same of them.        *)
LEMMA DueInLoop ==
    ASSUME DueLocal, pc[Timer] \in {"loop"} \cup LoopSteps, UNCHANGED rows,
           pc'[Timer] \in {"loop"} \cup LoopSteps, pc'[Timer] # "commit",
           pc'[Timer] \in LoopSteps =>
               pc[Timer] \in LoopSteps \/ First(task[Timer].todo) \cap task[Timer].seen = {},
           task'[Timer].event = task[Timer].event,
           task'[Timer].seen = task[Timer].seen, task'[Timer].changed = task[Timer].changed,
           task'[Timer].todo \subseteq task[Timer].todo,
           pc'[Timer] \in LoopSteps => task'[Timer].todo = task[Timer].todo,
           task[Timer].birthday => task'[Timer].birthday
    PROVE  DueLocal'
<1>1. Stored(Event(Timer))' = Stored(Event(Timer))
  BY DEF Stored, Event
<1> QED
  BY <1>1 DEF DueLocal, LoopSteps, InsertSteps, Page

LEMMA DueInScan ==
    ASSUME DueLocal, pc'[Timer] \in ScanSteps \ {"write"},
           task'[Timer].changed = task[Timer].changed,
           task'[Timer].birthday = task[Timer].birthday
    PROVE  DueLocal'
BY DEF DueLocal, ScanSteps, LeagueSteps, LoopSteps, InsertSteps

LEMMA DueEnds ==
    ASSUME TypeOK, Throw(Timer) \/ Return(Timer) \/ Die
    PROVE  DueLocal'
<1>1. NoTask.changed = {} /\ \A q : [NoTask EXCEPT !.queue = q].changed = {}
  BY DEF NoTask
<1>2. pc'[Timer] \in {"idle", "begin"} /\ task'[Timer].changed = {}
  BY <1>1, TimerIsWorker DEF TypeOK, Throw, Return, Die, Goto
<1> QED
  BY <1>2, DueFresh

LEMMA DueResultStep ==
    ASSUME TypeOK, DueLocal, NEW n \in First(task[Timer].todo), ResultStep(Timer, n)
    PROVE  DueLocal'
<1> USE TimerIsWorker DEF Goto
<1>a. /\ pc \in [Workers -> Steps] /\ task \in [Workers -> Task] /\ task[Timer] \in Task
      /\ rows \in [Pages -> Kinds]
  BY DEF TypeOK
<1>b. /\ task[Timer].todo \subseteq Numbers /\ n \in task[Timer].todo /\ n \in Numbers
      /\ Page(Timer, n) \in Pages /\ \A m \in First(task[Timer].todo) : m = n
  BY <1>a, FirstIn, FirstIsOne DEF Task, Page, Pages
<1>c. ASSUME pc[Timer] \in {"loop"} \cup LoopSteps, UNCHANGED rows, NextResult(Timer, n)
      PROVE  DueLocal'
  <2>1. /\ pc'[Timer] = "loop" /\ task'[Timer].todo = task[Timer].todo \ {n}
        /\ task'[Timer].event = task[Timer].event /\ task'[Timer].seen = task[Timer].seen
        /\ task'[Timer].changed = task[Timer].changed
        /\ task'[Timer].birthday = task[Timer].birthday
    BY <1>a, <1>c DEF NextResult, Task
  <2> QED
    BY <1>c, <2>1, DueInLoop DEF LoopSteps, InsertSteps
<1>d. ASSUME UNCHANGED rows, pc[Timer] \in LoopSteps, pc'[Timer] \in LoopSteps \ {"commit"},
             task'[Timer].todo = task[Timer].todo,
             task'[Timer].event = task[Timer].event, task'[Timer].seen = task[Timer].seen,
             task'[Timer].changed = task[Timer].changed,
             task'[Timer].birthday = task[Timer].birthday
      PROVE  DueLocal'
  BY <1>d, DueInLoop
<1>1. CASE SetBirthday(Timer, n)
  <2>1. /\ pc[Timer] = "loop" /\ pc' = pc /\ rows' = rows /\ task'[Timer].birthday
        /\ task'[Timer].todo = task[Timer].todo
        /\ task'[Timer].event = task[Timer].event /\ task'[Timer].seen = task[Timer].seen
        /\ task'[Timer].changed = task[Timer].changed
    BY <1>1, <1>a DEF SetBirthday, Task
  <2> QED
    BY <2>1, DueInLoop DEF LoopSteps, InsertSteps
<1>2. CASE YearFails(Timer, n) \/ SkipStored(Timer, n)
  BY <1>2, <1>c, DueEnds DEF YearFails, SkipStored, db
<1>3. CASE LookInCache(Timer, n)
  <2>1. /\ pc[Timer] = "loop" /\ pc'[Timer] \in {"read", "fetch"} /\ rows' = rows
        /\ task' = task /\ n \notin task[Timer].seen
    BY <1>3, <1>a DEF LookInCache, db
  <2>2. First(task[Timer].todo) \cap task[Timer].seen = {}
    BY <1>b, <2>1
  <2> QED
    BY <2>1, <2>2, DueInLoop DEF LoopSteps
<1>4. CASE ReadCached(Timer, n)
  <2>1. pc[Timer] = "read" /\ rows' = rows
    BY <1>4 DEF ReadCached, db
  <2>2. ASSUME NEW items \in Kinds, ParsesTo(Timer, items) PROVE DueLocal'
    BY <1>a, <1>d, <2>1, <2>2 DEF ParsesTo, LoopSteps, InsertSteps, Task
  <2> QED
    BY <1>4, <1>c, <2>1, <2>2, DueEnds DEF ReadCached, Kinds, LoopSteps
<1>5. CASE ReadTableless(Timer, n)
  BY <1>5, DueEnds DEF ReadTableless
<1>6. CASE FetchNothing(Timer, n)
  BY <1>6, <1>c DEF FetchNothing, LoopSteps, db
<1>7. CASE FetchPage(Timer, n) \/ FetchPageCut(Timer, n) \/ FetchTableless(Timer, n)
  <2>1. ASSUME NEW page, NEW items, pc[Timer] = "fetch", FetchedAs(Timer, page, items)
        PROVE  DueLocal'
    <3>1. pc'[Timer] = "save" /\ rows' = rows
      BY <1>a, <2>1 DEF FetchedAs, db
    <3>2. /\ task'[Timer].todo = task[Timer].todo /\ task'[Timer].event = task[Timer].event
          /\ task'[Timer].seen = task[Timer].seen
          /\ task'[Timer].changed = task[Timer].changed
          /\ task'[Timer].birthday = task[Timer].birthday
      BY <1>a, <2>1 DEF FetchedAs, Task
    <3> QED
      BY <1>d, <2>1, <3>1, <3>2 DEF LoopSteps, InsertSteps
  <2>2. CASE FetchPage(Timer, n)
    BY <2>1, <2>2 DEF FetchPage
  <2>3. CASE FetchPageCut(Timer, n)
    BY <1>c, <2>1, <2>3, DueEnds DEF FetchPageCut, LoopSteps, db
  <2>4. CASE FetchTableless(Timer, n)
    BY <2>4, DueEnds DEF FetchTableless
  <2> QED
    BY <1>7, <2>2, <2>3, <2>4
<1>8. CASE \/ OpenPageFile(Timer, n) \/ WritePageFile(Timer, n)
           \/ ClosePageFile(Timer, n) \/ WriteBehindHole(Timer, n)
  BY <1>8, <1>a, <1>d
  DEF OpenPageFile, WritePageFile, ClosePageFile, WriteBehindHole, LoopSteps, InsertSteps, db
<1>9. CASE InsertFails(Timer, n)
  BY <1>9, DueEnds DEF InsertFails
<1>10. CASE InsertResult(Timer, n)
  <2>1. /\ pc[Timer] = "store" /\ pc'[Timer] = "commit" /\ rows' = rows
        /\ task'[Timer].todo = task[Timer].todo
        /\ task'[Timer].event = task[Timer].event /\ task'[Timer].seen = task[Timer].seen
        /\ task'[Timer].changed = task[Timer].changed \cup {YearOf(Timer, n)}
        /\ task[Timer].birthday /\ task'[Timer].birthday = task[Timer].birthday
    BY <1>10, <1>a DEF InsertResult, Task, db
  <2>2. Stored(Event(Timer))' = Stored(Event(Timer))
    BY <2>1 DEF Stored, Event
  <2>3. \A m \in First(task'[Timer].todo) : YearOf(Timer, m)' \in task'[Timer].changed
    BY <1>b, <2>1 DEF YearOf, Page, Event
  <2> QED
    BY <2>1, <2>2, <2>3 DEF DueLocal, LoopSteps, InsertSteps, Page
<1>11. CASE CommitResult(Timer, n)
  <2>1. /\ pc[Timer] = "commit" /\ pc'[Timer] = "loop"
        /\ rows' = [rows EXCEPT ![Page(Timer, n)] = task[Timer].items]
        /\ task'[Timer].todo = task[Timer].todo \ {n}
        /\ task'[Timer].event = task[Timer].event /\ task'[Timer].seen = task[Timer].seen
        /\ task'[Timer].changed = task[Timer].changed
        /\ task'[Timer].birthday = task[Timer].birthday
    BY <1>11, <1>a DEF CommitResult, NextResult, Task
  <2>2. Stored(Event(Timer))' \subseteq Stored(Event(Timer)) \cup {n}
    BY <1>a, <2>1 DEF Stored, Event, Page
  <2> QED
    BY <2>1, <2>2 DEF DueLocal, LoopSteps, InsertSteps, Page
<1> QED
  BY <1>1, <1>2, <1>3, <1>4, <1>5, <1>6, <1>7, <1>8, <1>9, <1>10, <1>11 DEF ResultStep

LEMMA DueLocalNext ==
    ASSUME TypeOK, OnlyTimer, DueLocal, [Next]_vars, Alone'
    PROVE  DueLocal'
<1> USE TimerIsWorker DEF Goto
<1>a. pc \in [Workers -> Steps] /\ task \in [Workers -> Task] /\ task[Timer] \in Task
  BY DEF TypeOK
<1>1. CASE UNCHANGED <<db, disk, pc, task>>
  BY <1>1 DEF DueLocal, Stored, Event, YearOf, Page, Key, db
<1>2. CASE TimerFires
  <2>1. pc'[Timer] = "begin" /\ pc[Timer] = "idle" /\ task'[Timer].changed = task[Timer].changed
    BY <1>2, <1>a DEF TimerFires, Task
  <2> QED
    BY <2>1, DueFresh DEF DueLocal
<1>3. CASE \/ DbError(Timer) \/ Crash \/ LeagueInsertFails(Timer)
           \/ FetchHistoryTableless(Timer)
  BY <1>3, DueEnds DEF DbError, Crash, LeagueInsertFails, FetchHistoryTableless
<1>4. CASE NextEvent(Timer)
  <2>1. pc'[Timer] = "history" /\ task'[Timer].changed = NoTask.changed
    BY <1>4, <1>a DEF NextEvent, NoTask
  <2>2. NoTask.changed = {}
    BY DEF NoTask
  <2> QED
    BY <2>1, <2>2, DueFresh
<1>5. CASE FetchHistory(Timer) \/ FetchHistoryCut(Timer)
  <2>1. CASE Die
    BY <2>1, DueEnds
  <2>2. CASE ~Die
    <3>1. /\ pc[Timer] = "history" /\ pc'[Timer] = "results"
          /\ task'[Timer].changed = task[Timer].changed
      BY <1>5, <1>a, <2>2 DEF FetchHistory, FetchHistoryCut, Task
    <3> QED
      BY <3>1, DueFresh DEF DueLocal
  <2> QED
    BY <2>1, <2>2
<1>6. CASE ReadResults(Timer)
  <2>1. /\ pc[Timer] = "results" /\ pc'[Timer] = "loop" /\ rows' = rows
        /\ task' = [task EXCEPT ![Timer].seen = Recognised(Event(Timer))]
    BY <1>6, <1>a DEF ReadResults, db
  <2>2. /\ task'[Timer].seen = Recognised(Event(Timer)) /\ task'[Timer].event = task[Timer].event
        /\ task'[Timer].changed = task[Timer].changed
    BY <1>a, <2>1 DEF Task
  <2>3. Stored(Event(Timer))' = Stored(Event(Timer))
    BY <2>1, <2>2 DEF Stored, Event
  <2> QED
    BY <2>1, <2>2, <2>3 DEF DueLocal, LoopSteps, InsertSteps, Recognised, Page, Event
<1>7. ASSUME NEW n \in First(task[Timer].todo), ResultStep(Timer, n) PROVE DueLocal'
  BY <1>7, DueResultStep
<1>8. CASE Return(Timer)
  BY <1>8, DueEnds
<1>9. CASE (EndResults(Timer) \/ EndScan(Timer) \/ WriteLeague(Timer)) /\ ~Return(Timer)
  <2>1. /\ pc'[Timer] \in ScanSteps \ {"write"}
        /\ task'[Timer].changed = task[Timer].changed
        /\ task'[Timer].birthday = task[Timer].birthday
    BY <1>9, <1>a DEF EndResults, EndScan, WriteLeague, ScanSteps, LeagueSteps, Task
  <2> QED
    BY <2>1, DueInScan
<1>10. ASSUME NEW n \in First(task[Timer].scan), ScanStep(Timer, n) PROVE DueLocal'
  <2>1. /\ pc'[Timer] \in ScanSteps \ {"write"}
        /\ task'[Timer].changed = task[Timer].changed
        /\ task'[Timer].birthday = task[Timer].birthday
    <3>1. CASE SkipUnchanged(Timer, n) \/ CommitYear(Timer, n)
      BY <1>a, <3>1 DEF SkipUnchanged, CommitYear, PublishLeague, ScanSteps, LeagueSteps, Task
    <3>2. CASE CountResult(Timer, n)
      <4>1. \E c : \/ task' = [task EXCEPT ![Timer].counted = c, ![Timer].create = TRUE]
                   \/ task' = [task EXCEPT ![Timer].counted = c, ![Timer].create = TRUE,
                                           ![Timer].lastYear = YearOf(Timer, n),
                                           ![Timer].latest = n, ![Timer].scan = @ \ {n}]
        BY <3>2 DEF CountResult
      <4>2. pc'[Timer] \in {"scan", "league"}
        BY <1>a, <3>2 DEF CountResult
      <4> QED
        BY <1>a, <4>1, <4>2 DEF ScanSteps, LeagueSteps, Task
    <3> QED
      BY <1>10, <3>1, <3>2 DEF ScanStep
  <2> QED
    BY <2>1, DueInScan
<1>11. CASE OpenLeague(Timer)
  <2> DEFINE f == league[Key(Timer)] # NoLeague
  <2>1. /\ pc[Timer] = "league" /\ pc'[Timer] = "write" /\ league' = league
        /\ task' = [task EXCEPT ![Timer].found = f]
    BY <1>11, <1>a DEF OpenLeague, db
  <2> HIDE DEF f
  <2>2. /\ task'[Timer].found = f /\ task'[Timer].event = task[Timer].event
        /\ task'[Timer].lastYear = task[Timer].lastYear
        /\ task'[Timer].changed = task[Timer].changed
        /\ task'[Timer].birthday = task[Timer].birthday
    BY <1>a, <2>1 DEF Task
  <2>3. task'[Timer].found <=> league'[Key(Timer)'] # NoLeague
    BY <2>1, <2>2 DEF f, Key, Event
  <2> QED
    BY <2>1, <2>2, <2>3 DEF DueLocal, LoopSteps, InsertSteps
<1> QED
  BY <1>1, <1>2, <1>3, <1>4, <1>5, <1>6, <1>7, <1>8, <1>9, <1>10, <1>11, AloneStep
  DEF Step, CommitLastYear

(* The two together, as an invariant.                                      *)
LocalWhileAlone == Alone => OnlyTimer /\ DueLocal

LEMMA LocalInvariant == Spec => []LocalWhileAlone
<1>1. Init => LocalWhileAlone
  <2> SUFFICES ASSUME Init PROVE OnlyTimer /\ DueLocal
    BY DEF LocalWhileAlone
  <2>1. \A w \in Workers : pc[w] = "idle" /\ task[w] = NoTask
    BY DEF Init
  <2>2. NoTask.changed = {}
    BY DEF NoTask
  <2> QED
    BY <2>1, <2>2, TimerIsWorker DEF OnlyTimer, DueLocal, LoopSteps, InsertSteps
<1>2. TypeOK /\ LocalWhileAlone /\ [Next]_vars => LocalWhileAlone'
  BY SpentGrows, AloneStep, DueLocalNext DEF LocalWhileAlone
<1> QED
  BY <1>1, <1>2, TypeCorrect, PTL DEF Spec

-----------------------------------------------------------------------------
(* What is stored of a page is what its file holds.  A page's file changes *)
(* only while the page has no result, and one that is read or has just     *)
(* been saved agrees with what the parser made of the page.                *)

Agree(items, file) ==
    /\ items = "full" => file = "whole"
    /\ items \in {"part", "empty"} => file \in {"some", "cell"}

FileInv ==
    /\ \A n \in First(task[Timer].todo) :
           /\ pc[Timer] = "saving" => saver[Page(Timer, n)] = Timer
           /\ Page(Timer, n) \notin Malformed =>
                 /\ pc[Timer] \in {"fetch", "save", "saving"} => rows[Page(Timer, n)] = "absent"
                 /\ pc[Timer] \in {"save", "saving"} =>
                       Agree(task[Timer].items, task[Timer].page)
                 /\ pc[Timer] \in {"store", "commit"} =>
                       Agree(task[Timer].items, cache[Page(Timer, n)])
    /\ StoredAsCached

(* A step away from the files, that does not lead to an insert.            *)
LEMMA FilesElsewhere ==
    ASSUME FileInv, UNCHANGED <<rows, cache>>, pc'[Timer] \notin {"fetch"} \cup InsertSteps
    PROVE  FileInv'
BY DEF FileInv, StoredAsCached, InsertSteps

(* Only the file of a page without a result changes.                       *)
LEMMA StoredStays ==
    ASSUME TypeOK, StoredAsCached, NEW p \in Pages, p \in Malformed \/ rows[p] = "absent",
           NEW file, rows' = rows, cache' = [cache EXCEPT ![p] = file]
    PROVE  StoredAsCached'
BY DEF StoredAsCached, TypeOK

LEMMA FileResultStep ==
    ASSUME TypeOK, FileInv, NEW n \in First(task[Timer].todo), ResultStep(Timer, n)
    PROVE  FileInv'
<1> USE TimerIsWorker DEF Goto
<1> DEFINE p == Page(Timer, n)
<1>a. /\ pc \in [Workers -> Steps] /\ task \in [Workers -> Task] /\ task[Timer] \in Task
      /\ rows \in [Pages -> Kinds] /\ cache \in [Pages -> Files]
      /\ saver \in [Pages -> Workers \cup {Nobody}]
  BY DEF TypeOK
<1>b. /\ task[Timer].todo \subseteq Numbers /\ n \in task[Timer].todo /\ n \in Numbers
      /\ p \in Pages /\ \A m \in First(task[Timer].todo) : m = n
  BY <1>a, FirstIn, FirstIsOne DEF Task, Page, Pages
<1>c. pc[Timer] \in {"fetch", "save", "saving"} => p \in Malformed \/ rows[p] = "absent"
  BY DEF FileInv
<1>d. ASSUME UNCHANGED <<rows, cache>>, NextResult(Timer, n) \/ Throw(Timer) \/ Die
      PROVE  FileInv'
  <2>1. pc'[Timer] \in {"loop", "idle"}
    BY <1>a, <1>d DEF NextResult, Throw, Die
  <2> QED
    BY <1>d, <2>1, FilesElsewhere DEF InsertSteps
<1>e. ASSUME task'[Timer].todo = task[Timer].todo, task'[Timer].event = task[Timer].event
      PROVE  \A m \in First(task'[Timer].todo) : m = n /\ Page(Timer, m)' = p
  BY <1>b, <1>e DEF Page
<1> HIDE DEF p
<1>1. CASE SetBirthday(Timer, n)
  BY <1>1, FilesElsewhere DEF SetBirthday, InsertSteps, disk
<1>2. CASE \/ YearFails(Timer, n) \/ SkipStored(Timer, n)
           \/ FetchNothing(Timer, n) \/ InsertFails(Timer, n)
  BY <1>2, <1>d DEF YearFails, SkipStored, FetchNothing, InsertFails, db, disk
<1>3. CASE LookInCache(Timer, n)
  <2>1. /\ task' = task /\ UNCHANGED <<rows, cache>> /\ pc'[Timer] \in {"fetch", "read"}
        /\ pc'[Timer] = "fetch" => cache[p] = "none"
    BY <1>3, <1>a DEF LookInCache, db, disk, p
  <2>2. pc'[Timer] = "fetch" => p \in Malformed \/ rows[p] = "absent"
    BY <1>a, <1>b, <2>1 DEF FileInv, StoredAsCached, Kinds
  <2> QED
    BY <1>e, <2>1, <2>2 DEF FileInv, StoredAsCached
<1>4. CASE ReadCached(Timer, n)
  <2>1. UNCHANGED <<rows, cache>>
    BY <1>4 DEF ReadCached, db, disk
  <2>2. \/ NextResult(Timer, n) \/ Throw(Timer)
        \/ \E items : ParsesTo(Timer, items) /\ (p \notin Malformed => Agree(items, cache[p]))
    BY <1>4 DEF ReadCached, Agree, p
  <2>3. ASSUME NEW items, ParsesTo(Timer, items), p \notin Malformed => Agree(items, cache[p])
        PROVE  FileInv'
    <3>1. /\ pc'[Timer] = "store" /\ task'[Timer].items = items
          /\ task'[Timer].todo = task[Timer].todo /\ task'[Timer].event = task[Timer].event
      BY <1>a, <2>3 DEF ParsesTo, Task
    <3> QED
      BY <1>e, <2>1, <2>3, <3>1 DEF FileInv, StoredAsCached
  <2> QED
    BY <1>d, <2>1, <2>2, <2>3
<1>5. CASE ReadTableless(Timer, n) \/ FetchTableless(Timer, n)
  BY <1>5, <1>d DEF ReadTableless, FetchTableless, Die, db
<1>6. CASE FetchPage(Timer, n) \/ FetchPageCut(Timer, n)
  <2>1. \/ NextResult(Timer, n) /\ UNCHANGED <<rows, cache>>
        \/ Die
        \/ \E page, items : /\ FetchedAs(Timer, page, items) /\ pc[Timer] = "fetch"
                            /\ p \notin Malformed => Agree(items, page)
    BY <1>6 DEF FetchPage, FetchPageCut, Agree, p, db, disk
  <2>2. ASSUME NEW page, NEW items, FetchedAs(Timer, page, items), pc[Timer] = "fetch",
               p \notin Malformed => Agree(items, page)
        PROVE  FileInv'
    <3>1. /\ pc'[Timer] = "save" /\ task'[Timer].items = items /\ task'[Timer].page = page
          /\ task'[Timer].todo = task[Timer].todo /\ task'[Timer].event = task[Timer].event
          /\ UNCHANGED <<rows, cache>>
      BY <1>a, <2>2 DEF FetchedAs, Task, db, disk
    <3> QED
      BY <1>c, <1>e, <2>2, <3>1 DEF FileInv, StoredAsCached
  <2> QED
    BY <1>d, <2>1, <2>2 DEF Die, db
<1>7. CASE OpenPageFile(Timer, n) \/ WritePageFile(Timer, n)
  <2>1. /\ pc[Timer] \in {"save", "saving"} /\ pc'[Timer] = "saving"
        /\ task' = task /\ rows' = rows
        /\ \E file : cache' = [cache EXCEPT ![p] = file]
    BY <1>7, <1>a DEF OpenPageFile, WritePageFile, db, p
  <2>2. saver'[p] = Timer
    BY <1>7, <1>a, <1>b DEF OpenPageFile, WritePageFile, p
  <2>3. StoredAsCached'
    BY <1>b, <1>c, <2>1, StoredStays DEF FileInv
  <2>4. p \notin Malformed => Agree(task[Timer].items, task[Timer].page)
    BY <2>1 DEF FileInv, p
  <2> QED
    BY <1>c, <1>e, <2>1, <2>2, <2>3, <2>4 DEF FileInv
<1>8. CASE ClosePageFile(Timer, n)
  <2>1. /\ pc[Timer] = "saving" /\ pc'[Timer] = "store" /\ task' = task /\ rows' = rows
        /\ cache' = [cache EXCEPT ![p] = task[Timer].page]
    BY <1>8, <1>a DEF ClosePageFile, db, p
  <2>2. StoredAsCached'
    BY <1>b, <1>c, <2>1, StoredStays DEF FileInv
  <2>3. p \notin Malformed => Agree(task[Timer].items, cache'[p])
    BY <1>a, <1>b, <2>1 DEF FileInv, p
  <2> QED
    BY <1>e, <2>1, <2>2, <2>3 DEF FileInv
<1>9. ~WriteBehindHole(Timer, n)
  BY DEF WriteBehindHole, FileInv
<1>10. CASE InsertResult(Timer, n)
  <2>1. /\ pc[Timer] = "store" /\ pc'[Timer] = "commit" /\ UNCHANGED <<rows, cache>>
        /\ task'[Timer].items = task[Timer].items
        /\ task'[Timer].todo = task[Timer].todo /\ task'[Timer].event = task[Timer].event
    BY <1>10, <1>a DEF InsertResult, Task, db, disk
  <2>2. p \notin Malformed => Agree(task[Timer].items, cache[p])
    BY <2>1 DEF FileInv, p
  <2> QED
    BY <1>e, <2>1, <2>2 DEF FileInv, StoredAsCached
<1>11. CASE CommitResult(Timer, n)
  <2>1. /\ pc[Timer] = "commit" /\ pc'[Timer] = "loop" /\ cache' = cache
        /\ rows' = [rows EXCEPT ![p] = task[Timer].items]
    BY <1>11, <1>a DEF CommitResult, NextResult, disk, p
  <2>2. p \notin Malformed => Agree(task[Timer].items, cache[p])
    BY <2>1 DEF FileInv, p
  <2>3. StoredAsCached'
    BY <1>a, <1>b, <2>1, <2>2 DEF FileInv, StoredAsCached, Agree
  <2> QED
    BY <2>1, <2>3 DEF FileInv
<1> QED
  BY <1>1, <1>2, <1>3, <1>4, <1>5, <1>6, <1>7, <1>8, <1>9, <1>10, <1>11 DEF ResultStep

(* The steps of the timer that touch no result and no file.                *)
TimerElsewhere ==
    \/ TimerFires \/ DbError(Timer) \/ Crash
    \/ NextEvent(Timer) \/ FetchHistory(Timer) \/ FetchHistoryCut(Timer)
    \/ FetchHistoryTableless(Timer) \/ ReadResults(Timer) \/ EndResults(Timer)
    \/ \E n \in First(task[Timer].scan) : ScanStep(Timer, n)
    \/ EndScan(Timer) \/ OpenLeague(Timer) \/ LeagueInsertFails(Timer)
    \/ WriteLeague(Timer) \/ CommitLastYear(Timer)

LEMMA ElsewhereKeeps ==
    ASSUME TypeOK, TimerElsewhere
    PROVE  /\ UNCHANGED <<rows, cache>> /\ pc'[Timer] \notin {"fetch"} \cup InsertSteps
           /\ pc[Timer] = "saving" => Crash
<1> USE TimerIsWorker DEF Goto, InsertSteps
<1>a. pc \in [Workers -> Steps] /\ task \in [Workers -> Task]
  BY DEF TypeOK
<1>1. CASE \/ TimerFires \/ DbError(Timer) \/ Crash \/ NextEvent(Timer)
           \/ FetchHistoryTableless(Timer) \/ ReadResults(Timer)
  BY <1>1, <1>a DEF TimerFires, DbError, Crash, NextEvent, FetchHistoryTableless, ReadResults,
                    Throw, Die, db, disk
<1>2. CASE FetchHistory(Timer) \/ FetchHistoryCut(Timer)
  BY <1>2, <1>a DEF FetchHistory, FetchHistoryCut, Die, db, disk
<1>3. ASSUME NEW n \in First(task[Timer].scan), ScanStep(Timer, n)
      PROVE  /\ UNCHANGED <<rows, cache>> /\ pc'[Timer] \notin {"fetch"} \cup InsertSteps
             /\ pc[Timer] # "saving"
  BY <1>3, <1>a DEF ScanStep, SkipUnchanged, CountResult, CommitYear, PublishLeague, db, disk
<1>4. CASE \/ EndResults(Timer) \/ EndScan(Timer) \/ OpenLeague(Timer)
           \/ LeagueInsertFails(Timer) \/ WriteLeague(Timer) \/ CommitLastYear(Timer)
  BY <1>4, <1>a DEF EndResults, EndScan, OpenLeague, LeagueInsertFails, WriteLeague,
                    CommitLastYear, PublishLeague, Return, Throw, db, disk
<1> QED
  BY <1>1, <1>2, <1>3, <1>4 DEF TimerElsewhere

LEMMA AloneSteps ==
    ASSUME TypeOK, OnlyTimer, [Next]_vars, Alone'
    PROVE  \/ UNCHANGED <<db, disk, pc, task>>
           \/ \E n \in First(task[Timer].todo) : ResultStep(Timer, n)
           \/ TimerElsewhere
BY AloneStep DEF Step, TimerElsewhere

FilesWhileAlone == Alone => FileInv

LEMMA FileInvariant == Spec => []FilesWhileAlone
<1>1. Init => FilesWhileAlone
  <2> SUFFICES ASSUME Init PROVE FileInv
    BY DEF FilesWhileAlone
  <2>1. pc[Timer] = "idle" /\ \A p \in Pages : rows[p] = "absent"
    BY TimerIsWorker DEF Init
  <2> QED
    BY <2>1 DEF FileInv, StoredAsCached
<1>2. TypeOK /\ LocalWhileAlone /\ FilesWhileAlone /\ [Next]_vars => FilesWhileAlone'
  <2> SUFFICES ASSUME TypeOK, LocalWhileAlone, FilesWhileAlone, [Next]_vars, Alone'
               PROVE  FileInv'
    BY DEF FilesWhileAlone
  <2>1. OnlyTimer /\ DueLocal /\ FileInv
    BY SpentGrows DEF LocalWhileAlone, FilesWhileAlone
  <2>2. CASE UNCHANGED <<db, disk, pc, task>>
    BY <2>1, <2>2 DEF FileInv, StoredAsCached, Page, db, disk
  <2>3. CASE TimerElsewhere
    BY <2>1, <2>3, ElsewhereKeeps, FilesElsewhere
  <2>4. CASE \E n \in First(task[Timer].todo) : ResultStep(Timer, n)
    BY <2>1, <2>4, FileResultStep
  <2> QED
    BY <2>1, <2>2, <2>3, <2>4, AloneSteps
<1> QED
  BY <1>1, <1>2, TypeCorrect, LocalInvariant, PTL DEF Spec

(* As long as no update is forced, what is committed for a result is what  *)
(* its page file holds, whatever fails, crashes or comes cut.              *)
THEOREM ResultsAreStoredAsCached == Spec => [](Alone => StoredAsCached)
<1>1. FilesWhileAlone => (Alone => StoredAsCached)
  BY DEF FilesWhileAlone, FileInv
<1> QED
  BY <1>1, FileInvariant, PTL

-----------------------------------------------------------------------------
(* Leagues that grow.  The results of the event are of one league year: no *)
(* scan is split, and each one that rebuilds the league has read all there *)
(* is to count.                                                            *)

OneYear(e) == \A m, n \in Numbers : LeagueYear[<<e, m>>] = LeagueYear[<<e, n>>]

WithItems(e) == {n \in Numbers : rows[<<e, n>>] \in {"part", "full"}}

CountsLater == pc[Timer] \notin ScanSteps => task[Timer].counted = {}

Rebuilding == \A n \in Numbers : CreatesLeague(Timer, n)
NoRebuild  == \A n \in Numbers : ~CreatesLeague(Timer, n)

(* The scan of event e, when it is the timer's.                            *)
ScanInv(e) ==
    /\ task[Timer].counted \subseteq WithItems(e)
    /\ pc[Timer] = "scan" =>
           \/ NoRebuild /\ task[Timer].counted = {}
           \/ /\ Rebuilding
              /\ WithItems(e) \ task[Timer].scan \subseteq task[Timer].counted
              /\ task[Timer].counted # {} => task[Timer].create
    /\ pc[Timer] \in LeagueSteps =>
           task[Timer].scan = {} /\ WithItems(e) \subseteq task[Timer].counted

GrowInv(e) ==
    /\ CountsLater
    /\ \A y \in Years : league[<<e, y>>].counted \subseteq WithItems(e)
    /\ Event(Timer) = e => ScanInv(e)

LEMMA RowsStay ==
    ASSUME IInv, [Next]_vars
    PROVE  /\ \A p \in Pages : rows[p] # "absent" => rows'[p] = rows[p]
           /\ \A e \in Events : WithItems(e) \subseteq WithItems(e)'
<1>1. \A p \in Pages : rows[p] # "absent" => rows'[p] = rows[p]
  BY TableSteps DEF db, SetsBirthday, AddsRow, Replaces, IInv, TypeOK
<1> QED
  BY <1>1 DEF WithItems, Pages

LEMMA AwayFromScan ==
    ASSUME TypeOK, CountsLater,
           \/ TimerFires \/ DbError(Timer) \/ Crash
           \/ \E n \in First(task[Timer].todo) : ResultStep(Timer, n)
           \/ NextEvent(Timer) \/ FetchHistory(Timer) \/ FetchHistoryCut(Timer)
           \/ FetchHistoryTableless(Timer) \/ ReadResults(Timer)
           \/ LeagueInsertFails(Timer)
    PROVE  pc'[Timer] \notin ScanSteps /\ task'[Timer].counted = {} /\ league' = league
<1> USE TimerIsWorker DEF Goto, ScanSteps, LeagueSteps
<1>a. pc \in [Workers -> Steps] /\ task \in [Workers -> Task] /\ task[Timer] \in Task
  BY DEF TypeOK
<1>b. NoTask.counted = {} /\ \A q : [NoTask EXCEPT !.queue = q].counted = {}
  BY DEF NoTask
<1>c. ASSUME Throw(Timer) \/ Die
      PROVE  pc'[Timer] \notin ScanSteps /\ task'[Timer].counted = {}
  BY <1>a, <1>b, <1>c DEF Throw, Die
<1>d. Die => league' = league
  BY DEF Die, db
<1>1. CASE \/ DbError(Timer) \/ Crash \/ LeagueInsertFails(Timer)
           \/ FetchHistoryTableless(Timer)
  BY <1>1, <1>c, <1>d DEF DbError, Crash, LeagueInsertFails, FetchHistoryTableless, db
<1>2. CASE TimerFires
  <2>1. pc'[Timer] = "begin" /\ task'[Timer].counted = task[Timer].counted
    BY <1>2, <1>a DEF TimerFires, Task
  <2> QED
    BY <1>2, <2>1 DEF TimerFires, CountsLater, db
<1>3. CASE NextEvent(Timer)
  <2>1. pc'[Timer] = "history" /\ task'[Timer].counted = NoTask.counted
    BY <1>3, <1>a DEF NextEvent, NoTask
  <2> QED
    BY <1>3, <1>b, <2>1 DEF NextEvent, db
<1>4. CASE FetchHistory(Timer) \/ FetchHistoryCut(Timer) \/ ReadResults(Timer)
  <2>1. CASE Die
    BY <2>1, <1>c, <1>d
  <2>2. CASE ~Die
    <3>1. /\ pc'[Timer] \in {"results", "loop"} /\ pc[Timer] \in {"history", "results"}
          /\ task'[Timer].counted = task[Timer].counted
      BY <1>4, <1>a, <2>2 DEF FetchHistory, FetchHistoryCut, ReadResults, Task
    <3> QED
      BY <1>4, <2>2, <3>1 DEF FetchHistory, FetchHistoryCut, ReadResults, CountsLater, db
  <2> QED
    BY <2>1, <2>2
<1>5. ASSUME NEW n \in First(task[Timer].todo), ResultStep(Timer, n)
      PROVE  pc'[Timer] \notin ScanSteps /\ task'[Timer].counted = {} /\ league' = league
  <2>1. pc[Timer] \notin ScanSteps /\ league' = league
    BY <1>5, <1>d
    DEF ResultStep, SetBirthday, YearFails, SkipStored, LookInCache, ReadCached, ReadTableless,
        FetchNothing, FetchTableless, FetchPage, FetchPageCut, FetchedAs, OpenPageFile,
        WritePageFile, ClosePageFile, WriteBehindHole, InsertFails, InsertResult,
        CommitResult, db
  <2>2. CASE Throw(Timer) \/ Die
    BY <1>c, <2>1, <2>2
  <2>3. CASE ~(Throw(Timer) \/ Die)
    <3>1. pc'[Timer] \notin ScanSteps
      BY <1>5, <1>a, <2>1, <2>3
      DEF ResultStep, SetBirthday, YearFails, SkipStored, LookInCache, ReadCached, ReadTableless,
          ParsesTo, FetchNothing, FetchTableless, FetchPage, FetchPageCut, FetchedAs,
          OpenPageFile, WritePageFile, ClosePageFile, WriteBehindHole, InsertFails,
          InsertResult, CommitResult, NextResult
    <3>2. task'[Timer].counted = task[Timer].counted
      <4>1. CASE \/ SetBirthday(Timer, n) \/ YearFails(Timer, n)
                 \/ SkipStored(Timer, n) \/ LookInCache(Timer, n)
                 \/ ReadCached(Timer, n) \/ ReadTableless(Timer, n)
                 \/ FetchNothing(Timer, n) \/ FetchTableless(Timer, n)
        BY <1>a, <2>3, <4>1
        DEF SetBirthday, YearFails, SkipStored, LookInCache, ReadCached, ReadTableless, ParsesTo,
            FetchNothing, FetchTableless, NextResult, Task
      <4>2. CASE FetchPage(Timer, n) \/ FetchPageCut(Timer, n)
        BY <1>a, <2>3, <4>2 DEF FetchPage, FetchPageCut, FetchedAs, NextResult, Task
      <4>3. CASE \/ OpenPageFile(Timer, n) \/ WritePageFile(Timer, n)
                 \/ ClosePageFile(Timer, n) \/ WriteBehindHole(Timer, n)
                 \/ InsertFails(Timer, n) \/ InsertResult(Timer, n)
                 \/ CommitResult(Timer, n)
        BY <1>a, <2>3, <4>3
        DEF OpenPageFile, WritePageFile, ClosePageFile, WriteBehindHole, InsertFails,
            InsertResult, CommitResult, NextResult, Task
      <4> QED
        BY <1>5, <4>1, <4>2, <4>3 DEF ResultStep
    <3> QED
      BY <2>1, <3>1, <3>2 DEF CountsLater
  <2> QED
    BY <2>2, <2>3
<1> QED
  BY <1>1, <1>2, <1>3, <1>4, <1>5

LEMMA GrowAway ==
    ASSUME NEW e \in Events, GrowInv(e), WithItems(e) \subseteq WithItems(e)',
           pc'[Timer] \notin ScanSteps, task'[Timer].counted = {}, league' = league
    PROVE  GrowInv(e)'
BY DEF GrowInv, ScanInv, CountsLater, ScanSteps, LeagueSteps

(* The year does not matter to whether the league is created.              *)
LEMMA OneYearOneLeague ==
    ASSUME NEW e \in Events, OneYear(e), Event(Timer) = e, NEW n \in Numbers
    PROVE  /\ CreatesLeague(Timer, n) => Rebuilding
           /\ ~CreatesLeague(Timer, n) => NoRebuild
<1>1. \A m \in Numbers : YearOf(Timer, m) = YearOf(Timer, n)
  BY DEF OneYear, YearOf, Page, Event
<1> QED
  BY <1>1 DEF CreatesLeague, Rebuilding, NoRebuild

(* A step of the scan, or from it to the league, of whatever event.        *)
LEMMA GrowInScan ==
    ASSUME TypeOK, NEW e \in Events, GrowInv(e), rows' = rows, Event(Timer)' = Event(Timer),
           pc'[Timer] \in ScanSteps,
           \A y \in Years : league'[<<e, y>>].counted = league[<<e, y>>].counted,
           Event(Timer) = e => ScanInv(e)'
    PROVE  GrowInv(e)'
<1>1. WithItems(e)' = WithItems(e)
  BY DEF WithItems
<1> QED
  BY <1>1 DEF GrowInv, CountsLater

LEMMA GrowEndResults ==
    ASSUME IInv, NEW e \in Events, OneYear(e), GrowInv(e), EndResults(Timer)
    PROVE  GrowInv(e)'
<1> USE TimerIsWorker DEF Goto
<1>a. /\ pc \in [Workers -> Steps] /\ task \in [Workers -> Task] /\ task[Timer] \in Task
      /\ TypeOK
  BY DEF IInv, TypeOK
<1>b. /\ pc[Timer] = "loop" /\ task[Timer].counted = {} /\ rows' = rows /\ league' = league
      /\ WithItems(e)' = WithItems(e)
  BY DEF EndResults, GrowInv, CountsLater, ScanSteps, LeagueSteps, db, WithItems
<1>1. CASE Return(Timer)
  <2>1. pc'[Timer] \in {"idle", "begin"} /\ task'[Timer].counted = {}
    BY <1>1, <1>a DEF Return, NoTask
  <2> QED
    BY <1>b, <2>1, GrowAway DEF ScanSteps, LeagueSteps
<1>2. CASE ~Return(Timer)
  <2>1. /\ pc'[Timer] = "scan"
        /\ task' = [task EXCEPT ![Timer].scan = Stored(Event(Timer)), ![Timer].seen = {}]
    BY <1>2, <1>a DEF EndResults
  <2>2. /\ task'[Timer].scan = Stored(Event(Timer)) /\ task'[Timer].counted = {}
        /\ task'[Timer].event = task[Timer].event /\ task'[Timer].changed = task[Timer].changed
    BY <1>a, <1>b, <2>1 DEF Task
  <2>3. ASSUME Event(Timer) = e PROVE ScanInv(e)'
    <3>1. WithItems(e) \subseteq Stored(e)
      BY DEF WithItems, Stored
    <3>2. \A n : CreatesLeague(Timer, n)' <=> CreatesLeague(Timer, n)
      BY <1>b, <2>2 DEF CreatesLeague, YearOf, Page, Event
    <3>3. Rebuilding \/ NoRebuild
      BY <2>3, OneYearOneLeague DEF Rebuilding, NoRebuild
    <3>4. Rebuilding' \/ NoRebuild'
      BY <3>2, <3>3 DEF Rebuilding, NoRebuild
    <3> QED
      BY <1>b, <2>1, <2>2, <2>3, <3>1, <3>4 DEF ScanInv, LeagueSteps
  <2> QED
    BY <1>a, <1>b, <2>1, <2>2, <2>3, GrowInScan DEF Event, ScanSteps
<1> QED
  BY <1>1, <1>2

LEMMA GrowScanStep ==
    ASSUME IInv, NEW e \in Events, OneYear(e), GrowInv(e),
           NEW n \in First(task[Timer].scan), ScanStep(Timer, n)
    PROVE  /\ GrowInv(e)'
           /\ \A y \in Years : league'[<<e, y>>] = league[<<e, y>>]
<1> USE TimerIsWorker DEF Goto
<1>a. /\ pc \in [Workers -> Steps] /\ task \in [Workers -> Task] /\ task[Timer] \in Task
      /\ TypeOK /\ WorkerSound(Timer) /\ league \in [Events \X Years -> League]
  BY DEF IInv, TypeOK
<1>b. n \in task[Timer].scan /\ n \in Numbers
  BY <1>a, FirstIn DEF Task
<1>c. rows' = rows /\ WithItems(e)' = WithItems(e)
  BY DEF ScanStep, SkipUnchanged, CountResult, CommitYear, PublishLeague, db, WithItems
<1>1. CASE SkipUnchanged(Timer, n)
  <2>1. /\ pc[Timer] = "scan" /\ pc' = pc /\ league' = league /\ ~CreatesLeague(Timer, n)
        /\ task' = [task EXCEPT ![Timer].scan = @ \ {n}, ![Timer].create = FALSE]
    BY <1>1 DEF SkipUnchanged, db
  <2>2. /\ task'[Timer].counted = task[Timer].counted
        /\ task'[Timer].event = task[Timer].event /\ task'[Timer].changed = task[Timer].changed
    BY <1>a, <2>1 DEF Task
  <2>3. ASSUME Event(Timer) = e PROVE ScanInv(e)'
    <3>1. NoRebuild /\ task[Timer].counted = {}
      BY <1>b, <2>1, <2>3 DEF GrowInv, ScanInv, Rebuilding
    <3>2. \A m : CreatesLeague(Timer, m)' <=> CreatesLeague(Timer, m)
      BY <2>1, <2>2 DEF CreatesLeague, YearOf, Page, Event
    <3>3. NoRebuild'
      BY <3>1, <3>2 DEF NoRebuild
    <3> QED
      BY <2>1, <2>2, <3>1, <3>3 DEF ScanInv, LeagueSteps
  <2> QED
    BY <1>a, <1>c, <2>1, <2>2, <2>3, GrowInScan DEF Event, ScanSteps
<1>2. CASE CountResult(Timer, n)
  <2> DEFINE counted == task[Timer].counted \cup
                            {m \in {n} : rows[Page(Timer, m)] \in {"part", "full"}}
             yearEnds == task[Timer].lastYear \notin {0, YearOf(Timer, n)} /\ counted # {}
             t1 == [task EXCEPT ![Timer].counted = counted, ![Timer].create = TRUE]
             t2 == [task EXCEPT ![Timer].counted = counted, ![Timer].create = TRUE,
                                ![Timer].lastYear = YearOf(Timer, n),
                                ![Timer].latest = n, ![Timer].scan = @ \ {n}]
  <2>1. /\ pc[Timer] = "scan" /\ league' = league /\ CreatesLeague(Timer, n)
        /\ yearEnds => pc' = [pc EXCEPT ![Timer] = "league"] /\ task' = t1
        /\ ~yearEnds => pc' = pc /\ task' = t2
    BY <1>2 DEF CountResult, db
  <2>2. counted = task[Timer].counted \cup ({n} \cap WithItems(Event(Timer)))
    BY <1>b DEF WithItems, Page, Event
  <2> HIDE DEF counted
  <2>3. /\ task'[Timer].event = task[Timer].event /\ task'[Timer].changed = task[Timer].changed
        /\ task'[Timer].counted = counted /\ task'[Timer].create
        /\ ~yearEnds => task'[Timer].scan = task[Timer].scan \ {n}
    BY <1>a, <2>1 DEF Task
  <2>4. ASSUME Event(Timer) = e PROVE ScanInv(e)'
    <3>1. ~yearEnds
      <4>1. /\ task[Timer].latest = 0 <=> task[Timer].lastYear = 0
            /\ task[Timer].latest # 0 => /\ task[Timer].latest \in Stored(e)
                                         /\ LeagueYear[<<e, task[Timer].latest>>]
                                                = task[Timer].lastYear
        BY <1>a, <2>4 DEF WorkerSound, ScanSound, Event
      <4>2. task[Timer].latest # 0 => LeagueYear[<<e, n>>] = task[Timer].lastYear
        BY <1>b, <4>1 DEF OneYear, Stored
      <4> QED
        BY <2>4, <4>1, <4>2 DEF YearOf, Page, Event
    <3>2. \A m : CreatesLeague(Timer, m)' <=> CreatesLeague(Timer, m)
      BY <2>1, <2>3 DEF CreatesLeague, YearOf, Page, Event
    <3>3. Rebuilding /\ Rebuilding'
      BY <1>b, <2>1, <2>4, <3>2, OneYearOneLeague DEF Rebuilding
    <3>4. WithItems(e) \ task[Timer].scan \subseteq task[Timer].counted
      BY <1>b, <2>1, <2>4 DEF GrowInv, ScanInv, NoRebuild
    <3>5. WithItems(e) \ task'[Timer].scan \subseteq counted
      BY <2>2, <2>3, <2>4, <3>1, <3>4
    <3>6. counted \subseteq WithItems(e)
      BY <2>2, <2>4 DEF GrowInv, ScanInv
    <3> QED
      BY <1>c, <2>1, <2>3, <3>1, <3>3, <3>5, <3>6 DEF ScanInv, LeagueSteps
  <2>5. pc'[Timer] \in ScanSteps
    BY <1>a, <2>1 DEF ScanSteps, LeagueSteps
  <2> QED
    BY <1>a, <1>c, <2>1, <2>3, <2>4, <2>5, GrowInScan DEF Event
<1>3. CASE CommitYear(Timer, n)
  <2>1. /\ pc[Timer] = "publish" /\ pc'[Timer] = "scan"
        /\ league' = [league EXCEPT ![Key(Timer)] = [latest  |-> task[Timer].latest,
                                                     counted |-> task[Timer].counted]]
        /\ task'[Timer].event = task[Timer].event
    BY <1>3, <1>a DEF CommitYear, PublishLeague, Task
  <2>2. Event(Timer) # e
    BY <1>b, <2>1 DEF GrowInv, ScanInv, LeagueSteps
  <2>3. \A y \in Years : league'[<<e, y>>] = league[<<e, y>>]
    BY <1>a, <2>1, <2>2 DEF Key
  <2> QED
    BY <1>a, <1>c, <2>1, <2>2, <2>3, GrowInScan DEF Event, ScanSteps
<1> QED
  BY <1>1, <1>2, <1>3 DEF ScanStep

LEMMA GrowLeagueStep ==
    ASSUME IInv, NEW e \in Events, OneYear(e), GrowInv(e),
           EndScan(Timer) \/ OpenLeague(Timer) \/ WriteLeague(Timer)
    PROVE  GrowInv(e)' /\ league' = league
<1> USE TimerIsWorker DEF Goto
<1>a. /\ pc \in [Workers -> Steps] /\ task \in [Workers -> Task] /\ task[Timer] \in Task
      /\ TypeOK
  BY DEF IInv, TypeOK
<1>b. /\ rows' = rows /\ WithItems(e)' = WithItems(e) /\ league' = league
  BY DEF EndScan, OpenLeague, WriteLeague, db, WithItems
<1>1. CASE Return(Timer)
  <2>1. pc'[Timer] \in {"idle", "begin"} /\ task'[Timer].counted = {}
    BY <1>1, <1>a DEF Return, NoTask
  <2> QED
    BY <1>b, <2>1, GrowAway DEF ScanSteps, LeagueSteps
<1>2. CASE ~Return(Timer)
  <2>1. /\ pc'[Timer] \in LeagueSteps
        /\ task'[Timer].counted = task[Timer].counted
        /\ task'[Timer].event = task[Timer].event /\ task'[Timer].scan = task[Timer].scan
        /\ \/ pc[Timer] \in LeagueSteps
           \/ /\ pc[Timer] = "scan" /\ task[Timer].scan = {} /\ task[Timer].counted # {}
    BY <1>2, <1>a DEF EndScan, OpenLeague, WriteLeague, Task, LeagueSteps
  <2>2. Event(Timer) = e => ScanInv(e)'
    BY <1>b, <2>1 DEF GrowInv, ScanInv, LeagueSteps
  <2> QED
    BY <1>a, <1>b, <2>1, <2>2, GrowInScan DEF Event, ScanSteps
<1> QED
  BY <1>b, <1>1, <1>2

(* The commit of a league: what it counts is all there is to count.        *)
LEMMA GrowCommit ==
    ASSUME IInv, NEW e \in Events, OneYear(e), GrowInv(e), CommitLastYear(Timer)
    PROVE  /\ GrowInv(e)'
           /\ \A y \in Years : league[<<e, y>>].counted \subseteq league'[<<e, y>>].counted
           /\ Event(Timer) = e => \A n \in WithItems(e) :
                                      n \in league'[<<e, LeagueYear[<<e, n>>]>>].counted
           /\ Event(Timer) # e => \A y \in Years : league'[<<e, y>>] = league[<<e, y>>]
<1> USE TimerIsWorker DEF Goto
<1>a. /\ pc \in [Workers -> Steps] /\ task \in [Workers -> Task] /\ task[Timer] \in Task
      /\ TypeOK /\ WorkerSound(Timer) /\ league \in [Events \X Years -> League]
  BY DEF IInv, TypeOK
<1>1. /\ pc[Timer] = "publish" /\ rows' = rows
      /\ league' = [league EXCEPT ![Key(Timer)] = [latest  |-> task[Timer].latest,
                                                   counted |-> task[Timer].counted]]
  BY DEF CommitLastYear, PublishLeague
<1>2. pc'[Timer] \in {"idle", "begin"} /\ task'[Timer].counted = {}
  BY <1>a DEF CommitLastYear, Return, NoTask
<1>3. WithItems(e)' = WithItems(e)
  BY <1>1 DEF WithItems
<1>4. CASE Event(Timer) # e
  <2>1. \A y \in Years : league'[<<e, y>>] = league[<<e, y>>]
    BY <1>a, <1>1, <1>4 DEF Key
  <2>2. GrowInv(e)'
    BY <1>2, <1>3, <2>1 DEF GrowInv, ScanInv, CountsLater, ScanSteps, LeagueSteps
  <2> QED
    BY <1>4, <2>1, <2>2
<1>5. CASE Event(Timer) = e
  <2>1. task[Timer].counted \subseteq WithItems(e) /\ WithItems(e) \subseteq task[Timer].counted
    BY <1>1, <1>5 DEF GrowInv, ScanInv, LeagueSteps
  <2>2. \A y \in Years : \/ league'[<<e, y>>] = league[<<e, y>>]
                         \/ league'[<<e, y>>].counted = task[Timer].counted
    BY <1>a, <1>1
  <2>3. \A y \in Years : /\ league'[<<e, y>>].counted \subseteq WithItems(e)
                         /\ league[<<e, y>>].counted \subseteq league'[<<e, y>>].counted
    BY <2>1, <2>2 DEF GrowInv
  <2>4. GrowInv(e)'
    BY <1>2, <1>3, <2>3 DEF GrowInv, ScanInv, CountsLater, ScanSteps, LeagueSteps
  <2>5. ASSUME NEW n \in WithItems(e)
        PROVE  n \in league'[<<e, LeagueYear[<<e, n>>]>>].counted
    <3>1. /\ task[Timer].latest \in Stored(e)
          /\ LeagueYear[<<e, task[Timer].latest>>] = task[Timer].lastYear
      BY <1>a, <1>1, <1>5 DEF WorkerSound, ScanSound, Event
    <3>2. n \in Numbers /\ <<e, n>> \in Pages /\ LeagueYear[<<e, n>>] \in Years
      BY DEF WithItems, Pages, Years
    <3>3. <<e, LeagueYear[<<e, n>>]>> = Key(Timer)
      BY <1>5, <3>1, <3>2 DEF OneYear, Stored, Key, Event
    <3>4. league'[<<e, LeagueYear[<<e, n>>]>>].counted = task[Timer].counted
      BY <1>a, <1>1, <3>2, <3>3
    <3> QED
      BY <2>1, <3>4
  <2> QED
    BY <1>5, <2>3, <2>4, <2>5
<1> QED
  BY <1>4, <1>5

LeagueGrows(e) ==
    \A y \in Years : league[<<e, y>>].counted \subseteq league'[<<e, y>>].counted

LEMMA GrowNext ==
    ASSUME IInv, OnlyTimer, NEW e \in Events, OneYear(e), GrowInv(e), [Next]_vars, Alone'
    PROVE  GrowInv(e)' /\ LeagueGrows(e)
<1>a. TypeOK /\ CountsLater /\ WithItems(e) \subseteq WithItems(e)'
  BY RowsStay DEF IInv, GrowInv
<1>1. CASE UNCHANGED <<db, disk, pc, task>>
  <2>1. GrowInv(e)' <=> GrowInv(e)
    BY <1>1 DEF GrowInv, ScanInv, CountsLater, Rebuilding, NoRebuild, CreatesLeague,
                WithItems, YearOf, Page, Event, db
  <2> QED
    BY <1>1, <2>1 DEF LeagueGrows, db
<1>2. CASE \/ TimerFires \/ DbError(Timer) \/ Crash
           \/ \E n \in First(task[Timer].todo) : ResultStep(Timer, n)
           \/ NextEvent(Timer) \/ FetchHistory(Timer) \/ FetchHistoryCut(Timer)
           \/ FetchHistoryTableless(Timer) \/ ReadResults(Timer)
           \/ LeagueInsertFails(Timer)
  BY <1>a, <1>2, AwayFromScan, GrowAway DEF LeagueGrows
<1>3. CASE EndResults(Timer)
  BY <1>3, GrowEndResults DEF LeagueGrows, EndResults, db
<1>4. ASSUME NEW n \in First(task[Timer].scan), ScanStep(Timer, n)
      PROVE  GrowInv(e)' /\ LeagueGrows(e)
  BY <1>4, GrowScanStep DEF LeagueGrows
<1>5. CASE EndScan(Timer) \/ OpenLeague(Timer) \/ WriteLeague(Timer)
  BY <1>5, GrowLeagueStep DEF LeagueGrows
<1>6. CASE CommitLastYear(Timer)
  BY <1>6, GrowCommit DEF LeagueGrows
<1> QED
  BY <1>a, <1>1, <1>2, <1>3, <1>4, <1>5, <1>6, AloneStep DEF Step

GrowWhileAlone == Alone => \A e \in Events : OneYear(e) => GrowInv(e)

LEMMA GrowInvariant == Spec => []GrowWhileAlone
<1>1. Init => GrowWhileAlone
  <2> SUFFICES ASSUME Init, NEW e \in Events PROVE GrowInv(e)
    BY DEF GrowWhileAlone
  <2>1. /\ \A w \in Workers : pc[w] = "idle" /\ task[w] = NoTask
        /\ \A y \in Years : league[<<e, y>>].counted = {}
    BY DEF Init, NoLeague
  <2>2. pc[Timer] = "idle" /\ task[Timer].counted = {}
    <3>1. NoTask.counted = {}
      BY DEF NoTask
    <3> QED
      BY <2>1, <3>1, TimerIsWorker
  <2> QED
    BY <2>1, <2>2 DEF GrowInv, ScanInv, CountsLater, ScanSteps, LeagueSteps
<1>2. IInv /\ LocalWhileAlone /\ GrowWhileAlone /\ [Next]_vars => GrowWhileAlone'
  BY SpentGrows, GrowNext DEF LocalWhileAlone, GrowWhileAlone, IInv, OneYear
<1> QED
  BY <1>1, <1>2, Invariance, LocalInvariant, PTL DEF Spec

(* As long as no update is forced, the league of an event whose results    *)
(* are all of one league year never loses a run that it counted, whatever  *)
(* fails or crashes.                                                       *)
THEOREM LeaguesOfOneYearGrow ==
    Spec /\ []Alone => [][\A e \in Events : OneYear(e) => LeagueGrows(e)]_vars
<1>1. IInv /\ LocalWhileAlone /\ GrowWhileAlone /\ Alone /\ Alone' /\ [Next]_vars
          => [\A e \in Events : OneYear(e) => LeagueGrows(e)]_vars
  BY GrowNext DEF LocalWhileAlone, GrowWhileAlone
<1> QED
  BY <1>1, Invariance, LocalInvariant, GrowInvariant, PTL DEF Spec

(* If that holds of every event, no league is ever replaced by less.       *)
THEOREM LeaguesGrowWithoutYearEnds ==
    ASSUME \A e \in Events : OneYear(e)
    PROVE  Spec /\ []Alone => LeaguesGrow
<1>1. [\A e \in Events : OneYear(e) => LeagueGrows(e)]_vars
          => [\A l \in Events \X Years : league[l].counted \subseteq league'[l].counted]_vars
  BY DEF LeagueGrows
<1> QED
  BY <1>1, LeaguesOfOneYearGrow, PTL DEF LeaguesGrow

-----------------------------------------------------------------------------
(* A league that is behind is due.  The years of the results stored in a   *)
(* call of process are only in its locals, so it must not be ended by an   *)
(* exception: no file of a readable page may be cut.                       *)

BeingSaved(p) == /\ pc[Timer] = "saving"
                 /\ \E n \in First(task[Timer].todo) : p = Page(Timer, n)

CleanInv ==
    /\ \A p \in Pages : cache[p] \in {"none", "whole"} \/ BeingSaved(p)
    /\ pc[Timer] \in {"save", "saving"} => task[Timer].page = "whole"

(* Unless the timer is saving a page there is no cut file, and until it    *)
(* saves one there will be none.                                           *)
LEMMA CleanElsewhere ==
    ASSUME CleanInv, UNCHANGED cache, pc[Timer] # "saving",
           pc'[Timer] \notin {"save", "saving"}
    PROVE  CleanInv'
BY DEF CleanInv, BeingSaved

(* So the parser never meets a file without its table, or a cut one.       *)
LEMMA ReadsWhole ==
    ASSUME TypeOK, CleanInv, NEW n \in First(task[Timer].todo), pc[Timer] = "read"
    PROVE  cache[Page(Timer, n)] \in {"none", "whole"}
<1>1. Page(Timer, n) \in Pages
  BY TimerIsWorker, FirstIn DEF TypeOK, Task, Page, Pages
<1> QED
  BY <1>1 DEF CleanInv, BeingSaved

LEMMA CleanResultStep ==
    ASSUME TypeOK, FileInv, CleanInv, NEW n \in First(task[Timer].todo),
           ResultStep(Timer, n), ~FetchPageCut(Timer, n)
    PROVE  CleanInv'
<1> USE TimerIsWorker DEF Goto
<1>a. /\ pc \in [Workers -> Steps] /\ task \in [Workers -> Task] /\ task[Timer] \in Task
      /\ cache \in [Pages -> Files]
  BY DEF TypeOK
<1>b. n \in First(task[Timer].todo) /\ Page(Timer, n) \in Pages
  BY <1>a, FirstIn DEF Task, Page, Pages
<1>1. CASE FetchPage(Timer, n)
  <2>1. /\ pc[Timer] = "fetch" /\ pc'[Timer] = "save" /\ cache' = cache
        /\ task'[Timer].page = "whole"
    BY <1>1, <1>a DEF FetchPage, FetchedAs, Task, disk
  <2> QED
    BY <2>1 DEF CleanInv, BeingSaved
<1>2. CASE OpenPageFile(Timer, n) \/ WritePageFile(Timer, n)
  <2>1. /\ pc[Timer] \in {"save", "saving"} /\ pc'[Timer] = "saving" /\ task' = task
        /\ \E file : cache' = [cache EXCEPT ![Page(Timer, n)] = file]
    BY <1>2, <1>a DEF OpenPageFile, WritePageFile
  <2>2. \A p \in Pages : p # Page(Timer, n) => cache'[p] = cache[p] /\ ~BeingSaved(p)
    BY <1>a, <1>b, <2>1, FirstIsOne DEF BeingSaved, Task
  <2>3. BeingSaved(Page(Timer, n))'
    BY <1>b, <2>1 DEF BeingSaved, Page
  <2>4. Page(Timer, n)' = Page(Timer, n)
    BY <2>1 DEF Page
  <2> QED
    BY <2>1, <2>2, <2>3, <2>4 DEF CleanInv
<1>3. CASE ClosePageFile(Timer, n)
  <2>1. /\ pc[Timer] = "saving" /\ pc'[Timer] = "store"
        /\ cache' = [cache EXCEPT ![Page(Timer, n)] = task[Timer].page]
    BY <1>3, <1>a DEF ClosePageFile
  <2>2. \A p \in Pages : p # Page(Timer, n) => ~BeingSaved(p)
    BY <1>a, <1>b, FirstIsOne DEF BeingSaved, Task
  <2> QED
    BY <1>a, <1>b, <2>1, <2>2 DEF CleanInv
<1>4. ~WriteBehindHole(Timer, n)
  BY DEF WriteBehindHole, FileInv
<1>5. CASE \/ SetBirthday(Timer, n) \/ YearFails(Timer, n) \/ SkipStored(Timer, n)
           \/ LookInCache(Timer, n) \/ ReadCached(Timer, n) \/ ReadTableless(Timer, n) \/ FetchNothing(Timer, n)
           \/ FetchTableless(Timer, n) \/ InsertFails(Timer, n)
           \/ InsertResult(Timer, n) \/ CommitResult(Timer, n)
  <2>1. pc[Timer] # "saving" /\ UNCHANGED cache
    BY <1>5 DEF SetBirthday, YearFails, SkipStored, LookInCache, ReadCached, ReadTableless,
                FetchNothing, FetchTableless, InsertFails, InsertResult, CommitResult,
                Die, disk
  <2>2. pc'[Timer] \notin {"save", "saving"}
    BY <1>5, <1>a
    DEF SetBirthday, YearFails, SkipStored, LookInCache, ReadCached, ReadTableless, ParsesTo,
        FetchNothing, FetchTableless, InsertFails, InsertResult, CommitResult,
        NextResult, Throw, Die
  <2> QED
    BY <2>1, <2>2, CleanElsewhere
<1> QED
  BY <1>1, <1>2, <1>3, <1>4, <1>5 DEF ResultStep

CleanWhileUndisturbed == Undisturbed => CleanInv

LEMMA CleanInvariant == Spec => []CleanWhileUndisturbed
<1>1. Init => CleanWhileUndisturbed
  <2> SUFFICES ASSUME Init PROVE CleanInv
    BY DEF CleanWhileUndisturbed
  <2>1. pc[Timer] = "idle" /\ \A p \in Pages : cache[p] = "none"
    BY TimerIsWorker DEF Init
  <2> QED
    BY <2>1 DEF CleanInv
<1>2. /\ TypeOK /\ LocalWhileAlone /\ FilesWhileAlone /\ CleanWhileUndisturbed
      /\ [Next]_vars
      => CleanWhileUndisturbed'
  <2> SUFFICES ASSUME TypeOK, LocalWhileAlone, FilesWhileAlone, CleanWhileUndisturbed,
                      [Next]_vars, Undisturbed'
               PROVE  CleanInv'
    BY DEF CleanWhileUndisturbed
  <2>1. /\ Alone' /\ OnlyTimer /\ FileInv /\ CleanInv
        /\ ~Crash /\ \A n : ~FetchPageCut(Timer, n)
    BY SpentGrows DEF LocalWhileAlone, FilesWhileAlone, CleanWhileUndisturbed, Undisturbed
  <2>2. CASE UNCHANGED <<db, disk, pc, task>>
    BY <2>1, <2>2 DEF CleanInv, BeingSaved, Page, disk
  <2>3. CASE TimerElsewhere
    BY <2>1, <2>3, ElsewhereKeeps, CleanElsewhere DEF InsertSteps
  <2>4. CASE \E n \in First(task[Timer].todo) : ResultStep(Timer, n)
    BY <2>1, <2>4, CleanResultStep
  <2> QED
    BY <2>1, <2>2, <2>3, <2>4, AloneSteps
<1> QED
  BY <1>1, <1>2, TypeCorrect, LocalInvariant, FileInvariant, PTL DEF Spec

(* The league counts all it can; or if not, the timer is to rebuild it.    *)
AllCounted(e) ==
    \A n \in WithItems(e) : n \in league[<<e, LeagueYear[<<e, n>>]>>].counted

Due(e) ==
    \A n \in WithItems(e) : n \notin league[<<e, LeagueYear[<<e, n>>]>>].counted =>
        Event(Timer) = e /\ LeagueYear[<<e, n>>] \in task[Timer].changed

Readable(e) ==
    \A n \in Numbers : <<e, n>> \notin Malformed \cup Tableless \cup Yearless \cup Redated

LEMMA DueStays ==
    ASSUME NEW e \in Events, Due(e), UNCHANGED <<rows, league>>,
           task'[Timer].event = task[Timer].event,
           task[Timer].changed \subseteq task'[Timer].changed
    PROVE  Due(e)'
BY DEF Due, WithItems, Event

LEMMA DueNever ==
    ASSUME NEW e \in Events, AllCounted(e), UNCHANGED <<rows, league>>
    PROVE  Due(e)'
BY DEF Due, AllCounted, WithItems

LEMMA NothingDue ==
    ASSUME NEW e \in Events, Due(e), task[Timer].changed = {} \/ Event(Timer) # e
    PROVE  AllCounted(e)
BY DEF Due, AllCounted

LEMMA DueAtResult ==
    ASSUME IInv, CleanInv, DueLocal, NEW e \in Events, Readable(e), Due(e),
           NEW n \in First(task[Timer].todo), ResultStep(Timer, n), ~FetchPageCut(Timer, n)
    PROVE  Due(e)'
<1> USE TimerIsWorker
<1>a. /\ task \in [Workers -> Task] /\ task[Timer] \in Task /\ rows \in [Pages -> Kinds]
      /\ TypeOK
  BY DEF IInv, TypeOK
<1>b. /\ task[Timer].todo \subseteq Numbers /\ n \in task[Timer].todo /\ n \in Numbers
      /\ Page(Timer, n) \in Pages
  BY <1>a, FirstIn DEF Task, Page, Pages
<1>c. ASSUME NextResult(Timer, n)
      PROVE  /\ task'[Timer].event = task[Timer].event
             /\ task'[Timer].changed = task[Timer].changed
  BY <1>a, <1>c DEF NextResult, Task
<1>1. CASE SetBirthday(Timer, n)
  <2>1. task'[Timer].event = task[Timer].event /\ task'[Timer].changed = task[Timer].changed
    BY <1>1, <1>a DEF SetBirthday, Task
  <2> QED
    BY <1>1, <2>1, DueStays DEF SetBirthday
<1>2. CASE SkipStored(Timer, n) \/ FetchNothing(Timer, n)
  BY <1>2, <1>c, DueStays DEF SkipStored, FetchNothing, db
<1>3. CASE \/ LookInCache(Timer, n) \/ OpenPageFile(Timer, n) \/ WritePageFile(Timer, n)
           \/ ClosePageFile(Timer, n) \/ WriteBehindHole(Timer, n)
  BY <1>3, DueStays
  DEF LookInCache, OpenPageFile, WritePageFile, ClosePageFile, WriteBehindHole, db
<1>4. CASE ReadCached(Timer, n)
  <2>1. pc[Timer] = "read" /\ UNCHANGED <<rows, league>>
    BY <1>4 DEF ReadCached, db
  <2>2. ASSUME NEW items, ParsesTo(Timer, items) PROVE Due(e)'
    <3>1. task'[Timer].event = task[Timer].event /\ task'[Timer].changed = task[Timer].changed
      BY <1>a, <2>2 DEF ParsesTo, Task
    <3> QED
      BY <2>1, <3>1, DueStays
  <2>3. CASE NextResult(Timer, n)
    BY <1>c, <2>1, <2>3, DueStays
  <2>4. CASE Page(Timer, n) \in Malformed
    <3>1. Event(Timer) # e
      BY <1>b, <2>4 DEF Readable, Page, Event
    <3> QED
      BY <2>1, <3>1, NothingDue, DueNever
  <2>5. cache[Page(Timer, n)] # "cell"
    BY <1>a, <2>1, ReadsWhole
  <2> QED
    BY <1>4, <2>2, <2>3, <2>4, <2>5 DEF ReadCached
<1>5. CASE ReadTableless(Timer, n) \/ FetchTableless(Timer, n)
  <2>1. ~ReadTableless(Timer, n)
    BY <1>a, ReadsWhole DEF ReadTableless
  <2>2. Event(Timer) # e
    BY <1>5, <1>b, <2>1 DEF FetchTableless, Readable, Page, Event
  <2> QED
    BY <1>5, <2>1, <2>2, NothingDue, DueNever DEF FetchTableless, Die, db
<1>6. CASE FetchPage(Timer, n)
  <2>1. PICK page, items : task' = [task EXCEPT ![Timer].page = page, ![Timer].items = items]
    BY <1>6 DEF FetchPage, FetchedAs
  <2>2. task'[Timer].event = task[Timer].event /\ task'[Timer].changed = task[Timer].changed
    BY <1>a, <2>1 DEF Task
  <2> QED
    BY <1>6, <2>2, DueStays DEF FetchPage, FetchedAs, db
<1>7. CASE InsertFails(Timer, n) /\ Event(Timer) = e
  <2>1. n \notin Stored(Event(Timer))
    BY <1>7, <1>b DEF InsertFails, DueLocal, LoopSteps, InsertSteps, Readable, Page, Event
  <2>2. rows[Page(Timer, n)] = "absent"
    BY <1>b, <2>1 DEF Stored, Page, Event
  <2>3. task[Timer].changed = {}
    BY <1>7, <2>2 DEF InsertFails, DueLocal
  <2> QED
    BY <1>7, <2>3, NothingDue, DueNever DEF InsertFails, db
<1>10. CASE InsertFails(Timer, n) /\ Event(Timer) # e
  BY <1>10, NothingDue, DueNever DEF InsertFails, db
<1>11. CASE YearFails(Timer, n)
  <2>1. Event(Timer) # e
    BY <1>11, <1>b DEF YearFails, LacksYear, Readable, Page, Event
  <2> QED
    BY <1>11, <2>1, NothingDue, DueNever DEF YearFails, db
<1>8. CASE InsertResult(Timer, n)
  <2>1. /\ task'[Timer].event = task[Timer].event
        /\ task[Timer].changed \subseteq task'[Timer].changed
    BY <1>8, <1>a DEF InsertResult, Task
  <2> QED
    BY <1>8, <2>1, DueStays DEF InsertResult, db
<1>9. CASE CommitResult(Timer, n)
  <2>1. /\ pc[Timer] = "commit" /\ league' = league
        /\ rows' = [rows EXCEPT ![Page(Timer, n)] = task[Timer].items]
        /\ task'[Timer].event = task[Timer].event
        /\ task'[Timer].changed = task[Timer].changed
    BY <1>9, <1>c DEF CommitResult
  <2>2. LeagueYear[Page(Timer, n)] \in task[Timer].changed
    BY <2>1 DEF DueLocal, YearOf
  <2> SUFFICES ASSUME NEW m \in Numbers, rows'[<<e, m>>] \in {"part", "full"},
                      m \notin league[<<e, LeagueYear[<<e, m>>]>>].counted
               PROVE  Event(Timer) = e /\ LeagueYear[<<e, m>>] \in task[Timer].changed
    BY <2>1 DEF Due, WithItems, Event
  <2>3. CASE <<e, m>> = Page(Timer, n)
    BY <2>2, <2>3 DEF Page, Event
  <2>4. CASE <<e, m>> # Page(Timer, n)
    <3>1. rows'[<<e, m>>] = rows[<<e, m>>]
      BY <1>a, <2>1, <2>4 DEF Pages
    <3> QED
      BY <3>1 DEF Due, WithItems
  <2> QED
    BY <2>3, <2>4
<1> QED
  BY <1>1, <1>2, <1>3, <1>4, <1>5, <1>6, <1>7, <1>8, <1>9, <1>10, <1>11 DEF ResultStep

LEMMA DueNext ==
    ASSUME IInv, OnlyTimer, CleanInv, DueLocal, [Next]_vars, Quiet',
           NEW e \in Events, OneYear(e), Readable(e), GrowInv(e), Due(e)
    PROVE  Due(e)'
<1> USE TimerIsWorker DEF Goto
<1>a. /\ pc \in [Workers -> Steps] /\ task \in [Workers -> Task] /\ task[Timer] \in Task
      /\ TypeOK
  BY DEF IInv, TypeOK
<1>b. /\ Alone' /\ ~Crash /\ ~DbError(Timer)
      /\ ~FetchHistoryCut(Timer) /\ \A n : ~FetchPageCut(Timer, n)
  BY <1>a, SpentGrows DEF Quiet, Undisturbed
<1>1. CASE UNCHANGED <<db, disk, pc, task>>
  BY <1>1, DueStays DEF db
<1>2. CASE TimerFires
  <2>1. task'[Timer].event = task[Timer].event /\ task'[Timer].changed = task[Timer].changed
    BY <1>2, <1>a DEF TimerFires, Task
  <2> QED
    BY <1>2, <2>1, DueStays DEF TimerFires, db
<1>3. CASE NextEvent(Timer) \/ FetchHistoryTableless(Timer)
  BY <1>3, NothingDue, DueNever DEF NextEvent, FetchHistoryTableless, Die, DueLocal, db
<1>4. CASE FetchHistory(Timer) \/ ReadResults(Timer)
  <2>1. task'[Timer].event = task[Timer].event /\ task'[Timer].changed = task[Timer].changed
    BY <1>4, <1>a DEF FetchHistory, ReadResults, Task
  <2> QED
    BY <1>4, <2>1, DueStays DEF FetchHistory, ReadResults, db
<1>5. ASSUME NEW n \in First(task[Timer].todo), ResultStep(Timer, n) PROVE Due(e)'
  BY <1>b, <1>5, DueAtResult
<1>6. CASE EndResults(Timer)
  <2>1. CASE task[Timer].birthday
    <3>1. task' = [task EXCEPT ![Timer].scan = Stored(Event(Timer)), ![Timer].seen = {}]
      BY <1>6, <2>1 DEF EndResults
    <3>2. task'[Timer].event = task[Timer].event /\ task'[Timer].changed = task[Timer].changed
      BY <1>a, <3>1 DEF Task
    <3> QED
      BY <1>6, <3>2, DueStays DEF EndResults, db
  <2>2. CASE ~task[Timer].birthday
    BY <1>6, <2>2, NothingDue, DueNever DEF EndResults, DueLocal, db
  <2> QED
    BY <2>1, <2>2
<1>7. ASSUME NEW n \in First(task[Timer].scan), ScanStep(Timer, n) PROVE Due(e)'
  <2>1. CASE SkipUnchanged(Timer, n) \/ CommitYear(Timer, n)
    <3>1. /\ task'[Timer].event = task[Timer].event
          /\ task'[Timer].changed = task[Timer].changed
          /\ rows' = rows
      BY <1>a, <2>1 DEF SkipUnchanged, CommitYear, PublishLeague, Task, db
    <3>2. \A y \in Years : league'[<<e, y>>] = league[<<e, y>>]
      BY <1>7, GrowScanStep
    <3>3. \A n_1 \in Numbers : LeagueYear[<<e, n_1>>] \in Years
      BY DEF Years, Pages
    <3> QED
      BY <3>1, <3>2, <3>3 DEF Due, WithItems, Event
  <2>2. CASE CountResult(Timer, n)
    <3>1. \E c : \/ task' = [task EXCEPT ![Timer].counted = c, ![Timer].create = TRUE]
                 \/ task' = [task EXCEPT ![Timer].counted = c, ![Timer].create = TRUE,
                                         ![Timer].lastYear = YearOf(Timer, n),
                                         ![Timer].latest = n, ![Timer].scan = @ \ {n}]
      BY <2>2 DEF CountResult
    <3>2. task'[Timer].event = task[Timer].event /\ task'[Timer].changed = task[Timer].changed
      BY <1>a, <3>1 DEF Task
    <3> QED
      BY <2>2, <3>2, DueStays DEF CountResult, db
  <2> QED
    BY <1>7, <2>1, <2>2 DEF ScanStep
<1>8. CASE EndScan(Timer)
  <2>1. pc[Timer] = "scan" /\ task[Timer].scan = {} /\ UNCHANGED <<rows, league>>
    BY <1>8 DEF EndScan, db
  <2>2. CASE task[Timer].create /\ task[Timer].counted # {}
    <3>1. task' = task
      BY <1>8, <2>2 DEF EndScan
    <3> QED
      BY <2>1, <3>1, DueStays
  <2>3. CASE ~(task[Timer].create /\ task[Timer].counted # {})
    <3>1. CASE Event(Timer) = e
      <4>1. \/ NoRebuild /\ task[Timer].counted = {}
            \/ /\ Rebuilding
               /\ WithItems(e) \subseteq task[Timer].counted
               /\ task[Timer].counted # {} => task[Timer].create
        BY <2>1, <3>1 DEF GrowInv, ScanInv
      <4>2. CASE NoRebuild
        <5>1. \A n \in WithItems(e) : LeagueYear[<<e, n>>] \notin task[Timer].changed
          BY <3>1, <4>2 DEF NoRebuild, CreatesLeague, YearOf, Page, Event, WithItems
        <5> QED
          BY <2>1, <5>1, DueNever DEF Due, AllCounted
      <4>3. CASE WithItems(e) = {}
        BY <2>1, <4>3, DueNever DEF AllCounted
      <4> QED
        BY <2>3, <4>1, <4>2, <4>3
    <3>2. CASE Event(Timer) # e
      BY <2>1, <3>2, NothingDue, DueNever
    <3> QED
      BY <3>1, <3>2
  <2> QED
    BY <2>2, <2>3
<1>9. CASE OpenLeague(Timer) \/ WriteLeague(Timer)
  <2>1. task'[Timer].event = task[Timer].event /\ task'[Timer].changed = task[Timer].changed
    BY <1>9, <1>a DEF OpenLeague, WriteLeague, Task
  <2> QED
    BY <1>9, <2>1, DueStays DEF OpenLeague, WriteLeague, db
<1>10. ~LeagueInsertFails(Timer)
  BY DEF LeagueInsertFails, DueLocal
<1>11. CASE CommitLastYear(Timer)
  <2>1. rows' = rows
    BY <1>11 DEF CommitLastYear, PublishLeague
  <2>2. CASE Event(Timer) = e
    <3>1. \A n \in WithItems(e) : n \in league'[<<e, LeagueYear[<<e, n>>]>>].counted
      BY <1>11, <2>2, GrowCommit
    <3> QED
      BY <2>1, <3>1 DEF Due, WithItems
  <2>3. CASE Event(Timer) # e
    <3>1. \A y \in Years : league'[<<e, y>>] = league[<<e, y>>]
      BY <1>11, <2>3, GrowCommit
    <3>2. \A n \in Numbers : LeagueYear[<<e, n>>] \in Years
      BY DEF Years, Pages
    <3>3. AllCounted(e)
      BY <2>3, NothingDue
    <3> QED
      BY <2>1, <3>1, <3>2, <3>3 DEF Due, AllCounted, WithItems
  <2> QED
    BY <2>2, <2>3
<1> QED
  BY <1>a, <1>b, <1>1, <1>2, <1>3, <1>4, <1>5, <1>6, <1>7, <1>8, <1>9, <1>10, <1>11, AloneStep
  DEF Step

DueWhileQuiet == Quiet => \A e \in Events : OneYear(e) /\ Readable(e) => Due(e)

LEMMA DueInvariant == Spec => []DueWhileQuiet
<1>1. Init => DueWhileQuiet
  BY DEF Init, DueWhileQuiet, Due, WithItems, Pages
<1>2. /\ IInv /\ LocalWhileAlone /\ CleanWhileUndisturbed /\ GrowWhileAlone
      /\ DueWhileQuiet /\ [Next]_vars
      => DueWhileQuiet'
  <2> SUFFICES ASSUME IInv, LocalWhileAlone, CleanWhileUndisturbed, GrowWhileAlone,
                      DueWhileQuiet, [Next]_vars, Quiet',
                      NEW e \in Events, OneYear(e), Readable(e)
               PROVE  Due(e)'
    BY DEF DueWhileQuiet, OneYear, Readable
  <2>1. Quiet /\ Undisturbed /\ Alone
    BY SpentGrows DEF IInv, Quiet, Undisturbed
  <2>2. OnlyTimer /\ CleanInv /\ DueLocal /\ GrowInv(e) /\ Due(e)
    BY <2>1 DEF LocalWhileAlone, CleanWhileUndisturbed, GrowWhileAlone, DueWhileQuiet
  <2> QED
    BY <2>2, DueNext
<1> QED
  BY <1>1, <1>2, Invariance, LocalInvariant, CleanInvariant, GrowInvariant, PTL DEF Spec

(* Where no update is forced, nothing crashes, no page comes cut and no    *)
(* statement fails, a stored result that the league does not count is one  *)
(* that the timer is about to count, if the event's pages can all be read, *)
(* never lack their table and keep their dates, and these are all of one   *)
(* league year, in which the day of the event's birthday exists.           *)
THEOREM LeaguesBehindAreDue ==
    ASSUME \A e \in Events : OneYear(e) /\ Readable(e)
    PROVE  Spec => [](Quiet => LeagueBehindIsDue)
<1>1. DueWhileQuiet => (Quiet => LeagueBehindIsDue)
  <2> SUFFICES ASSUME \A e \in Events : Due(e), NEW p \in Pages, Uncounted(p)
               PROVE  \E w \in Workers : Event(w) = p[1] /\ LeagueYear[p] \in task[w].changed
    BY DEF DueWhileQuiet, LeagueBehindIsDue
  <2>1. PICK e \in Events, n \in Numbers : p = <<e, n>>
    BY DEF Pages
  <2>2. n \in WithItems(e) /\ n \notin league[<<e, LeagueYear[<<e, n>>]>>].counted
    BY <2>1 DEF Uncounted, WithItems
  <2> QED
    BY <2>1, <2>2, TimerIsWorker DEF Due
<1> QED
  BY <1>1, DueInvariant, PTL
=============================================================================
