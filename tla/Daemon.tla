------------------------------- MODULE Daemon -------------------------------
(***************************************************************************)
(* PRPLHTTPServerApplication: the threads of prpld and the session pool    *)
(* they share.  Main makes the pool, starts the HTTP server and the        *)
(* harvester's timer, waits to be told to stop, and takes it all down; the *)
(* timer's thread goes through the events at each firing that HarvestTimer *)
(* lets in; a request thread reads through the pool before and after it    *)
(* has begun its response.                                                 *)
(***************************************************************************)
EXTENDS HarvestTimer

CONSTANTS
    EventCount,    \* the rows of EVENT
    MaxErrors      \* bound: statements that fail

ASSUME DaemonAssumption == EventCount \in Nat /\ MaxErrors \in Nat

VARIABLES
    main,        \* what main has done last
    pool,        \* _pDbSessionPool is not NULL
    stopping,    \* _stopping
    timer,       \* the timer's thread is "off", "on" or told to end, "ending"
    loop,        \* where a harvest is in its loop over the events
    left,        \* the events it has before it
    late,        \* events it began after _stopping was set
    request,     \* how far a request is, or what became of the last one
    shows,       \* its page has every value that it is to show
    errors       \* of MaxErrors

threadVars == <<main, pool, stopping, timer>>
loopVars   == <<loop, left, late>>
requestVars == <<request, shows>>
daemonVars == <<vars, threadVars, loopVars, requestVars, errors>>

DaemonInit ==
    /\ Init
    /\ main = "begun" /\ pool = FALSE /\ stopping = FALSE /\ timer = "off"
    /\ loop = "out" /\ left = 0 /\ late = 0
    /\ request = "none" /\ shows = TRUE /\ errors = 0

Over == main \in {"exited", "crashed"}

-----------------------------------------------------------------------------
(* Main.                                                                   *)

(* Whether the database is there and has the schema is only logged; but no *)
(* one catches it when the schema's version cannot be read.                *)
ConnectDB ==
    /\ main = "begun"
    /\ pool' = TRUE
    /\ \/ main' = "connected" /\ UNCHANGED errors
       \/ main' = "exited" /\ errors < MaxErrors /\ errors' = errors + 1
    /\ UNCHANGED <<vars, stopping, timer, loopVars, requestVars>>

(* Nor when the port is taken.                                             *)
StartServer ==
    /\ main = "connected"
    /\ main' \in {"listening", "exited"}
    /\ UNCHANGED <<vars, pool, stopping, timer, loopVars, requestVars, errors>>

(* The harvester can be disabled.                                          *)
StartHarvester ==
    /\ main = "listening"
    /\ main' = "running" /\ timer' \in {"on", "off"}
    /\ UNCHANGED <<vars, pool, stopping, loopVars, requestVars, errors>>

Terminate ==
    /\ main = "running"
    /\ main' = "told" /\ stopping' = TRUE
    /\ UNCHANGED <<vars, pool, timer, loopVars, requestVars, errors>>

(* Mutant: the timer is waited for and not told.                           *)
StopTimerUntold ==
    /\ main = "told"
    /\ main' = "joining"
    /\ UNCHANGED <<vars, pool, stopping, timer, loopVars, requestVars, errors>>

(* Poco::Timer::stop: no further firing, and the end of the one it is in.  *)
StopTimer ==
    /\ main = "told"
    /\ main' = "joining"
    /\ timer' = IF timer = "on" THEN "ending" ELSE timer
    /\ UNCHANGED <<vars, pool, stopping, loopVars, requestVars, errors>>

(* Mutant: the timer's thread is not waited for.                           *)
JoinAtOnce ==
    /\ main = "joining"
    /\ main' = "joined" /\ timer' = "off"
    /\ UNCHANGED <<vars, pool, stopping, loopVars, requestVars, errors>>

JoinTimer ==
    /\ main = "joining" /\ phase = "waiting"
    /\ main' = "joined" /\ timer' = "off"
    /\ UNCHANGED <<vars, pool, stopping, loopVars, requestVars, errors>>

Cleanup ==
    /\ main = "joined"
    /\ main' = "cleaned" /\ pool' = FALSE
    /\ UNCHANGED <<vars, stopping, timer, loopVars, requestVars, errors>>

StopServer ==
    /\ main = "cleaned"
    /\ main' = "exited"
    /\ UNCHANGED <<vars, pool, stopping, timer, loopVars, requestVars, errors>>

MainStops == StopTimer \/ JoinTimer \/ Cleanup \/ StopServer
Main == ConnectDB \/ StartServer \/ StartHarvester \/ Terminate \/ MainStops

-----------------------------------------------------------------------------
(* The timer's thread.                                                     *)

Passes ==
    /\ ~Over /\ Tick
    /\ UNCHANGED <<threadVars, loopVars, requestVars, errors>>

SkipsFiring ==
    /\ timer = "on" /\ Skip
    /\ UNCHANGED <<threadVars, loopVars, requestVars, errors>>

Fires ==
    /\ timer = "on" /\ Harvest
    /\ loop' = "list"
    /\ UNCHANGED <<threadVars, left, late, requestVars, errors>>

ListEvents ==
    /\ loop = "list" /\ pool
    /\ loop' = "poll" /\ left' = EventCount
    /\ UNCHANGED <<vars, threadVars, late, requestVars, errors>>

(* Mutant: the loop does not ask whether the daemon is stopping.           *)
GoesOnToTheEnd ==
    /\ loop = "poll" /\ left > 0
    /\ loop' = "begin"
    /\ UNCHANGED <<vars, threadVars, left, late, requestVars, errors>>

(* isStopping, before an event, after it and at each second of the sleep.  *)
GoesOn ==
    /\ loop = "poll" /\ ~stopping /\ left > 0
    /\ loop' = "begin"
    /\ UNCHANGED <<vars, threadVars, left, late, requestVars, errors>>

BeginEvent ==
    /\ loop = "begin"
    /\ loop' = "process" /\ left' = left - 1
    /\ late' = IF stopping THEN late + 1 ELSE late
    /\ UNCHANGED <<vars, threadVars, requestVars, errors>>

EndEvent ==
    /\ loop = "process" /\ pool
    /\ loop' = "poll"
    /\ UNCHANGED <<vars, threadVars, left, late, requestVars, errors>>

Returns ==
    /\ HarvestEnds
    /\ loop' = "out" /\ left' = 0
    /\ UNCHANGED <<threadVars, late, requestVars>>

EndLoop ==
    /\ loop = "poll" /\ (stopping \/ left = 0)
    /\ Returns /\ UNCHANGED errors

(* A statement fails, or there is no pool: the catch around the loop.      *)
Throw ==
    /\ loop \in {"list", "process"}
    /\ \/ ~pool /\ UNCHANGED errors
       \/ errors < MaxErrors /\ errors' = errors + 1
    /\ Returns

Harvester == ListEvents \/ GoesOn \/ BeginEvent \/ EndEvent \/ EndLoop \/ Throw

-----------------------------------------------------------------------------
(* A request thread.                                                       *)

Becomes(outcome) ==
    /\ request' = outcome
    /\ UNCHANGED <<vars, threadVars, loopVars>>

Serves == main \notin {"begun", "connected"} /\ ~Over

Accept ==
    /\ Serves
    /\ request \in {"none", "whole", "problem", "cut"}
    /\ Becomes("read") /\ shows' = TRUE /\ UNCHANGED errors

(* The reads before the response; a page of files and the reply of         *)
(* /forceupdate need none.  It shows what is stored: a run may be without  *)
(* a gender position, a league's year without the day of the birthday.     *)
Send ==
    /\ ~Over /\ request = "read"
    /\ Becomes("sent") /\ shows' \in BOOLEAN /\ UNCHANGED errors

EndPage ==
    /\ ~Over /\ request = "sent" /\ shows
    /\ Becomes("whole") /\ UNCHANGED <<shows, errors>>

ReadFails == \/ ~pool /\ UNCHANGED errors
             \/ errors < MaxErrors /\ errors' = errors + 1

(* Nothing is found, of event and athlete even twice, or the read fails:   *)
(* responseProblem's page, the second one refused by the first.            *)
Problem ==
    /\ ~Over /\ request = "read"
    /\ Becomes("problem") /\ UNCHANGED shows
    /\ UNCHANGED errors \/ ReadFails

(* Mutant: a page is begun before its reads.                               *)
CutFound ==
    /\ ~Over /\ request = "sent"
    /\ Becomes("cut") /\ UNCHANGED <<shows, errors>>

(* A read throws, or a value that is not there: the catch cannot begin     *)
(* another response, and the page ends where it is.                        *)
Cut ==
    /\ ~Over /\ request = "sent"
    /\ ReadFails \/ (~shows /\ UNCHANGED errors)
    /\ Becomes("cut") /\ UNCHANGED shows

(* The pool is deleted under a request that has just taken it.             *)
UseDeletedPool ==
    /\ main = "cleaned" /\ request \in {"read", "sent"}
    /\ main' = "crashed"
    /\ UNCHANGED <<vars, pool, stopping, timer, loopVars, requestVars, errors>>

Request == Accept \/ Send \/ EndPage \/ Problem \/ Cut \/ UseDeletedPool

DaemonNext == Main \/ Passes \/ SkipsFiring \/ Fires \/ Harvester \/ Request

DaemonSpec == DaemonInit /\ [][DaemonNext]_daemonVars

(* Threads run, the timer fires, and the harvest of an event ends.         *)
DaemonFairness ==
    /\ WF_daemonVars(MainStops)
    /\ WF_daemonVars(SkipsFiring \/ Fires)
    /\ WF_daemonVars(Harvester)

FairDaemonSpec == DaemonSpec /\ DaemonFairness

-----------------------------------------------------------------------------
(* Properties.                                                             *)

(* Every variable stays in its type.                                       *)
DaemonTypeOK ==
    /\ TypeOK
    /\ main \in {"begun", "connected", "listening", "running", "told",
                 "joining", "joined", "cleaned", "exited", "crashed"}
    /\ pool \in BOOLEAN /\ stopping \in BOOLEAN
    /\ timer \in {"off", "on", "ending"}
    /\ loop \in {"out", "list", "poll", "begin", "process"}
    /\ left \in 0 .. EventCount /\ late \in Nat
    /\ request \in {"none", "read", "sent", "whole", "problem", "cut"} /\ shows \in BOOLEAN
    /\ errors \in 0 .. MaxErrors

(* While the timer's thread harvests, the session pool is there: main      *)
(* deletes it only when that thread has come to its end.                   *)
HarvesterHasPool == phase = "harvesting" => pool

(* Once the daemon is told to stop, a harvest begins at most the one event *)
(* it had found no reason not to begin.                                    *)
StopsBeforeNextEvent == late <= 1

(* A daemon that is told to stop does, however far its harvest is.         *)
DaemonStops == main = "told" ~> Over

(* While the timer is on and the daemon is not told to stop, it harvests.  *)
HarvestsUntilStopped == timer = "on" ~> phase = "harvesting" \/ stopping

(* A page that was begun with all it is to show ends whole, unless a       *)
(* statement failed or the daemon was told to stop: only then can its      *)
(* reads find no session.                                                  *)
PagesEndWhole == request = "cut" => ~shows \/ errors > 0 \/ stopping
=============================================================================
