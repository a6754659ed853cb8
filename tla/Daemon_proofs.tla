---------------------------- MODULE Daemon_proofs ---------------------------
(***************************************************************************)
(* The daemon's timer is HarvestTimer's, so that the throttle's bounds     *)
(* hold in the daemon; and what main's order of taking things down leaves  *)
(* to the harvest and to the requests that are still at work.              *)
(***************************************************************************)
EXTENDS Daemon, HarvestTimer_proofs

(* The pool is there from the connection to the cleanup, the timer's       *)
(* thread from its start to its join, and a harvest is in that thread.     *)
PoolWhileTimer ==
    /\ main \in {"connected", "listening", "running", "told", "joining", "joined"} => pool
    /\ timer # "off" => main \in {"running", "told", "joining"}
    /\ phase = "harvesting" => timer # "off"

(* The one event begun after _stopping was set was polled for before.      *)
PolledBefore ==
    /\ loop = "begin" \/ ~stopping => late = 0
    /\ late <= 1

(* Where the pool is gone, the daemon was told to stop, or has ended       *)
(* before it served a request.                                             *)
PoolWhileServing ==
    /\ main \in {"told", "joining", "joined", "cleaned", "crashed"} => stopping
    /\ request # "none" => main \notin {"begun", "connected"}
    /\ main = "exited" /\ ~stopping => request = "none"
    /\ PagesEndWhole

(* A harvest in its loop is one of the timer's phase.                      *)
LoopInPhase ==
    /\ loop \in {"begin"} => left > 0
    /\ loop # "out" => phase = "harvesting"

DInv == DaemonTypeOK /\ PoolWhileTimer /\ PolledBefore /\ PoolWhileServing /\ LoopInPhase

LEMMA DaemonStepIsTimerStep == [DaemonNext]_daemonVars => [Next]_vars
<1> SUFFICES ASSUME DaemonNext PROVE [Next]_vars
  BY DEF daemonVars
<1>1. CASE Main
  BY <1>1 DEF Main, MainStops, ConnectDB, StartServer, StartHarvester, Terminate,
     StopTimer, JoinTimer, Cleanup, StopServer
<1>2. CASE Passes
  BY <1>2 DEF Passes, Next
<1>3. CASE SkipsFiring
  BY <1>3 DEF SkipsFiring, Next
<1>4. CASE Fires
  BY <1>4 DEF Fires, Next
<1>5. CASE Harvester
  BY <1>5 DEF Harvester, ListEvents, GoesOn, BeginEvent, EndEvent, EndLoop, Throw, Returns, Next
<1>6. CASE Request
  BY <1>6 DEF Request, Accept, Send, EndPage, Problem, Cut, UseDeletedPool, Becomes
<1> QED
  BY <1>1, <1>2, <1>3, <1>4, <1>5, <1>6 DEF DaemonNext

(* Every step of the daemon is one of the timer's or leaves it alone.      *)
THEOREM DaemonImplementsTimer == DaemonSpec => Spec
<1>1. DaemonInit => Init
  BY DEF DaemonInit
<1> QED
  BY <1>1, DaemonStepIsTimerStep, PTL DEF DaemonSpec, Spec

(* In the daemon too, of as many firings as the factor says, and one, one  *)
(* is a harvest.                                                           *)
THEOREM DaemonSkipsAreBounded == DaemonSpec => []SkipsBounded
  BY DaemonImplementsTimer, SkipsAreBounded, PTL

(* In the daemon too, a Saturday is throttled less than other days.        *)
THEOREM DaemonSaturdaySkipsAreFewer == DaemonSpec => SaturdayIsFaster
  BY DaemonImplementsTimer, SaturdaySkipsAreFewer, PTL

-----------------------------------------------------------------------------

LEMMA DaemonInitInv == DaemonInit => DInv
<1> SUFFICES ASSUME DaemonInit PROVE DInv
  OBVIOUS
<1>1. TypeOK
  BY InitIInv DEF DaemonInit, IInv
<1>2. DaemonTypeOK
  <2>1. 0 \in 0 .. EventCount /\ 0 \in 0 .. MaxErrors /\ 0 \in Nat
    BY DaemonAssumption
  <2> QED
    BY <1>1, <2>1 DEF DaemonInit, DaemonTypeOK
<1>3. PoolWhileTimer /\ PolledBefore /\ PoolWhileServing /\ LoopInPhase
  BY DEF DaemonInit, Init, PoolWhileTimer, PolledBefore, PoolWhileServing,
         PagesEndWhole, LoopInPhase
<1> QED
  BY <1>2, <1>3 DEF DInv

LEMMA TimerTypeStep == IInv /\ [DaemonNext]_daemonVars => TypeOK'
  BY DaemonStepIsTimerStep, NextIInv DEF IInv

LEMMA MainStep == DInv /\ TypeOK' /\ Main => DInv'
<1> SUFFICES ASSUME DInv, TypeOK', Main PROVE DInv'
  OBVIOUS
<1> USE DEF DInv, DaemonTypeOK, PoolWhileTimer, PolledBefore, PoolWhileServing,
            PagesEndWhole, LoopInPhase, vars, loopVars, requestVars
<1>1. CASE ConnectDB
  BY <1>1, DaemonAssumption DEF ConnectDB
<1>2. CASE StartServer
  BY <1>2 DEF StartServer
<1>3. CASE StartHarvester
  BY <1>3 DEF StartHarvester
<1>4. CASE Terminate
  BY <1>4 DEF Terminate
<1>5. CASE StopTimer
  BY <1>5 DEF StopTimer
<1>6. CASE JoinTimer
  BY <1>6 DEF JoinTimer
<1>7. CASE Cleanup
  BY <1>7 DEF Cleanup
<1>8. CASE StopServer
  BY <1>8 DEF StopServer
<1> QED
  BY <1>1, <1>2, <1>3, <1>4, <1>5, <1>6, <1>7, <1>8 DEF Main, MainStops

LEMMA HarvesterStep == DInv /\ TypeOK' /\ (Passes \/ SkipsFiring \/ Fires \/ Harvester) => DInv'
<1> SUFFICES ASSUME DInv, TypeOK', Passes \/ SkipsFiring \/ Fires \/ Harvester PROVE DInv'
  OBVIOUS
<1> USE DaemonAssumption
    DEF DInv, DaemonTypeOK, PoolWhileTimer, PolledBefore, PoolWhileServing,
        PagesEndWhole, LoopInPhase, threadVars, loopVars, requestVars
<1>1. CASE Passes
  BY <1>1 DEF Passes, Tick
<1>2. CASE SkipsFiring
  BY <1>2 DEF SkipsFiring, Skip
<1>3. CASE Fires
  BY <1>3 DEF Fires, Harvest
<1>4. CASE ListEvents
  BY <1>4 DEF ListEvents, vars
<1>5. CASE GoesOn
  BY <1>5 DEF GoesOn, vars
<1>6. CASE BeginEvent
  BY <1>6 DEF BeginEvent, vars
<1>7. CASE EndEvent
  BY <1>7 DEF EndEvent, vars
<1>8. CASE EndLoop
  BY <1>8 DEF EndLoop, Returns, HarvestEnds
<1>9. CASE Throw
  BY <1>9 DEF Throw, Returns, HarvestEnds
<1> QED
  BY <1>1, <1>2, <1>3, <1>4, <1>5, <1>6, <1>7, <1>8, <1>9 DEF Harvester

LEMMA RequestStep == DInv /\ TypeOK' /\ Request => DInv'
<1> SUFFICES ASSUME DInv, TypeOK', Request PROVE DInv'
  OBVIOUS
<1> USE DaemonAssumption
    DEF DInv, DaemonTypeOK, PoolWhileTimer, PolledBefore, PoolWhileServing,
        PagesEndWhole, LoopInPhase, threadVars, loopVars, requestVars, vars, Becomes, ReadFails, Over
<1>1. CASE Accept
  BY <1>1 DEF Accept, Serves
<1>2. CASE Send
  BY <1>2 DEF Send
<1>3. CASE EndPage
  BY <1>3 DEF EndPage
<1>4. CASE Problem
  BY <1>4 DEF Problem
<1>5. CASE Cut
  BY <1>5 DEF Cut
<1>6. CASE UseDeletedPool
  BY <1>6 DEF UseDeletedPool
<1> QED
  BY <1>1, <1>2, <1>3, <1>4, <1>5, <1>6 DEF Request

LEMMA DaemonNextInv == DInv /\ IInv /\ [DaemonNext]_daemonVars => DInv'
<1> SUFFICES ASSUME DInv, IInv, [DaemonNext]_daemonVars PROVE DInv'
  OBVIOUS
<1>1. TypeOK'
  BY TimerTypeStep
<1>2. CASE DaemonNext
  BY <1>1, <1>2, MainStep, HarvesterStep, RequestStep DEF DaemonNext
<1>3. CASE UNCHANGED daemonVars
  BY <1>1, <1>3
  DEF daemonVars, requestVars, threadVars, loopVars, vars, DInv, DaemonTypeOK, PoolWhileTimer,
      PolledBefore, PoolWhileServing, PagesEndWhole, LoopInPhase
<1> QED
  BY <1>2, <1>3

LEMMA DaemonInvariant == DaemonSpec => []DInv
<1>1. IInv /\ [Next]_vars => IInv'
  BY NextIInv
<1>2. DaemonSpec => []IInv
  BY <1>1, InitIInv, DaemonImplementsTimer, PTL DEF Spec
<1> QED
  BY <1>2, DaemonInitInv, DaemonNextInv, PTL DEF DaemonSpec

(* Every variable stays in its type, for any number of events.             *)
THEOREM DaemonTypeCorrect == DaemonSpec => []DaemonTypeOK
<1>1. DInv => DaemonTypeOK
  BY DEF DInv
<1> QED
  BY <1>1, DaemonInvariant, PTL

(* A harvest never finds the session pool missing, for main deletes it     *)
(* after the timer's thread has come to its end.                           *)
THEOREM HarvesterAlwaysHasPool == DaemonSpec => []HarvesterHasPool
<1>1. DInv => HarvesterHasPool
  BY DEF DInv, DaemonTypeOK, PoolWhileTimer, HarvesterHasPool
<1> QED
  BY <1>1, DaemonInvariant, PTL

(* However many events there are, one at most is begun after _stopping.    *)
THEOREM HarvestStopsSoon == DaemonSpec => []StopsBeforeNextEvent
<1>1. DInv => StopsBeforeNextEvent
  BY DEF DInv, PolledBefore, StopsBeforeNextEvent
<1> QED
  BY <1>1, DaemonInvariant, PTL

(* Without a failed statement no page that has all it is to show is cut    *)
(* before the daemon is told to stop.                                      *)
THEOREM PagesAlwaysEndWhole == DaemonSpec => []PagesEndWhole
<1>1. DInv => PagesEndWhole
  BY DEF DInv, PoolWhileServing
<1> QED
  BY <1>1, DaemonInvariant, PTL
=============================================================================
