---------------------------- MODULE HarvestTimer ----------------------------
(***************************************************************************)
(* ResultsControllerTimer::onTimer: which firings of the harvester's timer *)
(* become a harvest.  Most do not: a counter lets one in so many pass, by  *)
(* the day and the hour.  The timer's thread makes one call at a time; a   *)
(* firing that falls into a harvest is left out by Poco's timer.           *)
(*                                                                         *)
(* The counter belongs to an object that startResultsHarvester keeps on    *)
(* its stack and leaves to the timer when it returns, so its value at the  *)
(* first firing is any.  Main then waits for the termination request and   *)
(* leaves that memory alone.                                               *)
(***************************************************************************)
EXTENDS Integers

CONSTANTS
    Factor,       \* results.non-parkrun-day-slow-down-factor
    MaxCounter    \* the largest unsigned long

ASSUME FactorAssumption == Factor \in Nat /\ MaxCounter \in Nat /\ Factor <= MaxCounter

VARIABLES
    clock,      \* the hour of the week, from the first of Saturday
    counter,    \* _ignoreCounter
    phase,      \* the timer's thread is "waiting" or "harvesting"
    skips       \* firings since the last harvest, or the start

vars == <<clock, counter, phase, skips>>

Hours == 0 .. 7 * 24 - 1

Init ==
    /\ clock \in Hours
    /\ counter \in 0 .. MaxCounter
    /\ phase = "waiting"
    /\ skips = 0

Saturday == clock < 24
Hour     == clock % 24

(* Mutant: a Saturday is throttled like any other day.                     *)
LimitOfWeekday == Factor

Limit == IF ~Saturday THEN Factor
         ELSE IF Hour < 9 \/ Hour > 14 THEN Factor \div 2
         ELSE Factor \div 4

Throttled == \/ ~Saturday
             \/ Hour < 9 \/ Hour > 14
             \/ Hour >= 12 \/ Hour <= 14

(* Mutant: the counter saturates.                                          *)
CountedToLimit == IF counter + 1 < Limit THEN counter + 1 ELSE counter

Counted == (counter + 1) % (MaxCounter + 1)

Tick ==
    /\ clock' = (clock + 1) % (7 * 24)
    /\ UNCHANGED <<counter, phase, skips>>

(* Mutant: the counter is reset when the harvest is skipped.               *)
SkipAndReset ==
    /\ phase = "waiting"
    /\ Throttled /\ Counted < Limit
    /\ counter' = 0
    /\ skips' = IF skips > Factor THEN skips ELSE skips + 1
    /\ UNCHANGED <<clock, phase>>

Skip ==
    /\ phase = "waiting"
    /\ Throttled /\ Counted < Limit
    /\ counter' = Counted
    /\ skips' = skips + 1
    /\ UNCHANGED <<clock, phase>>

(* Mutant: the limit is taken off the counter as it was, not counted up.   *)
HarvestTakesOff ==
    /\ phase = "waiting"
    /\ ~(Throttled /\ Counted < Limit)
    /\ counter' = counter - Limit
    /\ skips' = 0
    /\ phase' = "harvesting"
    /\ UNCHANGED clock

Harvest ==
    /\ phase = "waiting"
    /\ ~(Throttled /\ Counted < Limit)
    /\ counter' = IF Throttled THEN 0 ELSE counter
    /\ skips' = 0
    /\ phase' = "harvesting"
    /\ UNCHANGED clock

HarvestEnds ==
    /\ phase = "harvesting"
    /\ phase' = "waiting"
    /\ UNCHANGED <<clock, counter, skips>>

Next == Tick \/ Skip \/ Harvest \/ HarvestEnds

Spec == Init /\ [][Next]_vars

-----------------------------------------------------------------------------
(* Properties.                                                             *)

(* Every variable stays in its type, the counter within an unsigned long.  *)
TypeOK ==
    /\ clock \in Hours
    /\ counter \in 0 .. MaxCounter
    /\ phase \in {"waiting", "harvesting"}
    /\ skips \in Nat

(* The throttle slows the harvest down by the factor and no more, whatever *)
(* the counter held at first and however days and hours alternate: among   *)
(* so many firings one is a harvest.                                       *)
SkipsBounded == skips <= Factor

(* A Saturday is throttled less than other days, even by a counter that    *)
(* was counted up on those.                                                *)
SaturdayIsFaster ==
    [][skips' > skips /\ Saturday =>
          skips' <= (IF Hour \in 9 .. 14 THEN Factor \div 4 ELSE Factor \div 2)]_vars

(* On Saturday mornings between 9 and 12, when runs are held and their     *)
(* results come in, no firing is skipped as "outside usual ParkRun time".  *)
HarvestsAtRunTime == [][Saturday /\ Hour \in 9 .. 11 => skips' <= skips]_vars

=============================================================================
